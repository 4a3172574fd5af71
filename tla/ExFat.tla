------------------------------- MODULE ExFat -------------------------------
(***************************************************************************)
(* The formatter of libexfat.c: exfat_format, from the length of the volume *)
(* to the layout, and from the layout to the sectors of the drive, one      *)
(* write after the other, any of which may fail.  The sizes that the format *)
(* fixes are constants, so that small volumes show what large ones do.      *)
(***************************************************************************)
EXTENDS Integers, FiniteSets

CONSTANTS SectorBytes,   \* bytes_per_sector
          UpcaseBytes,   \* EXFAT_UPCASE_DATA_LENGTH
          MaxClusters,   \* EXFAT_MAX_CLUSTER_COUNT
          MinVolume,     \* the least volume length
          DefaultSpc,    \* sectors in a cluster of 128 KiB
          MaxSpc,        \* sectors in a cluster of 32 MiB
          Rounds,        \* how often the lengths are calculated, 64
          Volumes,       \* volume lengths in sectors
          Clusters       \* sectors per cluster that are asked for, or Automatic

Automatic == 0
FatOffset == 24          \* EXFAT_MIN_FAT_OFFSET

ASSUME ExFatAssumption ==
    /\ {SectorBytes, UpcaseBytes, MaxClusters, DefaultSpc, MaxSpc, Rounds} \subseteq Nat \ {0}
    /\ SectorBytes % 4 = 0
    /\ MinVolume \in Nat
    /\ Volumes \subseteq Nat /\ Clusters \subseteq Nat

VARIABLES
    volume, wanted,   \* options: volume_length and the cluster size
    pc,               \* what exfat_format does next
    spc,              \* sectors_per_cluster
    fat, count,       \* fat_length and cluster_count, round by round
    round,            \* iteration
    at,               \* the sector that is written next, within its structure
    result,           \* what the formatter returned
    disk              \* the sectors of the volume

vars == <<volume, wanted, pc, spc, fat, count, round, at, result, disk>>
options == <<volume, wanted>>
lengths == <<spc, fat, count, round>>

-----------------------------------------------------------------------------
(* The layout.                                                             *)

\* exfat_div_ceil_u64.
DivCeil(n, d) == (n + d - 1) \div d

\* Mutant: no room for the two reserved entries.
FatNeeded_Bare(clusters) == DivCeil(clusters * 4, SectorBytes)

\* FatEntry[0] .. FatEntry[ClusterCount + 1].
FatNeeded(clusters) == DivCeil((clusters + 2) * 4, SectorBytes)

ClusterBytes == SectorBytes * spc
HeapOffset == FatOffset + fat
BitmapBytes == DivCeil(count, 8)
BitmapClusters == DivCeil(BitmapBytes, ClusterBytes)
UpcaseClusters == DivCeil(UpcaseBytes, ClusterBytes)
Allocated == BitmapClusters + UpcaseClusters + 1

\* The clusters of the bitmap, of the up-case table and of the root directory.
BitmapFirst == 2
UpcaseFirst == BitmapFirst + BitmapClusters
RootFirst == UpcaseFirst + UpcaseClusters

\* What the boot sector says.
Geometry == [length |-> volume, spc |-> spc, fatLength |-> fat, heap |-> HeapOffset,
             clusters |-> count, root |-> RootFirst]

-----------------------------------------------------------------------------
(* exfat_calculate_geometry.                                               *)

Ends(why) ==
    /\ pc' = "end" /\ result' = why
    /\ UNCHANGED <<options, lengths, at, disk>>

\* A layout is refused: with EXFAT_AUTO_CLUSTER_SHIFT the next size is tried.
NextSize ==
    IF wanted = Automatic /\ spc < MaxSpc
    THEN /\ spc' = 2 * spc /\ fat' = 1 /\ count' = 0 /\ round' = 0
         /\ pc' = "begin"
         /\ UNCHANGED <<options, at, result, disk>>
    ELSE Ends("geometry")

\* The tests that come before the lengths are calculated.
Begin ==
    /\ pc = "begin"
    /\ IF spc > MaxSpc \/ volume < MinVolume \/ volume <= FatOffset
       THEN NextSize
       ELSE /\ pc' = "layout"
            /\ UNCHANGED <<options, lengths, at, result, disk>>

NewCount == (volume - HeapOffset) \div spc

\* One iteration: the lengths of FAT and heap from each other, until both stay.
Iterate ==
    /\ pc = "layout" /\ round < Rounds
    /\ IF HeapOffset >= volume \/ NewCount \notin 1 .. MaxClusters
       THEN NextSize
       ELSE IF FatNeeded(NewCount) = fat /\ NewCount = count
       THEN /\ pc' = "stable"
            /\ UNCHANGED <<options, lengths, at, result, disk>>
       ELSE /\ fat' = FatNeeded(NewCount) /\ count' = NewCount /\ round' = round + 1
            /\ UNCHANGED <<options, pc, spc, at, result, disk>>

Unstable ==
    /\ pc = "layout" /\ round = Rounds
    /\ NextSize

\* Mutant: the metadata may be larger than the heap.
TooSmall_Never == FALSE

TooSmall == Allocated > count

\* The metadata must fit into the heap.
Place ==
    /\ pc = "stable"
    /\ IF TooSmall THEN NextSize
       ELSE /\ pc' = "validate"
            /\ UNCHANGED <<options, lengths, at, result, disk>>

\* exfat_validate_geometry.
Valid ==
    /\ fat # 0
    /\ fat * SectorBytes >= (count + 2) * 4
    /\ HeapOffset + count * spc <= volume
    /\ count \in 1 .. MaxClusters
    /\ RootFirst <= count + 1

Validate ==
    /\ pc = "validate"
    /\ IF ~Valid THEN Ends("invalid")
       ELSE /\ pc' = "boot" /\ at' = 0
            /\ UNCHANGED <<options, lengths, result, disk>>

-----------------------------------------------------------------------------
(* The sectors.                                                            *)

Old == [kind |-> "old"]
EndOfChain == -1         \* EXFAT_FAT_EOF
MediaEntry == -2         \* EXFAT_FAT_MEDIA_ENTRY

\* exfat_cluster_to_volume_sector.
SectorOf(cluster) == HeapOffset + (cluster - 2) * spc

\* exfat_build_boot_region: twelve sectors that tell the layout.
BootRegionSectors == 12
BootSector(i) == [kind |-> "boot", part |-> i, says |-> Geometry]

\* exfat_fat_value_for_index.
InChain(i, first, n) == i >= first /\ i < first + n
Linked(i, first, n) == IF i - first + 1 < n THEN i + 1 ELSE EndOfChain

FatValue(i) ==
    CASE i = 0 -> MediaEntry
      [] i = 1 -> EndOfChain
      [] InChain(i, BitmapFirst, BitmapClusters) -> Linked(i, BitmapFirst, BitmapClusters)
      [] InChain(i, UpcaseFirst, UpcaseClusters) -> Linked(i, UpcaseFirst, UpcaseClusters)
      [] InChain(i, RootFirst, 1) -> EndOfChain
      [] OTHER -> 0

EntriesPerSector == SectorBytes \div 4

\* A sector of the FAT; what is behind the last entry is zero.
FatSector(s) ==
    [kind |-> "fat",
     entry |-> [slot \in 0 .. EntriesPerSector - 1 |->
                  LET i == s * EntriesPerSector + slot
                  IN IF i <= count + 1 THEN FatValue(i) ELSE 0]]

\* Mutant: the byte that is partly used is left out.
BitmapByte_Whole(b) == IF b * 8 + 8 <= Allocated THEN 0 .. 7 ELSE {}

\* exfat_bitmap_byte: the bits that are set in a byte of the bitmap.
BitmapByte(b) ==
    IF b >= BitmapBytes THEN {}
    ELSE IF b * 8 + 8 <= Allocated THEN 0 .. 7
    ELSE IF b * 8 >= Allocated THEN {}
    ELSE 0 .. Allocated - b * 8 - 1

BitmapSector(s) ==
    [kind |-> "bitmap",
     byte |-> [o \in 0 .. SectorBytes - 1 |-> BitmapByte(s * SectorBytes + o)]]

\* The up-case table fills whole sectors; the rest of its last cluster is zero.
Zero == [kind |-> "zero"]
UpcaseSector(s) ==
    IF s < UpcaseBytes \div SectorBytes THEN [kind |-> "upcase", part |-> s] ELSE Zero

\* The root directory: bitmap, up-case table and label in its first sector.
RootSector(s) ==
    IF s = 0 THEN [kind |-> "root",
                   bitmap |-> [first |-> BitmapFirst, bytes |-> BitmapBytes],
                   upcase |-> [first |-> UpcaseFirst, bytes |-> UpcaseBytes],
                   label |-> TRUE]
    ELSE Zero

-----------------------------------------------------------------------------
(* The writes.  Any of them may fail, and so may the flush.                *)

\* The Java callback puts all of them on the drive or reports a failure (what a
\* failed transfer leaves behind is of no interest: the volume is not complete).
Written(first, n, content) ==
    [s \in DOMAIN disk |-> IF s \in first .. first + n - 1 THEN content[s - first] ELSE disk[s]]

\* exfat_write_volume_sectors: sectors first .. first + n - 1, which must lie
\* within the volume; afterwards go on as "then" says.
WriteSectors(first, n, content, then) ==
    \/ /\ first + n > volume
       /\ Ends("outside")
    \/ /\ first + n <= volume
       /\ disk' = Written(first, n, content)
       /\ pc' = then.pc /\ at' = then.at
       /\ UNCHANGED <<options, lengths, result>>
    \/ Ends("io")

\* The next sector of a structure of n sectors, or the next structure.
Then(n, next) == IF at + 1 < n THEN [pc |-> pc, at |-> at + 1] ELSE [pc |-> next, at |-> 0]

BootRegion == [i \in 0 .. BootRegionSectors - 1 |-> BootSector(i)]

WriteBoot ==
    /\ pc = "boot"
    /\ WriteSectors(0, BootRegionSectors, BootRegion, [pc |-> "backup", at |-> 0])

WriteBackup ==
    /\ pc = "backup"
    /\ WriteSectors(BootRegionSectors, BootRegionSectors, BootRegion, [pc |-> "fat", at |-> 0])

One(content) == [i \in {0} |-> content]

WriteFat ==
    /\ pc = "fat"
    /\ WriteSectors(FatOffset + at, 1, One(FatSector(at)), Then(fat, "bitmap"))

WriteBitmap ==
    /\ pc = "bitmap"
    /\ WriteSectors(SectorOf(BitmapFirst) + at, 1, One(BitmapSector(at)),
                    Then(BitmapClusters * spc, "upcase"))

WriteUpcase ==
    /\ pc = "upcase"
    /\ WriteSectors(SectorOf(UpcaseFirst) + at, 1, One(UpcaseSector(at)),
                    Then(UpcaseClusters * spc, "root"))

WriteRoot ==
    /\ pc = "root"
    /\ WriteSectors(SectorOf(RootFirst) + at, 1, One(RootSector(at)), Then(spc, "flush"))

Flush ==
    /\ pc = "flush"
    /\ Ends("ok") \/ Ends("io")

-----------------------------------------------------------------------------
Init ==
    /\ volume \in Volumes /\ wanted \in Clusters
    /\ pc = "begin"
    /\ spc = IF wanted = Automatic THEN DefaultSpc ELSE wanted
    /\ fat = 1 /\ count = 0 /\ round = 0 /\ at = 0
    /\ result = "none"
    /\ disk = [s \in 0 .. volume - 1 |-> Old]

Next ==
    \/ Begin \/ Iterate \/ Unstable \/ Place \/ Validate
    \/ WriteBoot \/ WriteBackup \/ WriteFat \/ WriteBitmap \/ WriteUpcase \/ WriteRoot
    \/ Flush

Spec == Init /\ [][Next]_vars

-----------------------------------------------------------------------------
\* The formatter never trips over its own layout: once a layout was found it is
\* valid and no write goes beyond the volume.
LayoutFits == result \notin {"invalid", "outside"}

=============================================================================
