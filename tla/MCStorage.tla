----------------------------- MODULE MCStorage -----------------------------
(* The parts that shape storage, on small instances: ExFat, the formatter,   *)
(* with what a system that mounts the volume reads; DriveJobs, the jobs that *)
(* rewrite a USB drive; and GadgetControl, the modes that export an image    *)
(* from the phone.  They share no state: a behaviour is one of one part.     *)
EXTENDS ExFat, DriveJobs, GadgetControl, TLC

VARIABLE part

Lengths == (20 .. 60) \cup (118 .. 130)
Sizes == {Automatic, 1, 2, 8}

-----------------------------------------------------------------------------
(* Only the sectors of the disk are looked at, as the boot sector tells.    *)

Says == disk[0].says

OnDisk(s) == IF s \in DOMAIN disk THEN disk[s] ELSE Old

EntryOnDisk(i) ==
    LET s == OnDisk(FatOffset + i \div EntriesPerSector)
    IN IF s.kind = "fat" THEN s.entry[i % EntriesPerSector] ELSE 0

Sector(cluster, k) == OnDisk(Says.heap + (cluster - 2) * Says.spc + k)

\* Where sector k of a chain is that begins at a cluster: the chain is followed.
Follow[c \in -2 .. MaxClusters + 1, n \in 0 .. MaxClusters] ==
    IF n = 0 \/ c < 2 THEN c ELSE Follow[EntryOnDisk(c), n - 1]

OfChain(first, k) == Sector(Follow[first, k \div Says.spc], k % Says.spc)

ChainOf(first) == {Follow[first, n] : n \in 0 .. Says.clusters} \cap (2 .. Says.clusters + 1)

EndsProperly(first) == \E n \in 1 .. Says.clusters : Follow[first, n] = EndOfChain

Marked(root, c) ==
    LET i == c - 2
        s == OfChain(root.bitmap.first, i \div (8 * SectorBytes))
    IN s.kind = "bitmap" /\ i % 8 \in s.byte[(i \div 8) % SectorBytes]

Mounts ==
    LET root == Sector(Says.root, 0)
        firsts == {root.bitmap.first, root.upcase.first, Says.root}
        heap == 2 .. Says.clusters + 1
    IN /\ disk[0].kind = "boot" /\ Says.length = volume
       /\ \A i \in 0 .. 11 : disk[i].kind = "boot" /\ disk[12 + i] = disk[i]
       /\ Says.heap + Says.clusters * Says.spc <= volume
       /\ root.kind = "root"
       /\ \A f \in firsts : EndsProperly(f)
       /\ \A f, g \in firsts : f # g => ChainOf(f) \cap ChainOf(g) = {}
       /\ \A k \in 0 .. UpcaseBytes \div SectorBytes - 1 :
             OfChain(root.upcase.first, k) = [kind |-> "upcase", part |-> k]
       /\ root.bitmap.bytes * 8 >= Says.clusters
       /\ \A c \in heap : Marked(root, c) <=> c \in UNION {ChainOf(f) : f \in firsts}
       /\ \A c \in heap : EntryOnDisk(c) # 0 <=> c \in UNION {ChainOf(f) : f \in firsts}

\* libexfat.c:2141: what exfat_format reports as done is an empty volume: both
\* boot regions agree, bitmap, up-case table and root directory can be read
\* along their chains, no two of which meet, and every other cluster is free in
\* the FAT and in the bitmap.
FormattedMounts == result = "ok" => Mounts

\* There is a layout with s sectors per cluster: the smallest FAT that is large
\* enough leaves a legal number of clusters, and room for the metadata.
Fits(s) ==
    LET left(f) == (volume - FatOffset - f) \div s
        enough == {f \in 1 .. volume : FatNeeded(left(f)) <= f}
        n == left(CHOOSE f \in enough : \A g \in enough : f <= g)
    IN /\ n \in 1 .. MaxClusters
       /\ DivCeil(DivCeil(n, 8), SectorBytes * s) + DivCeil(UpcaseBytes, SectorBytes * s) < n

\* libexfat.c:330: the automatic size is "increased only if required by the
\* exFAT cluster-count limit", so not where the size before has a layout.
LeastClusterSize == pc = "boot" /\ wanted = Automatic /\ spc > DefaultSpc => ~Fits(spc \div 2)

-----------------------------------------------------------------------------
(* The parts in one instance, each with the others at rest.                 *)

FormatRests ==
    /\ volume = 0 /\ wanted = Automatic /\ pc = "rests" /\ spc = DefaultSpc
    /\ fat = 1 /\ count = 0 /\ round = 0 /\ at = 0 /\ result = "none" /\ disk = <<>>

MCInit ==
    /\ JobsInit /\ ControlInit
    /\ \/ part = "format" /\ udc /\ Init
       \/ part \in {"jobs", "gadget"} /\ (part = "jobs" => udc) /\ FormatRests

MCNext ==
    \/ part = "format" /\ Next /\ UNCHANGED <<part, driveJobVars, controlVars>>
    \/ part = "jobs" /\ JobsNext /\ UNCHANGED <<part, vars, controlVars>>
    \/ part = "gadget" /\ ControlNext /\ UNCHANGED <<part, vars, driveJobVars>>

MCSpec == MCInit /\ [][MCNext]_<<part, vars, driveJobVars, controlVars>>

\* No property is temporal but for single steps.
Symmetry == Permutations(Threads)
=============================================================================
