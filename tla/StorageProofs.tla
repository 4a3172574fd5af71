--------------------------- MODULE StorageProofs ---------------------------
(***************************************************************************)
(* Of ExFat: for every volume, sector size and cluster size, the layout the *)
(* formatter finds is valid, and all its writes lie within the volume.      *)
(* Of GadgetControl: for any number of threads, images, faults, starts,     *)
(* stops and process deaths, what a start or a stop tells the user is so,   *)
(* and what has a session is exported and shown.                            *)
(***************************************************************************)
EXTENDS ExFat, GadgetControl, TLAPS

LEMMA DivFacts ==
    ASSUME NEW n \in Nat, NEW d \in Nat \ {0}
    PROVE  /\ n \div d \in Nat
           /\ (n \div d) * d <= n
           /\ n < (n \div d) * d + d
  BY SMT

LEMMA Mono ==
    ASSUME NEW a \in Nat, NEW b \in Nat, NEW s \in Nat, a <= b
    PROVE  a * s <= b * s
  BY SMT

LEMMA SectorInside ==
    ASSUME NEW first \in Nat, NEW n \in Nat, NEW k \in Nat, NEW length \in Nat,
           first + n <= length, k < n
    PROVE  first + k \in Nat /\ (first + k) + 1 <= length
  BY SMT

LEMMA Distribute ==
    ASSUME NEW a \in Nat, NEW b \in Nat, NEW s \in Nat
    PROVE  (a + b) * s = a * s + b * s
  BY SMT

LEMMA DivCeilFacts ==
    ASSUME NEW n \in Nat, NEW d \in Nat \ {0}
    PROVE  /\ DivCeil(n, d) \in Nat
           /\ n <= DivCeil(n, d) * d
           /\ n > 0 => DivCeil(n, d) > 0
  BY DivFacts, SMT DEF DivCeil

-----------------------------------------------------------------------------
Laying == {"begin", "layout"}
Placed == {"validate", "boot", "backup", "fat", "bitmap", "upcase", "root", "flush"}

VolumeTypes ==
    /\ volume \in Nat /\ wanted \in Nat /\ spc \in Nat \ {0}
    /\ fat \in Nat \ {0} /\ count \in Nat /\ round \in Nat /\ at \in Nat
    /\ pc \in Laying \cup {"stable", "end"} \cup Placed
    /\ DOMAIN disk = 0 .. volume - 1

\* The lengths that the loop leaves behind agree with each other.
Agree ==
    /\ HeapOffset < volume
    /\ count = NewCount /\ count \in 1 .. MaxClusters
    /\ fat = FatNeeded(count)

\* Where in its structure the formatter is.
Progress ==
    /\ pc = "fat" => at < fat
    /\ pc = "bitmap" => at < BitmapClusters * spc
    /\ pc = "upcase" => at < UpcaseClusters * spc
    /\ pc = "root" => at < spc

LayoutInv ==
    /\ VolumeTypes
    /\ pc = "stable" \/ pc \in Placed => Agree
    /\ pc \in Placed => Allocated <= count
    /\ Progress
    /\ LayoutFits

USE ExFatAssumption

\* What a layout that agrees with itself is like.
LEMMA Sizes ==
    ASSUME VolumeTypes, Agree
    PROVE  /\ BitmapClusters \in Nat \ {0} /\ UpcaseClusters \in Nat \ {0}
           /\ HeapOffset \in Nat /\ HeapOffset + count * spc <= volume
           /\ fat * SectorBytes >= (count + 2) * 4
  <1>1. ClusterBytes \in Nat \ {0}
    BY SMT DEF VolumeTypes, ClusterBytes
  <1>2. BitmapBytes \in Nat \ {0}
    <2>1. count \in Nat /\ count > 0 /\ 8 \in Nat \ {0}
      BY SMT DEF VolumeTypes, Agree
    <2>2. DivCeil(count, 8) \in Nat /\ DivCeil(count, 8) > 0
      BY ONLY <2>1, DivCeilFacts
    <2> QED BY <2>2, SMT DEF BitmapBytes
  <1>3. BitmapClusters \in Nat \ {0} /\ UpcaseClusters \in Nat \ {0}
    <2>1. /\ BitmapBytes \in Nat /\ BitmapBytes > 0
          /\ UpcaseBytes \in Nat /\ UpcaseBytes > 0
      BY <1>2, SMT
    <2>2. /\ DivCeil(BitmapBytes, ClusterBytes) \in Nat
          /\ DivCeil(BitmapBytes, ClusterBytes) > 0
      BY ONLY <1>1, <2>1, DivCeilFacts
    <2>3. /\ DivCeil(UpcaseBytes, ClusterBytes) \in Nat
          /\ DivCeil(UpcaseBytes, ClusterBytes) > 0
      BY ONLY <1>1, <2>1, DivCeilFacts
    <2> QED BY <2>2, <2>3, SMT DEF BitmapClusters, UpcaseClusters
  <1>4. HeapOffset \in Nat /\ volume - HeapOffset \in Nat
    BY SMT DEF VolumeTypes, Agree, HeapOffset, FatOffset
  <1>5. count * spc <= volume - HeapOffset
    BY <1>4, DivFacts, SMT DEF VolumeTypes, Agree, NewCount
  <1>6. HeapOffset + count * spc <= volume
    <2>1. count * spc \in Nat
      BY SMT DEF VolumeTypes
    <2> QED BY <2>1, <1>4, <1>5, SMT DEF VolumeTypes
  <1>7. fat * SectorBytes >= (count + 2) * 4
    <2>1. (count + 2) * 4 \in Nat
      BY SMT DEF VolumeTypes
    <2> QED BY <2>1, DivCeilFacts, SMT DEF Agree, FatNeeded
  <1> QED BY <1>3, <1>4, <1>6, <1>7

\* The sectors of the metadata lie within the volume.
LEMMA Inside ==
    ASSUME VolumeTypes, Agree, Allocated <= count
    PROVE  /\ SectorOf(BitmapFirst) + BitmapClusters * spc <= volume
           /\ SectorOf(UpcaseFirst) + UpcaseClusters * spc <= volume
           /\ SectorOf(RootFirst) + spc <= volume
           /\ SectorOf(BitmapFirst) \in Nat /\ SectorOf(UpcaseFirst) \in Nat
           /\ SectorOf(RootFirst) \in Nat
           /\ BitmapClusters * spc \in Nat \ {0} /\ UpcaseClusters * spc \in Nat \ {0}
  <1> DEFINE b == BitmapClusters
             u == UpcaseClusters
  <1>1. /\ b \in Nat \ {0} /\ u \in Nat \ {0} /\ HeapOffset \in Nat
        /\ HeapOffset + count * spc <= volume /\ spc \in Nat \ {0} /\ volume \in Nat
        /\ count \in Nat /\ b + u + 1 <= count
    BY Sizes DEF VolumeTypes, Allocated
  <1>2. /\ SectorOf(BitmapFirst) = HeapOffset
        /\ SectorOf(UpcaseFirst) = HeapOffset + b * spc
        /\ SectorOf(RootFirst) = HeapOffset + (b + u) * spc
    BY <1>1, SMT DEF SectorOf, BitmapFirst, UpcaseFirst, RootFirst
  <1> HIDE DEF b, u
  <1>3. (b + u) * spc = b * spc + u * spc /\ (b + u + 1) * spc = (b + u) * spc + spc
    BY <1>1, Distribute, SMT
  <1>4. (b + u + 1) * spc <= count * spc
    BY <1>1, Mono, SMT
  <1>5. b * spc \in Nat \ {0} /\ u * spc \in Nat \ {0} /\ count * spc \in Nat
    BY <1>1, SMT
  <1> QED BY <1>1, <1>2, <1>3, <1>4, <1>5, SMT DEF b, u

LEMMA TheLayout == ASSUME VolumeTypes, Agree, Allocated <= count PROVE Valid
  <1>1. RootFirst <= count + 1
    <2>1. /\ BitmapClusters \in Nat /\ UpcaseClusters \in Nat /\ count \in Nat
          /\ BitmapClusters + UpcaseClusters + 1 <= count
      BY Sizes DEF VolumeTypes, Allocated
    <2> HIDE DEF BitmapClusters, UpcaseClusters
    <2> QED BY <2>1, SMT DEF RootFirst, UpcaseFirst, BitmapFirst
  <1> QED BY <1>1, Sizes, SMT DEF VolumeTypes, Agree, Valid

-----------------------------------------------------------------------------
\* A step that leaves the lengths alone leaves the layout alone.
LEMMA Same ==
    ASSUME UNCHANGED <<options, lengths>>
    PROVE  /\ Agree' <=> Agree
           /\ BitmapClusters' = BitmapClusters /\ UpcaseClusters' = UpcaseClusters
           /\ Allocated' = Allocated
           /\ volume' = volume /\ wanted' = wanted /\ spc' = spc
           /\ fat' = fat /\ count' = count /\ round' = round
  BY DEF options, lengths, Agree, HeapOffset, NewCount, FatNeeded, DivCeil, BitmapClusters,
         UpcaseClusters, Allocated, BitmapBytes, ClusterBytes

LEMMA EndsSafely ==
    ASSUME LayoutInv, NEW why \in {"geometry", "io", "ok"}, Ends(why)
    PROVE  LayoutInv'
  BY Same, SMT DEF LayoutInv, Ends, VolumeTypes, Placed, Laying, Progress, LayoutFits

LEMMA NextSizeIs ==
    ASSUME NextSize
    PROVE  \/ Ends("geometry")
           \/ /\ spc' = 2 * spc /\ fat' = 1 /\ count' = 0 /\ round' = 0
              /\ pc' = "begin"
              /\ UNCHANGED <<options, at, result, disk>>
  BY Zenon DEF NextSize

LEMMA NextSizeSafely ==
    ASSUME LayoutInv, NextSize
    PROVE  LayoutInv'
  <1>1. CASE /\ spc' = 2 * spc /\ fat' = 1 /\ count' = 0 /\ round' = 0
             /\ pc' = "begin"
             /\ UNCHANGED <<options, at, result, disk>>
    BY <1>1, SMT DEF LayoutInv, VolumeTypes, Placed, Laying, Progress, LayoutFits, options
  <1> QED BY <1>1, NextSizeIs, EndsSafely

\* A write that stays inside does what it should or fails.
LEMMA WritesSafely ==
    ASSUME LayoutInv, pc \in Placed,
           NEW first \in Nat, NEW n \in Nat, NEW content, NEW then,
           first + n <= volume,
           then.pc \in Placed, then.at \in Nat,
           then.pc = "fat" => then.at < fat,
           then.pc = "bitmap" => then.at < BitmapClusters * spc,
           then.pc = "upcase" => then.at < UpcaseClusters * spc,
           then.pc = "root" => then.at < spc,
           WriteSectors(first, n, content, then)
    PROVE  LayoutInv'
  <1>1. CASE Ends("io")
    BY <1>1, EndsSafely
  <1>2. CASE first + n > volume
    BY <1>2, SMT DEF LayoutInv, VolumeTypes
  <1>3. ASSUME /\ disk' = Written(first, n, content)
               /\ pc' = then.pc /\ at' = then.at
               /\ UNCHANGED <<options, lengths, result>>
        PROVE  LayoutInv'
    <2>1. UNCHANGED <<options, lengths>>
      BY <1>3
    <2>2. VolumeTypes'
      <3>1. DOMAIN disk' = 0 .. volume' - 1
        BY <1>3, <2>1, Same DEF LayoutInv, VolumeTypes, Written
      <3> QED BY <3>1, <1>3, <2>1, Same, SMT DEF LayoutInv, VolumeTypes
    <2>3. Agree' /\ Allocated' <= count'
      BY <2>1, Same DEF LayoutInv
    <2>4. Progress'
      BY <1>3, <2>1, Same DEF Progress
    <2> QED BY <1>3, <2>2, <2>3, <2>4 DEF LayoutInv, LayoutFits
  <1> QED BY <1>1, <1>2, <1>3 DEF WriteSectors

\* What comes after sector "at" of a structure.
LEMMA ThenFacts ==
    ASSUME VolumeTypes, NEW n \in Nat, NEW next
    PROVE  /\ Then(n, next).pc \in {pc, next} /\ Then(n, next).at \in Nat
           /\ Then(n, next).pc = pc /\ pc # next => Then(n, next).at < n
           /\ Then(n, next).pc = next /\ pc # next => Then(n, next).at = 0
  BY SMT DEF Then, VolumeTypes

\* Every step keeps the inductive invariant.
THEOREM Inductive == LayoutInv /\ [Next]_vars => LayoutInv'
  <1> SUFFICES ASSUME LayoutInv, [Next]_vars PROVE LayoutInv'
    OBVIOUS
  <1>0. VolumeTypes
    BY DEF LayoutInv
  <1>s. ASSUME pc \in Placed
        PROVE  /\ SectorOf(BitmapFirst) + BitmapClusters * spc <= volume
               /\ SectorOf(UpcaseFirst) + UpcaseClusters * spc <= volume
               /\ SectorOf(RootFirst) + spc <= volume
               /\ SectorOf(BitmapFirst) \in Nat /\ SectorOf(UpcaseFirst) \in Nat
               /\ SectorOf(RootFirst) \in Nat
               /\ BitmapClusters * spc \in Nat \ {0} /\ UpcaseClusters * spc \in Nat \ {0}
    BY <1>s, Inside DEF LayoutInv
  <1>1. CASE Begin
    <2>1. CASE NextSize
      BY <2>1, NextSizeSafely
    <2>2. CASE pc' = "layout" /\ UNCHANGED <<options, lengths, at, result, disk>>
      BY <2>2, SMT
         DEF LayoutInv, VolumeTypes, Placed, Laying, Progress, LayoutFits, options, lengths
    <2> QED BY <1>1, <2>1, <2>2 DEF Begin
  <1>2. CASE Iterate
    <2>1. CASE NextSize
      BY <2>1, NextSizeSafely
    <2>2. CASE ~NextSize
      <3>1. ~(HeapOffset >= volume \/ NewCount \notin 1 .. MaxClusters)
        BY <1>2, <2>2 DEF Iterate
      <3>2. CASE FatNeeded(NewCount) = fat /\ NewCount = count
        <4>1. pc' = "stable" /\ UNCHANGED <<options, lengths, at, result, disk>>
          BY <1>2, <2>2, <3>1, <3>2 DEF Iterate
        <4>2. HeapOffset < volume
          BY <3>1, <1>0, SMT DEF VolumeTypes, HeapOffset, FatOffset
        <4>3. Agree'
          BY <3>1, <3>2, <4>1, <4>2, Same DEF Agree
        <4> QED BY <4>1, <4>3, SMT DEF LayoutInv, VolumeTypes, Placed, Laying, Progress, LayoutFits,
                                       options, lengths
      <3>3. CASE ~(FatNeeded(NewCount) = fat /\ NewCount = count)
        <4>1. /\ fat' = FatNeeded(NewCount) /\ count' = NewCount /\ round' = round + 1
              /\ UNCHANGED <<options, pc, spc, at, result, disk>> /\ pc = "layout"
          BY <1>2, <2>2, <3>1, <3>3 DEF Iterate
        <4>2. NewCount \in Nat /\ NewCount > 0
          BY <3>1, SMT
        <4>3. (NewCount + 2) * 4 \in Nat /\ (NewCount + 2) * 4 > 0
          BY <4>2, SMT
        <4>4. FatNeeded(NewCount) \in Nat \ {0}
          BY <4>3, DivCeilFacts, SMT DEF FatNeeded
        <4> QED BY <4>1, <4>2, <4>4, SMT DEF LayoutInv, VolumeTypes, Placed, Laying, Progress,
                                             LayoutFits, options
      <3> QED BY <3>2, <3>3
    <2> QED BY <2>1, <2>2
  <1>3. CASE Unstable
    BY <1>3, NextSizeSafely DEF Unstable
  <1>4. CASE Place
    <2>1. CASE NextSize
      BY <2>1, NextSizeSafely
    <2>2. CASE ~NextSize
      <3>1. /\ pc = "stable" /\ ~TooSmall /\ pc' = "validate"
            /\ UNCHANGED <<options, lengths, at, result, disk>>
        BY <1>4, <2>2 DEF Place
      <3>2. Agree /\ BitmapClusters \in Nat /\ UpcaseClusters \in Nat
        BY <1>0, <3>1, Sizes DEF LayoutInv
      <3>3. Allocated <= count
        <4> HIDE DEF BitmapClusters, UpcaseClusters
        <4> QED BY <1>0, <3>1, <3>2, SMT DEF TooSmall, Allocated, VolumeTypes
      <3>4. Agree' /\ Allocated' <= count'
        BY <3>1, <3>2, <3>3, Same
      <3> QED BY <3>1, <3>4, SMT DEF LayoutInv, VolumeTypes, Placed, Laying, Progress, LayoutFits,
                                     options, lengths
    <2> QED BY <2>1, <2>2
  <1>5. CASE Validate
    <2>1. pc = "validate" /\ Valid
      BY <1>0, <1>5, TheLayout DEF LayoutInv, Validate, Placed
    <2>2. pc' = "boot" /\ at' = 0 /\ UNCHANGED <<options, lengths, result, disk>>
      BY <1>5, <2>1 DEF Validate
    <2>3. Agree' /\ Allocated' <= count'
      BY <2>1, <2>2, Same DEF LayoutInv, Placed
    <2> QED BY <2>2, <2>3, SMT DEF LayoutInv, VolumeTypes, Placed, Laying, Progress, LayoutFits,
                                   options, lengths
  <1>6. CASE WriteBoot
    <2>1. pc = "boot"
      BY <1>6 DEF WriteBoot
    <2>2. 0 + BootRegionSectors <= volume
      BY <1>0, <2>1, SMT DEF LayoutInv, Placed, Agree, HeapOffset, FatOffset, VolumeTypes,
                             BootRegionSectors
    <2> DEFINE then == [pc |-> "backup", at |-> 0]
    <2>3. WriteSectors(0, BootRegionSectors, BootRegion, then)
      BY <1>6 DEF WriteBoot
    <2>4. then.pc = "backup" /\ then.at = 0
      OBVIOUS
    <2>5. pc \in Placed /\ then.pc \in Placed /\ BootRegionSectors \in Nat
      BY <2>1, <2>4 DEF Placed, BootRegionSectors
    <2> HIDE DEF then
    <2> QED BY <2>2, <2>3, <2>4, <2>5, WritesSafely
  <1>7. CASE WriteBackup
    <2>1. pc = "backup"
      BY <1>7 DEF WriteBackup
    <2>2. BootRegionSectors + BootRegionSectors <= volume
      BY <1>0, <2>1, SMT DEF LayoutInv, Placed, Agree, HeapOffset, FatOffset, VolumeTypes,
                             BootRegionSectors
    <2> DEFINE then == [pc |-> "fat", at |-> 0]
    <2>3. WriteSectors(BootRegionSectors, BootRegionSectors, BootRegion, then)
      BY <1>7 DEF WriteBackup
    <2>4. then.pc = "fat" /\ then.at = 0 /\ then.at < fat
      BY <1>0, SMT DEF VolumeTypes
    <2>5. pc \in Placed /\ then.pc \in Placed /\ BootRegionSectors \in Nat
      BY <2>1, <2>4 DEF Placed, BootRegionSectors
    <2> HIDE DEF then
    <2> QED BY <2>2, <2>3, <2>4, <2>5, WritesSafely
  <1>8. CASE WriteFat
    <2>1. pc = "fat" /\ pc \in Placed
      BY <1>8 DEF WriteFat, Placed
    <2>2. FatOffset + at \in Nat /\ (FatOffset + at) + 1 <= volume
      BY <1>0, <2>1, SMT DEF LayoutInv, Agree, Progress, HeapOffset, FatOffset, VolumeTypes
    <2> DEFINE then == Then(fat, "bitmap")
    <2>3. WriteSectors(FatOffset + at, 1, One(FatSector(at)), then)
      BY <1>8 DEF WriteFat
    <2>4. fat \in Nat
      BY <1>0 DEF VolumeTypes
    <2>5. /\ then.pc \in {"fat", "bitmap"} /\ then.at \in Nat
          /\ then.pc = "fat" => then.at < fat
          /\ then.pc = "bitmap" => then.at = 0
      BY <1>0, <2>1, <2>4, ThenFacts
    <2>6. then.pc = "bitmap" => then.at < BitmapClusters * spc
      BY <1>s, <2>1, <2>5, SMT
    <2>7. then.pc \in Placed
      BY <2>5 DEF Placed
    <2> HIDE DEF then
    <2> QED BY <2>1, <2>2, <2>3, <2>5, <2>6, <2>7, WritesSafely
  <1>9. CASE WriteBitmap
    <2>1. pc = "bitmap" /\ pc \in Placed
      BY <1>9 DEF WriteBitmap, Placed
    <2> DEFINE first == SectorOf(BitmapFirst) + at
               then == Then(BitmapClusters * spc, "upcase")
    <2>2. first \in Nat /\ first + 1 <= volume
      <3>1. at \in Nat /\ volume \in Nat /\ spc \in Nat /\ at < BitmapClusters * spc
        BY <1>0, <2>1 DEF LayoutInv, Progress, VolumeTypes
      <3>2. /\ SectorOf(BitmapFirst) \in Nat /\ BitmapClusters * spc \in Nat
            /\ SectorOf(BitmapFirst) + BitmapClusters * spc <= volume
        BY <1>s, <2>1, <3>1
      <3> QED BY ONLY <3>1, <3>2, SectorInside
    <2>3. WriteSectors(first, 1, One(BitmapSector(at)), then)
      BY <1>9 DEF WriteBitmap
    <2>5. /\ then.pc \in {"bitmap", "upcase"} /\ then.at \in Nat
          /\ then.pc = "bitmap" => then.at < BitmapClusters * spc
          /\ then.pc = "upcase" => then.at = 0
      BY <1>0, <1>s, <2>1, ThenFacts
    <2>6. then.pc = "upcase" => then.at < UpcaseClusters * spc
      BY <1>s, <2>1, <2>5, SMT
    <2>7. then.pc \in Placed
      BY <2>5 DEF Placed
    <2> HIDE DEF then, first
    <2> QED BY <2>1, <2>2, <2>3, <2>5, <2>6, <2>7, WritesSafely
  <1>10. CASE WriteUpcase
    <2>1. pc = "upcase" /\ pc \in Placed
      BY <1>10 DEF WriteUpcase, Placed
    <2> DEFINE first == SectorOf(UpcaseFirst) + at
               then == Then(UpcaseClusters * spc, "root")
    <2>2. first \in Nat /\ first + 1 <= volume
      <3>1. at \in Nat /\ volume \in Nat /\ spc \in Nat /\ at < UpcaseClusters * spc
        BY <1>0, <2>1 DEF LayoutInv, Progress, VolumeTypes
      <3>2. /\ SectorOf(UpcaseFirst) \in Nat /\ UpcaseClusters * spc \in Nat
            /\ SectorOf(UpcaseFirst) + UpcaseClusters * spc <= volume
        BY <1>s, <2>1, <3>1
      <3> QED BY ONLY <3>1, <3>2, SectorInside
    <2>3. WriteSectors(first, 1, One(UpcaseSector(at)), then)
      BY <1>10 DEF WriteUpcase
    <2>5. /\ then.pc \in {"upcase", "root"} /\ then.at \in Nat
          /\ then.pc = "upcase" => then.at < UpcaseClusters * spc
          /\ then.pc = "root" => then.at = 0
      BY <1>0, <1>s, <2>1, ThenFacts
    <2>6. then.pc = "root" => then.at < spc
      BY <1>0, <2>5, SMT DEF VolumeTypes
    <2>7. then.pc \in Placed
      BY <2>5 DEF Placed
    <2> HIDE DEF then, first
    <2> QED BY <2>1, <2>2, <2>3, <2>5, <2>6, <2>7, WritesSafely
  <1>11. CASE WriteRoot
    <2>1. pc = "root" /\ pc \in Placed
      BY <1>11 DEF WriteRoot, Placed
    <2> DEFINE first == SectorOf(RootFirst) + at
               then == Then(spc, "flush")
    <2>2. first \in Nat /\ first + 1 <= volume
      <3>1. at \in Nat /\ volume \in Nat /\ spc \in Nat /\ at < spc
        BY <1>0, <2>1 DEF LayoutInv, Progress, VolumeTypes
      <3>2. /\ SectorOf(RootFirst) \in Nat /\ spc \in Nat
            /\ SectorOf(RootFirst) + spc <= volume
        BY <1>s, <2>1, <3>1
      <3> QED BY ONLY <3>1, <3>2, SectorInside
    <2>3. WriteSectors(first, 1, One(RootSector(at)), then)
      BY <1>11 DEF WriteRoot
    <2>4. spc \in Nat
      BY <1>0 DEF VolumeTypes
    <2>5. /\ then.pc \in {"root", "flush"} /\ then.at \in Nat
          /\ then.pc = "root" => then.at < spc
      BY <1>0, <2>1, <2>4, ThenFacts
    <2>7. then.pc \in Placed
      BY <2>5 DEF Placed
    <2> HIDE DEF then, first
    <2> QED BY <2>1, <2>2, <2>3, <2>5, <2>7, WritesSafely
  <1>12. CASE Flush
    BY <1>12, EndsSafely DEF Flush
  <1>13. CASE UNCHANGED vars
    BY <1>13, Same, SMT DEF LayoutInv, VolumeTypes, Placed, Laying, Progress, LayoutFits, vars,
                            options, lengths
  <1> QED BY <1>1, <1>2, <1>3, <1>4, <1>5, <1>6, <1>7, <1>8, <1>9, <1>10, <1>11, <1>12,
             <1>13 DEF Next

\* The formatter never fails on its own layout, whatever the volume.
THEOREM LayoutAlwaysFits == Spec => []LayoutFits
  <1>1. Init => LayoutInv
    <2> SUFFICES ASSUME Init PROVE LayoutInv
      OBVIOUS
    <2>1. spc \in Nat \ {0}
      BY SMT DEF Init, Automatic
    <2>2. DOMAIN disk = 0 .. volume - 1
      BY DEF Init
    <2>3. volume \in Nat /\ wanted \in Nat
      BY DEF Init
    <2> QED
      BY <2>1, <2>2, <2>3, SMT
         DEF Init, LayoutInv, VolumeTypes, Placed, Laying, Progress, LayoutFits
  <1>2. LayoutInv => LayoutFits
    BY DEF LayoutInv
  <1> QED BY <1>1, <1>2, Inductive, PTL DEF Spec

-----------------------------------------------------------------------------
(* Sessions: the inductive invariant                                       *)

\* Where the threads are in starts and stops of either mode.
GStarts == {"gDocument", "gCopy", "gProbe", "gUnbind", "gConfigure", "gBind", "gSave",
            "gCleanup", "gRestore", "gFailed"}
GEnds == {"gStop", "gStopUnbind", "gDetach", "gStopRestore", "gClear", "gUnstage"}
FStarts == {"fCheck", "fConfig", "fPrepare", "fNative", "fBind", "fSave", "fVerify",
            "fUndo", "fUndoMount", "fUndoBind"}
FEnds == {"fStop", "fStopUnbind", "fStopNative", "fRemove", "fStopMount", "fStopBind",
          "fClear"}
Doings == {"start"} \cup Stops
Places == GStarts \cup GEnds \cup FStarts \cup FEnds \cup {"idle", "done"}
Locals == [mode : Modes \cup {"none"}, kind : Doings \cup {"none"}, orig : BOOLEAN,
           image : Images \cup {0}, mounts : BOOLEAN, bad : BOOLEAN, hit : BOOLEAN,
           ok : BOOLEAN]
GSessions == [active : BOOLEAN, image : Images \cup {0}, orig : BOOLEAN]
FSessions == [active : BOOLEAN, orig : BOOLEAN, mounts : BOOLEAN]

KernelTypes ==
    /\ udc \in BOOLEAN /\ gLink \in BOOLEAN /\ lun \in Images \cup {0, None}
    /\ fDir \in BOOLEAN /\ fLink \in BOOLEAN /\ mounted \in BOOLEAN /\ native \in BOOLEAN
    /\ fLink => fDir
    /\ files \subseteq Images
SessionTypes == gSess \in GSessions /\ gDisk \in GSessions /\ fSess \in FSessions
  /\ fDisk \in FSessions
CountTypes == faults \in Nat /\ faults <= MaxFaults /\ crashes \in Nat /\ crashes <= MaxCrashes
AppTypes ==
    /\ shown \in [Modes -> {"no", "yes", "stopping"}]
    /\ overlap \subseteq Modes \cup {"any"} /\ (Alone => overlap = {})
    /\ doing \in [Threads -> Places] /\ loc \in [Threads -> Locals]
Types == KernelTypes /\ SessionTypes /\ CountTypes /\ AppTypes

\* Which thread can be at a place.
Fits(p, l) ==
    /\ p \in GStarts \cup GEnds => l.mode = "gadget"
    /\ p \in FStarts \cup FEnds => l.mode = "functionfs"
    /\ p \in GStarts \cup FStarts => l.kind = "start"
    /\ p \in GEnds => l.kind \in Stops
    /\ p # "idle" => l.mode \in Modes /\ l.kind \in Doings
    /\ p # "done" => ~l.ok

Busy(t) == doing[t] # "idle"
AtWork(t, m) == Busy(t) /\ loc[t].mode = m

OneAtATime ==
    /\ Alone => \A t, u \in Threads : Busy(t) /\ Busy(u) => t = u
    /\ \A m \in Modes \ overlap :
         \A t, u \in Threads : AtWork(t, m) /\ AtWork(u, m) => t = u

\* The session of mode m, whose only thread is at p with locals l.
Saved(m, p, l) ==
    /\ p \in GStarts \cup (FStarts \ {"fVerify"}) \cup {"gUnstage"} => ~Active(m)
    /\ p \in {"fVerify"} \cup (FEnds \ {"fStop"}) \cup (GEnds \ {"gStop", "gUnstage"}) => Active(m)
    /\ p = "fStop" /\ l.kind = "start" => Active(m)
    /\ p \in {"fConfig", "fPrepare", "fNative"} => ~native
    /\ p \in {"fBind", "fSave", "fVerify"} => native \/ faults >= 1
    /\ p \in FEnds /\ l.kind = "start" => faults >= 1
    /\ p = "done" =>
         /\ l.kind = "start" /\ l.ok => Active(m)
         /\ l.kind = "start" /\ ~l.ok => ~Active(m) \/ faults >= 1
         /\ l.kind \in Stops => (Active(m) <=> ~l.ok)

Modest == (Alone /\ faults <= 1) \/ faults = 0

Shows(m, p, l) ==
    /\ p = "idle" /\ shown[m] # "no" => Active(m)
    /\ crashes = 0 /\ Modest =>
         /\ Active(m) /\ ~(p # "idle" /\ l.kind = "hookStop") => shown[m] = "yes"
         /\ p # "idle" /\ l.kind = "start" => shown[m] = "yes"

Gone == ~gLink /\ lun = None
Left == ~fLink /\ ~fDir /\ ~native

StopsWell(p, l) ==
    /\ l.bad => l.hit
    /\ p \in {"gStop", "fStop"} /\ l.kind # "start" => ~l.orig
    /\ p \in {"gDetach", "gStopRestore", "fStopNative", "fRemove", "fStopMount", "fStopBind"}
         => l.hit \/ ~udc
    /\ p \in {"gStopRestore", "gClear"} /\ ~l.bad => Gone
    /\ p = "gUnstage" => Gone
    /\ p \in {"gClear", "fClear"} /\ ~l.bad /\ l.orig => udc
    /\ p = "gUnstage" /\ l.orig => udc
    /\ p = "fRemove" => ~native
    /\ p \in {"fStopMount", "fStopBind", "fClear"} /\ ~l.bad => Left
    /\ p = "done" /\ l.kind \in Stops =>
         /\ l.ok /\ l.orig => udc /\ (l.mode = "gadget" => Gone) /\ (l.mode # "gadget" => Left)
         /\ ~l.ok => l.hit

StartsWell(p, l) ==
    /\ l.kind = "start" => ~l.bad
    /\ p \in {"gDocument", "gCopy", "gProbe", "fCheck"} => ~l.orig
    /\ p \in {"gUnbind", "gFailed", "fConfig"} /\ l.orig => udc
    /\ p \in {"gConfigure", "gBind", "gRestore", "fPrepare", "fNative", "fBind", "fUndoMount",
              "fUndoBind"} => ~udc
    /\ p \in {"gCleanup", "gRestore"} => faults >= 1
    /\ p = "fUndo" => faults >= 1 \/ (~udc /\ ~l.orig /\ (crashes = 0 => ~fLink))
    /\ p \in {"fStopNative", "fRemove", "fStopMount", "fStopBind"} /\ l.kind = "start" => ~udc
    /\ p \in {"fUndoMount", "fUndoBind"} => (faults >= 1 \/ ~l.orig) /\ (crashes = 0 => ~fLink)
    /\ p = "done" /\ l.kind = "start" /\ ~l.ok => (l.orig => udc) /\ ~Active(l.mode)
    /\ p = "done" /\ l.kind = "start" /\ ~l.ok /\ crashes = 0 => ~IsLinked(l.mode)

LinkedRight(p) ==
    /\ gLink => gSess.active \/ p \in {"gBind", "gSave", "gCleanup"}
    /\ fLink => fSess.active \/ p \in {"fPrepare", "fNative", "fBind", "fSave", "fUndo"}

UnboundAt == {"gConfigure", "gBind", "gDetach", "gStopRestore", "fPrepare", "fNative", "fBind",
            "fStopNative", "fRemove", "fStopMount", "fStopBind"}

Exported(p, l) ==
    /\ ~l.hit
    /\ gSess.active => gSess.orig
         /\ ((gLink /\ lun = gSess.image) \/ p \in {"gStopRestore", "gClear"})
    /\ fSess.active => fSess.orig
         /\ ((fLink /\ mounted /\ native) \/ p \in FEnds)
    /\ gSess.active \/ fSess.active => udc \/ p \in UnboundAt
    /\ p \in {"gUnbind", "fConfig"} /\ udc => l.orig
    /\ p \in {"gConfigure", "gBind", "gSave", "fPrepare", "fNative", "fBind", "fSave"}
             \cup (GEnds \ {"gStop"}) \cup (FEnds \ {"fStop"}) => l.orig
    /\ p \in {"gBind", "gSave"} => gLink /\ lun = l.image
    /\ p \in {"gSave", "fSave"} => udc
    /\ p \in {"fPrepare", "fNative", "fBind", "fSave"} => fLink
    /\ p \in {"fNative", "fBind", "fSave"} => mounted
    /\ p \in {"fBind", "fSave"} => native

OfMode(m, p, l) == Saved(m, p, l) /\ Shows(m, p, l)
OfAll(p, l) ==
    /\ StopsWell(p, l)
    /\ faults <= 1 => StartsWell(p, l)
    /\ faults <= 1 /\ crashes = 0 => LinkedRight(p)
    /\ faults = 0 /\ crashes = 0 => Exported(p, l)

ThreadInv == \A t \in Threads : Fits(doing[t], loc[t])
ModeInv ==
    \A m \in Modes \ overlap :
      /\ \A t \in Threads : AtWork(t, m) => OfMode(m, doing[t], loc[t])
      /\ (\A t \in Threads : ~AtWork(t, m)) => OfMode(m, "idle", NoLocals)
AloneInv ==
    Alone => /\ \A t \in Threads : Busy(t) => OfAll(doing[t], loc[t])
             /\ Quiet => OfAll("idle", NoLocals)

SessionInv == Types /\ OneAtATime /\ ThreadInv /\ ModeInv /\ AloneInv
-----------------------------------------------------------------------------
\* What is known of thread t and of its mode.
Knows(t) ==
    /\ Fits(doing[t], loc[t])
    /\ loc[t].mode \notin overlap => OfMode(loc[t].mode, doing[t], loc[t])
    /\ Alone => OfAll(doing[t], loc[t])

GadgetFrame == UNCHANGED <<gDisk, fDir, fLink, mounted, native, fSess, fDisk,
                         shown, overlap, crashes, taps>>
FfsFrame == UNCHANGED <<gLink, lun, files, gSess, gDisk, fDisk, shown, overlap, crashes, taps>>

\* A step of t, and what it leaves of the others.
Kept(t) ==
    /\ Types' /\ (Knows(t))'
    /\ doing[t] # "idle" /\ doing'[t] # "idle" /\ loc'[t].mode = loc[t].mode
    /\ \A u \in Threads \ {t} : doing'[u] = doing[u] /\ loc'[u] = loc[u]
    /\ faults' >= faults /\ UNCHANGED <<shown, overlap, crashes>>
    /\ loc[t].mode = "gadget" => UNCHANGED <<native, fSess>>
    /\ loc[t].mode = "functionfs" => UNCHANGED gSess

\* t has the locals l, is at place p, and goes on.
Ready(t, l, p) ==
    /\ doing \in [Threads -> Places] /\ loc \in [Threads -> Locals] /\ faults \in Nat
       /\ (fLink => fDir)
    /\ loc[t] = l /\ l \in Locals /\ doing[t] = p /\ Fits(p, l)
\* The locals l2 are l but for these fields.
Has(l2, l, orig, image, bad, hit, ok) ==
    /\ l2.mode = l.mode /\ l2.kind = l.kind /\ l2.image = image
    /\ (l2.orig <=> orig) /\ (l2.bad <=> bad) /\ (l2.hit <=> hit) /\ (l2.ok <=> ok)

\* What a step of t, which is ready with l, makes of q and l2.
Moves(t, l, q, l2) ==
    /\ \A q0 : \A x \in Locals :
          /\ Works(t, q0, x) => q = q0 /\ l2 = x /\ faults' = faults
          /\ Fails(t, q0, x) => q = q0 /\ Has(l2, x, x.orig, x.image, x.bad, TRUE, x.ok)
                                 /\ faults' = faults + 1
    /\ Bad(t) \in Locals /\ Has(Bad(t), l, l.orig, l.image, TRUE, l.hit, l.ok)
    /\ NoMount(t) \in Locals /\ Has(NoMount(t), l, l.orig, l.image, l.bad, l.hit, l.ok)
    /\ \A b \in BOOLEAN : Returns(t, b) \in Locals
                         /\ Has(Returns(t, b), l, l.orig, l.image, l.bad, l.hit, b)

LEMMA Movement ==
    ASSUME NEW t \in Threads, NEW l, NEW p, Ready(t, l, p), NEW q, NEW l2,
           doing'[t] = q, loc'[t] = l2
    PROVE  Moves(t, l, q, l2)
<1>1. doing \in [Threads -> Places] /\ loc \in [Threads -> Locals] /\ loc[t] = l /\ l \in Locals
  BY DEF Ready
<1>2. ASSUME NEW q0, NEW x \in Locals, Works(t, q0, x)
      PROVE  q = q0 /\ l2 = x /\ faults' = faults
  BY <1>1, <1>2 DEF Works
<1>3. ASSUME NEW q0, NEW x \in Locals, Fails(t, q0, x)
      PROVE  q = q0 /\ Has(l2, x, x.orig, x.image, x.bad, TRUE, x.ok) /\ faults' = faults + 1
  BY <1>1, <1>3 DEF Fails, Has, Locals
<1>4. Bad(t) \in Locals /\ Has(Bad(t), l, l.orig, l.image, TRUE, l.hit, l.ok)
  BY <1>1 DEF Bad, Has, Locals
<1>5. NoMount(t) \in Locals /\ Has(NoMount(t), l, l.orig, l.image, l.bad, l.hit, l.ok)
  BY <1>1 DEF NoMount, Has, Locals
<1>6. ASSUME NEW b \in BOOLEAN
      PROVE  Returns(t, b) \in Locals /\ Has(Returns(t, b), l, l.orig, l.image, l.bad, l.hit, b)
  BY <1>1 DEF Returns, Has, Locals
<1> QED
  BY <1>2, <1>3, <1>4, <1>5, <1>6 DEF Moves

\* What Works and Fails do.
LEMMA Moving ==
    ASSUME NEW t \in Threads, Types, NEW q \in Places, NEW l2 \in Locals,
           Works(t, q, l2) \/ Fails(t, q, l2)
    PROVE  /\ doing' \in [Threads -> Places] /\ loc' \in [Threads -> Locals]
           /\ \A u \in Threads \ {t} : doing'[u] = doing[u] /\ loc'[u] = loc[u]
           /\ faults' \in Nat /\ faults <= faults' /\ faults' <= MaxFaults
<1>1. /\ doing \in [Threads -> Places] /\ loc \in [Threads -> Locals]
      /\ faults \in Nat /\ faults <= MaxFaults
  BY DEF Types, AppTypes, CountTypes
<1>2. [l2 EXCEPT !.hit = TRUE] \in Locals
  BY DEF Locals
<1>3. CASE Works(t, q, l2)
  BY <1>1, <1>2, <1>3 DEF Works
<1>4. CASE Fails(t, q, l2)
  BY <1>1, <1>2, <1>4, FaultsAssumption DEF Fails
<1> QED
  BY <1>3, <1>4

-----------------------------------------------------------------------------
(* One lemma for each step of a start or a stop: what the thread left, the  *)
(* place it came to and its locals, and then each part of the invariant.    *)

LEMMA GCheckKeeps ==
    ASSUME NEW t \in Threads, Types, Knows(t), GCheck(t), GadgetFrame
    PROVE  Kept(t)
<1> DEFINE l == loc[t]
<1>1. Ready(t, l, "gDocument")
  BY DEF Ready, GCheck, Types, AppTypes, CountTypes, KernelTypes, Knows
<1> HIDE DEF l
<1>2. PICK q, l2 : doing'[t] = q /\ loc'[t] = l2
  OBVIOUS
<1>3. UNCHANGED <<udc, gLink, lun, gSess>> /\ GadgetFrame
  BY DEF GCheck, Returns
<1>4. \A n \in Images : [loc[t] EXCEPT !.image = n] \in Locals
       /\ Has([loc[t] EXCEPT !.image = n],
              l, l.orig, n, l.bad, l.hit, l.ok)
  BY <1>1 DEF Ready, Has, Locals, Types, KernelTypes, SessionTypes, GSessions, FSessions
<1>5. \/ q = "done" /\ Has(l2, l, l.orig, l.image, l.bad, l.hit, FALSE) /\ faults' = faults
      \/ \E n \in Images : q = "gCopy" /\ Has(l2, l, l.orig, n, l.bad, l.hit, l.ok)
         /\ faults' = faults
  <2>1. Moves(t, l, q, l2) /\ l \in Locals /\ loc[t] = l
    BY <1>2, <1>1, Movement DEF Ready
  <2>2. CASE Works(t, "done", Returns(t, FALSE))
    BY <2>1, <2>2, <1>1 DEF Moves, Has, Ready
  <2>3. CASE \E n \in Images : Works(t, "gCopy", [loc[t] EXCEPT !.image = n])
    <3>1. PICK n \in Images : Works(t, "gCopy", [loc[t] EXCEPT !.image = n])
      BY <2>3
    <3>2. PICK x \in Locals : Works(t, "gCopy", x) /\ Has(x, l, l.orig, n, l.bad, l.hit, l.ok)
      BY <3>1, <1>4
    <3>3. q = "gCopy" /\ l2 = x /\ faults' = faults
      BY <2>1, <3>2 DEF Moves
    <3>4. q = "gCopy" /\ Has(l2, l, l.orig, n, l.bad, l.hit, l.ok) /\ faults' = faults
      BY <3>2, <3>3
    <3> QED
      BY <3>4
  <2> QED
    BY <2>2, <2>3 DEF GCheck
<1>6. KernelTypes'
  BY DEF GCheck, Returns, GadgetFrame, Types, KernelTypes
<1>7. SessionTypes'
  <2>1. GadgetNoSession \in GSessions /\ FfsNoSession \in FSessions
    BY DEF GSessions, FSessions, GadgetNoSession, FfsNoSession
  <2> QED
    BY <2>1, <1>1, <1>3 DEF GCheck, Returns, Ready, GadgetFrame, Types, SessionTypes, Locals
<1>8. \E q0 \in Places, x \in Locals : Works(t, q0, x) \/ Fails(t, q0, x)
  <2>1. Moves(t, l, q, l2) /\ l \in Locals /\ loc[t] = l
    BY <1>2, <1>1, Movement DEF Ready
  <2> QED
    BY <1>1, <2>1, <1>4
       DEF GCheck, Moves, Has, Ready, Locals, Types, KernelTypes, SessionTypes, GSessions,
           FSessions, Places, GStarts, GEnds, FStarts, FEnds
<1>9. CountTypes' /\ AppTypes' /\ faults <= faults'
       /\ \A u \in Threads \ {t} : doing'[u] = doing[u] /\ loc'[u] = loc[u]
  BY <1>3, <1>8, Moving DEF GadgetFrame, Types, CountTypes, AppTypes, Alone
<1>10. (Fits(doing[t], loc[t]))'
  BY <1>2, <1>1, <1>5 DEF Ready, Has, Fits, GStarts, GEnds, FStarts, FEnds
<1>11. ASSUME "gadget" \notin overlap PROVE (OfMode("gadget", doing[t], loc[t]))'
  <2>1. OfMode("gadget", "gDocument", l)
    BY <1>1, <1>11 DEF Knows, Ready, Fits, GStarts, GEnds, FStarts, FEnds
  <2> QED
    BY <2>1, <1>2, <1>1, <1>3, <1>5
       DEF Ready, Has, GadgetFrame, OfMode, Saved, Shows, Active, Modest, Alone, Fits, Stops,
           Doings, GStarts, GEnds, FStarts, FEnds, GadgetNoSession, FfsNoSession
<1>12. ASSUME Alone PROVE (OfAll(doing[t], loc[t]))'
  <2>1. OfAll("gDocument", l) /\ OfMode("gadget", "gDocument", l)
    BY <1>1, <1>12 DEF Knows, Ready, Fits, GStarts, GEnds, FStarts, FEnds, Types, AppTypes
  <2>2. (StopsWell(doing[t], loc[t]))'
    BY <2>1, <1>2, <1>1, <1>3, <1>5
       DEF Ready, Has, GadgetFrame, OfAll, StopsWell, Gone, Left, Fits, Stops, GStarts, GEnds,
           FStarts, FEnds
  <2>3. (faults <= 1 => StartsWell(doing[t], loc[t]))'
    BY <2>1, <1>2, <1>1, <1>3, <1>5
       DEF Ready, Has, GadgetFrame, OfAll, OfMode, Saved, Active, StopsWell, Gone, Left,
           StartsWell, LinkedRight, IsLinked, Fits, Stops, GStarts, GEnds, FStarts, FEnds,
           GadgetNoSession, FfsNoSession
  <2>4. (faults <= 1 /\ crashes = 0 => LinkedRight(doing[t]))'
    BY <2>1, <1>2, <1>1, <1>3, <1>5
       DEF Ready, Has, GadgetFrame, OfAll, OfMode, Saved, Active, StopsWell, StartsWell, Gone,
           Left, LinkedRight, Fits, GStarts, GEnds, FStarts, FEnds
  <2>5. (faults = 0 /\ crashes = 0 => Exported(doing[t], loc[t]))'
    BY <2>1, <1>2, <1>1, <1>3, <1>5
       DEF Ready, Has, GadgetFrame, OfAll, OfMode, Saved, Active, StopsWell, StartsWell, Exported,
           LinkedRight, Fits, UnboundAt, GStarts, GEnds, FStarts, FEnds, GadgetNoSession,
           FfsNoSession
  <2> QED
    BY <2>2, <2>3, <2>4, <2>5 DEF OfAll
<1> QED
  BY <1>2, <1>1, <1>3, <1>5, <1>6, <1>10, <1>11, <1>12, <1>9, <1>7
     DEF Kept, Knows, Ready, Has, GadgetFrame, Fits, Types, Alone, GStarts, GEnds, FStarts, FEnds

LEMMA GCopyKeeps ==
    ASSUME NEW t \in Threads, Types, Knows(t), GCopy(t), GadgetFrame
    PROVE  Kept(t)
<1> DEFINE l == loc[t]
<1>1. Ready(t, l, "gCopy")
  BY DEF Ready, GCopy, Types, AppTypes, CountTypes, KernelTypes, Knows
<1> HIDE DEF l
<1>2. PICK q, l2 : doing'[t] = q /\ loc'[t] = l2
  OBVIOUS
<1>3. UNCHANGED <<udc, gLink, lun, files, gSess>> /\ GadgetFrame
  BY DEF GCopy
<1>4. \/ q = "gProbe" /\ Has(l2, l, l.orig, l.image, l.bad, l.hit, l.ok) /\ faults' = faults
      \/ q = "gFailed" /\ Has(l2, l, l.orig, l.image, l.bad, TRUE, l.ok) /\ faults' = faults + 1
  <2>1. Moves(t, l, q, l2) /\ l \in Locals /\ loc[t] = l
    BY <1>2, <1>1, Movement DEF Ready
  <2> QED
    BY <2>1, <1>1 DEF GCopy, Moves, Has, Ready
<1>5. KernelTypes'
  BY DEF GCopy, GadgetFrame, Types, KernelTypes
<1>6. SessionTypes'
  <2>1. GadgetNoSession \in GSessions /\ FfsNoSession \in FSessions
    BY DEF GSessions, FSessions, GadgetNoSession, FfsNoSession
  <2> QED
    BY <2>1, <1>1, <1>3 DEF GCopy, Ready, GadgetFrame, Types, SessionTypes, Locals
<1>7. \E q0 \in Places, x \in Locals : Works(t, q0, x) \/ Fails(t, q0, x)
  <2>1. Moves(t, l, q, l2) /\ l \in Locals /\ loc[t] = l
    BY <1>2, <1>1, Movement DEF Ready
  <2> QED
    BY <1>1, <2>1
       DEF GCopy, Moves, Has, Ready, Locals, Types, KernelTypes, SessionTypes, GSessions,
           FSessions, Places, GStarts, GEnds, FStarts, FEnds
<1>8. CountTypes' /\ AppTypes' /\ faults <= faults'
       /\ \A u \in Threads \ {t} : doing'[u] = doing[u] /\ loc'[u] = loc[u]
  BY <1>3, <1>7, Moving DEF GadgetFrame, Types, CountTypes, AppTypes, Alone
<1>9. (Fits(doing[t], loc[t]))'
  BY <1>2, <1>1, <1>4 DEF Ready, Has, Fits, GStarts, GEnds, FStarts, FEnds
<1>10. ASSUME "gadget" \notin overlap PROVE (OfMode("gadget", doing[t], loc[t]))'
  <2>1. OfMode("gadget", "gCopy", l)
    BY <1>1, <1>10 DEF Knows, Ready, Fits, GStarts, GEnds, FStarts, FEnds
  <2> QED
    BY <2>1, <1>2, <1>1, <1>3, <1>4
       DEF Ready, Has, GadgetFrame, OfMode, Saved, Shows, Active, Modest, Alone, Fits, Stops,
           Doings, GStarts, GEnds, FStarts, FEnds, GadgetNoSession, FfsNoSession
<1>11. ASSUME Alone PROVE (OfAll(doing[t], loc[t]))'
  <2>1. OfAll("gCopy", l) /\ OfMode("gadget", "gCopy", l)
    BY <1>1, <1>11 DEF Knows, Ready, Fits, GStarts, GEnds, FStarts, FEnds, Types, AppTypes
  <2>2. (StopsWell(doing[t], loc[t]))'
    BY <2>1, <1>2, <1>1, <1>3, <1>4
       DEF Ready, Has, GadgetFrame, OfAll, StopsWell, Gone, Left, Fits, Stops, GStarts, GEnds,
           FStarts, FEnds
  <2>3. (faults <= 1 => StartsWell(doing[t], loc[t]))'
    BY <2>1, <1>2, <1>1, <1>3, <1>4
       DEF Ready, Has, GadgetFrame, OfAll, OfMode, Saved, Active, StopsWell, Gone, Left,
           StartsWell, LinkedRight, IsLinked, Fits, Stops, GStarts, GEnds, FStarts, FEnds,
           GadgetNoSession, FfsNoSession
  <2>4. (faults <= 1 /\ crashes = 0 => LinkedRight(doing[t]))'
    BY <2>1, <1>2, <1>1, <1>3, <1>4
       DEF Ready, Has, GadgetFrame, OfAll, OfMode, Saved, Active, StopsWell, StartsWell, Gone,
           Left, LinkedRight, Fits, GStarts, GEnds, FStarts, FEnds
  <2>5. (faults = 0 /\ crashes = 0 => Exported(doing[t], loc[t]))'
    BY <2>1, <1>2, <1>1, <1>3, <1>4
       DEF Ready, Has, GadgetFrame, OfAll, OfMode, Saved, Active, StopsWell, StartsWell, Exported,
           LinkedRight, Fits, UnboundAt, GStarts, GEnds, FStarts, FEnds, GadgetNoSession,
           FfsNoSession
  <2> QED
    BY <2>2, <2>3, <2>4, <2>5 DEF OfAll
<1> QED
  BY <1>2, <1>1, <1>3, <1>4, <1>5, <1>9, <1>10, <1>11, <1>8, <1>6
     DEF Kept, Knows, Ready, Has, GadgetFrame, Fits, Types, Alone, GStarts, GEnds, FStarts, FEnds

LEMMA GProbeKeeps ==
    ASSUME NEW t \in Threads, Types, Knows(t), GProbe(t), GadgetFrame
    PROVE  Kept(t)
<1> DEFINE l == loc[t]
<1>1. Ready(t, l, "gProbe")
  BY DEF Ready, GProbe, Types, AppTypes, CountTypes, KernelTypes, Knows
<1> HIDE DEF l
<1>2. PICK q, l2 : doing'[t] = q /\ loc'[t] = l2
  OBVIOUS
<1>3. UNCHANGED <<udc, gLink, lun, files, gSess>> /\ GadgetFrame
  BY DEF GProbe
<1>4. [loc[t] EXCEPT !.orig = udc] \in Locals
       /\ Has([loc[t] EXCEPT !.orig = udc],
              l, udc, l.image, l.bad, l.hit, l.ok)
  <2>1. [loc[t] EXCEPT !.orig = udc] \in Locals
    BY <1>1 DEF Ready, Locals, Types, KernelTypes, SessionTypes, GSessions, FSessions
  <2>2. Has([loc[t] EXCEPT !.orig = udc], l, udc, l.image, l.bad, l.hit, l.ok)
    BY <1>1 DEF Ready, Has, Locals, Types, KernelTypes, SessionTypes, GSessions, FSessions
  <2> QED
    BY <2>1, <2>2
<1>5. \/ q = "gUnbind" /\ Has(l2, l, udc, l.image, l.bad, l.hit, l.ok) /\ faults' = faults
      \/ q = "gFailed" /\ Has(l2, l, l.orig, l.image, l.bad, TRUE, l.ok) /\ faults' = faults + 1
  <2>1. Moves(t, l, q, l2) /\ l \in Locals /\ loc[t] = l
    BY <1>2, <1>1, Movement DEF Ready
  <2>2. PICK x \in Locals : x = [loc[t] EXCEPT !.orig = udc]
        /\ Has(x, l, udc, l.image, l.bad, l.hit, l.ok)
    BY <1>4
  <2>3. Has(x, l, udc, l.image, l.bad, l.hit, l.ok)
    BY <2>2
  <2>4. Works(t, "gUnbind", x) \/ Fails(t, "gFailed", l)
    BY <2>1, <2>2 DEF GProbe
  <2> QED
    BY <2>1, <2>3, <2>4, <1>1 DEF Moves, Has, Ready
<1>6. KernelTypes'
  BY DEF GProbe, GadgetFrame, Types, KernelTypes
<1>7. SessionTypes'
  <2>1. GadgetNoSession \in GSessions /\ FfsNoSession \in FSessions
    BY DEF GSessions, FSessions, GadgetNoSession, FfsNoSession
  <2> QED
    BY <2>1, <1>1, <1>3 DEF GProbe, Ready, GadgetFrame, Types, SessionTypes, Locals
<1>8. \E q0 \in Places, x \in Locals : Works(t, q0, x) \/ Fails(t, q0, x)
  <2>1. Moves(t, l, q, l2) /\ l \in Locals /\ loc[t] = l
    BY <1>2, <1>1, Movement DEF Ready
  <2> QED
    BY <1>1, <2>1, <1>4
       DEF GProbe, Moves, Has, Ready, Locals, Types, KernelTypes, SessionTypes, GSessions,
           FSessions, Places, GStarts, GEnds, FStarts, FEnds
<1>9. CountTypes' /\ AppTypes' /\ faults <= faults'
       /\ \A u \in Threads \ {t} : doing'[u] = doing[u] /\ loc'[u] = loc[u]
  BY <1>3, <1>8, Moving DEF GadgetFrame, Types, CountTypes, AppTypes, Alone
<1>10. (Fits(doing[t], loc[t]))'
  BY <1>2, <1>1, <1>5 DEF Ready, Has, Fits, GStarts, GEnds, FStarts, FEnds
<1>11. ASSUME "gadget" \notin overlap PROVE (OfMode("gadget", doing[t], loc[t]))'
  <2>1. OfMode("gadget", "gProbe", l)
    BY <1>1, <1>11 DEF Knows, Ready, Fits, GStarts, GEnds, FStarts, FEnds
  <2> QED
    BY <2>1, <1>2, <1>1, <1>3, <1>5
       DEF Ready, Has, GadgetFrame, OfMode, Saved, Shows, Active, Modest, Alone, Fits, Stops,
           Doings, GStarts, GEnds, FStarts, FEnds, GadgetNoSession, FfsNoSession
<1>12. ASSUME Alone PROVE (OfAll(doing[t], loc[t]))'
  <2>1. OfAll("gProbe", l) /\ OfMode("gadget", "gProbe", l)
    BY <1>1, <1>12 DEF Knows, Ready, Fits, GStarts, GEnds, FStarts, FEnds, Types, AppTypes
  <2>2. (StopsWell(doing[t], loc[t]))'
    BY <2>1, <1>2, <1>1, <1>3, <1>5
       DEF Ready, Has, GadgetFrame, OfAll, StopsWell, Gone, Left, Fits, Stops, GStarts, GEnds,
           FStarts, FEnds
  <2>3. (faults <= 1 => StartsWell(doing[t], loc[t]))'
    BY <2>1, <1>2, <1>1, <1>3, <1>5
       DEF Ready, Has, GadgetFrame, OfAll, OfMode, Saved, Active, StopsWell, Gone, Left,
           StartsWell, LinkedRight, IsLinked, Fits, Stops, GStarts, GEnds, FStarts, FEnds,
           GadgetNoSession, FfsNoSession
  <2>4. (faults <= 1 /\ crashes = 0 => LinkedRight(doing[t]))'
    BY <2>1, <1>2, <1>1, <1>3, <1>5
       DEF Ready, Has, GadgetFrame, OfAll, OfMode, Saved, Active, StopsWell, StartsWell, Gone,
           Left, LinkedRight, Fits, GStarts, GEnds, FStarts, FEnds
  <2>5. (faults = 0 /\ crashes = 0 => Exported(doing[t], loc[t]))'
    BY <2>1, <1>2, <1>1, <1>3, <1>5
       DEF Ready, Has, GadgetFrame, OfAll, OfMode, Saved, Active, StopsWell, StartsWell, Exported,
           LinkedRight, Fits, UnboundAt, GStarts, GEnds, FStarts, FEnds, GadgetNoSession,
           FfsNoSession
  <2> QED
    BY <2>2, <2>3, <2>4, <2>5 DEF OfAll
<1> QED
  BY <1>2, <1>1, <1>3, <1>5, <1>6, <1>10, <1>11, <1>12, <1>9, <1>7
     DEF Kept, Knows, Ready, Has, GadgetFrame, Fits, Types, Alone, GStarts, GEnds, FStarts, FEnds

LEMMA GUnbindKeeps ==
    ASSUME NEW t \in Threads, Types, Knows(t), GUnbind(t), GadgetFrame
    PROVE  Kept(t)
<1> DEFINE l == loc[t]
<1>1. Ready(t, l, "gUnbind")
  BY DEF Ready, GUnbind, Types, AppTypes, CountTypes, KernelTypes, Knows
<1> HIDE DEF l
<1>2. PICK q, l2 : doing'[t] = q /\ loc'[t] = l2
  OBVIOUS
<1>3. UNCHANGED <<gLink, lun, files, gSess>> /\ GadgetFrame
  BY DEF GUnbind, Unbind
<1>4. \/ udc /\ ~udc' /\ q = "gConfigure" /\ Has(l2, l, l.orig, l.image, l.bad, l.hit, l.ok)
         /\ faults' = faults
      \/ ~udc /\ (udc' <=> udc) /\ q = "gFailed"
         /\ Has(l2, l, l.orig, l.image, l.bad, l.hit, l.ok) /\ faults' = faults
      \/ (udc' <=> udc) /\ q = "gFailed" /\ Has(l2, l, l.orig, l.image, l.bad, TRUE, l.ok)
         /\ faults' = faults + 1
  <2>1. Moves(t, l, q, l2) /\ l \in Locals /\ loc[t] = l
    BY <1>2, <1>1, Movement DEF Ready
  <2> QED
    BY <2>1, <1>1 DEF GUnbind, Unbind, Moves, Has, Ready
<1>5. KernelTypes'
  BY DEF GUnbind, Unbind, GadgetFrame, Types, KernelTypes
<1>6. SessionTypes'
  <2>1. GadgetNoSession \in GSessions /\ FfsNoSession \in FSessions
    BY DEF GSessions, FSessions, GadgetNoSession, FfsNoSession
  <2> QED
    BY <2>1, <1>1, <1>3 DEF GUnbind, Unbind, Ready, GadgetFrame, Types, SessionTypes, Locals
<1>7. \E q0 \in Places, x \in Locals : Works(t, q0, x) \/ Fails(t, q0, x)
  <2>1. Moves(t, l, q, l2) /\ l \in Locals /\ loc[t] = l
    BY <1>2, <1>1, Movement DEF Ready
  <2> QED
    BY <1>1, <2>1
       DEF GUnbind, Unbind, Moves, Has, Ready, Locals, Types, KernelTypes, SessionTypes,
           GSessions, FSessions, Places, GStarts, GEnds, FStarts, FEnds
<1>8. CountTypes' /\ AppTypes' /\ faults <= faults'
       /\ \A u \in Threads \ {t} : doing'[u] = doing[u] /\ loc'[u] = loc[u]
  BY <1>3, <1>7, Moving DEF GadgetFrame, Types, CountTypes, AppTypes, Alone
<1>9. (Fits(doing[t], loc[t]))'
  BY <1>2, <1>1, <1>4 DEF Ready, Has, Fits, GStarts, GEnds, FStarts, FEnds
<1>10. ASSUME "gadget" \notin overlap PROVE (OfMode("gadget", doing[t], loc[t]))'
  <2>1. OfMode("gadget", "gUnbind", l)
    BY <1>1, <1>10 DEF Knows, Ready, Fits, GStarts, GEnds, FStarts, FEnds
  <2> QED
    BY <2>1, <1>2, <1>1, <1>3, <1>4
       DEF Ready, Has, GadgetFrame, OfMode, Saved, Shows, Active, Modest, Alone, Fits, Stops,
           Doings, GStarts, GEnds, FStarts, FEnds, GadgetNoSession, FfsNoSession
<1>11. ASSUME Alone PROVE (OfAll(doing[t], loc[t]))'
  <2>1. OfAll("gUnbind", l) /\ OfMode("gadget", "gUnbind", l)
    BY <1>1, <1>11 DEF Knows, Ready, Fits, GStarts, GEnds, FStarts, FEnds, Types, AppTypes
  <2>2. (StopsWell(doing[t], loc[t]))'
    BY <2>1, <1>2, <1>1, <1>3, <1>4
       DEF Ready, Has, GadgetFrame, OfAll, StopsWell, Gone, Left, Fits, Stops, GStarts, GEnds,
           FStarts, FEnds
  <2>3. (faults <= 1 => StartsWell(doing[t], loc[t]))'
    BY <2>1, <1>2, <1>1, <1>3, <1>4
       DEF Ready, Has, GadgetFrame, OfAll, OfMode, Saved, Active, StopsWell, Gone, Left,
           StartsWell, LinkedRight, IsLinked, Fits, Stops, GStarts, GEnds, FStarts, FEnds,
           GadgetNoSession, FfsNoSession
  <2>4. (faults <= 1 /\ crashes = 0 => LinkedRight(doing[t]))'
    BY <2>1, <1>2, <1>1, <1>3, <1>4
       DEF Ready, Has, GadgetFrame, OfAll, OfMode, Saved, Active, StopsWell, StartsWell, Gone,
           Left, LinkedRight, Fits, GStarts, GEnds, FStarts, FEnds
  <2>5. (faults = 0 /\ crashes = 0 => Exported(doing[t], loc[t]))'
    BY <2>1, <1>2, <1>1, <1>3, <1>4
       DEF Ready, Has, GadgetFrame, OfAll, OfMode, Saved, Active, StopsWell, StartsWell, Exported,
           LinkedRight, Fits, UnboundAt, GStarts, GEnds, FStarts, FEnds, GadgetNoSession,
           FfsNoSession
  <2> QED
    BY <2>2, <2>3, <2>4, <2>5 DEF OfAll
<1> QED
  BY <1>2, <1>1, <1>3, <1>4, <1>5, <1>9, <1>10, <1>11, <1>8, <1>6
     DEF Kept, Knows, Ready, Has, GadgetFrame, Fits, Types, Alone, GStarts, GEnds, FStarts, FEnds

LEMMA GConfigureKeeps ==
    ASSUME NEW t \in Threads, Types, Knows(t), GConfigure(t), GadgetFrame
    PROVE  Kept(t)
<1> DEFINE l == loc[t]
<1>1. Ready(t, l, "gConfigure")
  BY DEF Ready, GConfigure, Types, AppTypes, CountTypes, KernelTypes, Knows
<1> HIDE DEF l
<1>2. PICK q, l2 : doing'[t] = q /\ loc'[t] = l2
  OBVIOUS
<1>3. UNCHANGED <<files, gSess>> /\ GadgetFrame
  BY DEF GConfigure, GConfigureFails, UdcWithout
<1>4. \/ q = "gBind" /\ Has(l2, l, l.orig, l.image, l.bad, l.hit, l.ok) /\ faults' = faults
         /\ (udc' <=> udc /\ ~gLink) /\ gLink' /\ lun' = l.image
      \/ q = "gCleanup" /\ Has(l2, l, l.orig, l.image, l.bad, TRUE, l.ok) /\ faults' = faults + 1
         /\ (udc' <=> udc) /\ (gLink' <=> gLink) /\ lun' = lun
      \/ q = "gCleanup" /\ Has(l2, l, l.orig, l.image, l.bad, TRUE, l.ok) /\ faults' = faults + 1
         /\ (udc' <=> udc /\ ~gLink) /\ ~gLink' /\ lun' \in {lun, None, l.image}
  <2>1. Moves(t, l, q, l2) /\ l \in Locals /\ loc[t] = l
    BY <1>2, <1>1, Movement DEF Ready
  <2> QED
    BY <2>1, <1>1 DEF GConfigure, GConfigureFails, Moves, Has, UdcWithout, Ready
<1>5. KernelTypes'
  <2>1. udc' \in BOOLEAN
    BY DEF GConfigure, GConfigureFails, UdcWithout, Types, KernelTypes
  <2>2. gLink' \in BOOLEAN
    BY DEF GConfigure, GConfigureFails, UdcWithout, Types, KernelTypes
  <2>3. lun' \in Images \cup {0, None}
    BY <1>1 DEF GConfigure, GConfigureFails, Types, KernelTypes, Ready, Locals, l
  <2> QED
    BY <2>1, <2>2, <2>3, <1>3, <1>4 DEF GadgetFrame, Types, KernelTypes
<1>6. SessionTypes'
  <2>1. GadgetNoSession \in GSessions /\ FfsNoSession \in FSessions
    BY DEF GSessions, FSessions, GadgetNoSession, FfsNoSession
  <2> QED
    BY <2>1, <1>1, <1>3
       DEF GConfigure, GConfigureFails, UdcWithout, Ready, GadgetFrame, Types, SessionTypes,
           Locals
<1>7. \E q0 \in Places, x \in Locals : Works(t, q0, x) \/ Fails(t, q0, x)
  <2>1. Moves(t, l, q, l2) /\ l \in Locals /\ loc[t] = l
    BY <1>2, <1>1, Movement DEF Ready
  <2> QED
    BY <1>1, <2>1
       DEF GConfigure, GConfigureFails, Moves, Has, UdcWithout, Ready, Locals, Types, KernelTypes,
           SessionTypes, GSessions, FSessions, Places, GStarts, GEnds, FStarts, FEnds
<1>8. CountTypes' /\ AppTypes' /\ faults <= faults'
       /\ \A u \in Threads \ {t} : doing'[u] = doing[u] /\ loc'[u] = loc[u]
  BY <1>3, <1>7, Moving DEF GadgetFrame, Types, CountTypes, AppTypes, Alone
<1>9. (Fits(doing[t], loc[t]))'
  BY <1>2, <1>1, <1>4 DEF Ready, Has, Fits, GStarts, GEnds, FStarts, FEnds
<1>10. ASSUME "gadget" \notin overlap PROVE (OfMode("gadget", doing[t], loc[t]))'
  <2>1. OfMode("gadget", "gConfigure", l)
    BY <1>1, <1>10 DEF Knows, Ready, Fits, GStarts, GEnds, FStarts, FEnds
  <2> QED
    BY <2>1, <1>2, <1>1, <1>3, <1>4
       DEF Ready, Has, GadgetFrame, OfMode, Saved, Shows, Active, Modest, Alone, Fits, Stops,
           Doings, GStarts, GEnds, FStarts, FEnds, GadgetNoSession, FfsNoSession
<1>11. ASSUME Alone PROVE (OfAll(doing[t], loc[t]))'
  <2>1. OfAll("gConfigure", l) /\ OfMode("gadget", "gConfigure", l)
    BY <1>1, <1>11 DEF Knows, Ready, Fits, GStarts, GEnds, FStarts, FEnds, Types, AppTypes
  <2>2. (StopsWell(doing[t], loc[t]))'
    BY <2>1, <1>2, <1>1, <1>3, <1>4
       DEF Ready, Has, GadgetFrame, OfAll, StopsWell, Gone, Left, Fits, Stops, GStarts, GEnds,
           FStarts, FEnds
  <2>3. (faults <= 1 => StartsWell(doing[t], loc[t]))'
    BY <2>1, <1>2, <1>1, <1>3, <1>4
       DEF Ready, Has, GadgetFrame, OfAll, OfMode, Saved, Active, StopsWell, Gone, Left,
           StartsWell, LinkedRight, IsLinked, Fits, Stops, GStarts, GEnds, FStarts, FEnds,
           GadgetNoSession, FfsNoSession
  <2>4. (faults <= 1 /\ crashes = 0 => LinkedRight(doing[t]))'
    BY <2>1, <1>2, <1>1, <1>3, <1>4
       DEF Ready, Has, GadgetFrame, OfAll, OfMode, Saved, Active, StopsWell, StartsWell, Gone,
           Left, LinkedRight, Fits, GStarts, GEnds, FStarts, FEnds
  <2>5. (faults = 0 /\ crashes = 0 => Exported(doing[t], loc[t]))'
    BY <2>1, <1>2, <1>1, <1>3, <1>4
       DEF Ready, Has, GadgetFrame, OfAll, OfMode, Saved, Active, StopsWell, StartsWell, Exported,
           LinkedRight, Fits, UnboundAt, GStarts, GEnds, FStarts, FEnds, GadgetNoSession,
           FfsNoSession
  <2> QED
    BY <2>2, <2>3, <2>4, <2>5 DEF OfAll
<1> QED
  BY <1>2, <1>1, <1>3, <1>4, <1>5, <1>9, <1>10, <1>11, <1>8, <1>6
     DEF Kept, Knows, Ready, Has, GadgetFrame, Fits, Types, Alone, GStarts, GEnds, FStarts, FEnds

LEMMA GBindKeeps ==
    ASSUME NEW t \in Threads, Types, Knows(t), GBind(t), GadgetFrame
    PROVE  Kept(t)
<1> DEFINE l == loc[t]
<1>1. Ready(t, l, "gBind")
  BY DEF Ready, GBind, Types, AppTypes, CountTypes, KernelTypes, Knows
<1> HIDE DEF l
<1>2. PICK q, l2 : doing'[t] = q /\ loc'[t] = l2
  OBVIOUS
<1>3. UNCHANGED <<gLink, lun, files, gSess>> /\ GadgetFrame
  BY DEF GBind, Bind
<1>4. \/ ~udc /\ udc' /\ q = "gSave" /\ Has(l2, l, l.orig, l.image, l.bad, l.hit, l.ok)
         /\ faults' = faults
      \/ udc /\ (udc' <=> udc) /\ q = "gCleanup"
         /\ Has(l2, l, l.orig, l.image, l.bad, l.hit, l.ok) /\ faults' = faults
      \/ (udc' <=> udc) /\ q = "gCleanup" /\ Has(l2, l, l.orig, l.image, l.bad, TRUE, l.ok)
         /\ faults' = faults + 1
  <2>1. Moves(t, l, q, l2) /\ l \in Locals /\ loc[t] = l
    BY <1>2, <1>1, Movement DEF Ready
  <2> QED
    BY <2>1, <1>1 DEF GBind, Bind, Moves, Has, Ready
<1>5. KernelTypes'
  BY DEF GBind, Bind, GadgetFrame, Types, KernelTypes
<1>6. SessionTypes'
  <2>1. GadgetNoSession \in GSessions /\ FfsNoSession \in FSessions
    BY DEF GSessions, FSessions, GadgetNoSession, FfsNoSession
  <2> QED
    BY <2>1, <1>1, <1>3 DEF GBind, Bind, Ready, GadgetFrame, Types, SessionTypes, Locals
<1>7. \E q0 \in Places, x \in Locals : Works(t, q0, x) \/ Fails(t, q0, x)
  <2>1. Moves(t, l, q, l2) /\ l \in Locals /\ loc[t] = l
    BY <1>2, <1>1, Movement DEF Ready
  <2> QED
    BY <1>1, <2>1
       DEF GBind, Bind, Moves, Has, Ready, Locals, Types, KernelTypes, SessionTypes, GSessions,
           FSessions, Places, GStarts, GEnds, FStarts, FEnds
<1>8. CountTypes' /\ AppTypes' /\ faults <= faults'
       /\ \A u \in Threads \ {t} : doing'[u] = doing[u] /\ loc'[u] = loc[u]
  BY <1>3, <1>7, Moving DEF GadgetFrame, Types, CountTypes, AppTypes, Alone
<1>9. (Fits(doing[t], loc[t]))'
  BY <1>2, <1>1, <1>4 DEF Ready, Has, Fits, GStarts, GEnds, FStarts, FEnds
<1>10. ASSUME "gadget" \notin overlap PROVE (OfMode("gadget", doing[t], loc[t]))'
  <2>1. OfMode("gadget", "gBind", l)
    BY <1>1, <1>10 DEF Knows, Ready, Fits, GStarts, GEnds, FStarts, FEnds
  <2> QED
    BY <2>1, <1>2, <1>1, <1>3, <1>4
       DEF Ready, Has, GadgetFrame, OfMode, Saved, Shows, Active, Modest, Alone, Fits, Stops,
           Doings, GStarts, GEnds, FStarts, FEnds, GadgetNoSession, FfsNoSession
<1>11. ASSUME Alone PROVE (OfAll(doing[t], loc[t]))'
  <2>1. OfAll("gBind", l) /\ OfMode("gadget", "gBind", l)
    BY <1>1, <1>11 DEF Knows, Ready, Fits, GStarts, GEnds, FStarts, FEnds, Types, AppTypes
  <2>2. (StopsWell(doing[t], loc[t]))'
    BY <2>1, <1>2, <1>1, <1>3, <1>4
       DEF Ready, Has, GadgetFrame, OfAll, StopsWell, Gone, Left, Fits, Stops, GStarts, GEnds,
           FStarts, FEnds
  <2>3. (faults <= 1 => StartsWell(doing[t], loc[t]))'
    BY <2>1, <1>2, <1>1, <1>3, <1>4
       DEF Ready, Has, GadgetFrame, OfAll, OfMode, Saved, Active, StopsWell, Gone, Left,
           StartsWell, LinkedRight, IsLinked, Fits, Stops, GStarts, GEnds, FStarts, FEnds,
           GadgetNoSession, FfsNoSession
  <2>4. (faults <= 1 /\ crashes = 0 => LinkedRight(doing[t]))'
    BY <2>1, <1>2, <1>1, <1>3, <1>4
       DEF Ready, Has, GadgetFrame, OfAll, OfMode, Saved, Active, StopsWell, StartsWell, Gone,
           Left, LinkedRight, Fits, GStarts, GEnds, FStarts, FEnds
  <2>5. (faults = 0 /\ crashes = 0 => Exported(doing[t], loc[t]))'
    BY <2>1, <1>2, <1>1, <1>3, <1>4
       DEF Ready, Has, GadgetFrame, OfAll, OfMode, Saved, Active, StopsWell, StartsWell, Exported,
           LinkedRight, Fits, UnboundAt, GStarts, GEnds, FStarts, FEnds, GadgetNoSession,
           FfsNoSession
  <2> QED
    BY <2>2, <2>3, <2>4, <2>5 DEF OfAll
<1> QED
  BY <1>2, <1>1, <1>3, <1>4, <1>5, <1>9, <1>10, <1>11, <1>8, <1>6
     DEF Kept, Knows, Ready, Has, GadgetFrame, Fits, Types, Alone, GStarts, GEnds, FStarts, FEnds

LEMMA GSaveKeeps ==
    ASSUME NEW t \in Threads, Types, Knows(t), GSave(t), GadgetFrame
    PROVE  Kept(t)
<1> DEFINE l == loc[t]
<1>1. Ready(t, l, "gSave")
  BY DEF Ready, GSave, Types, AppTypes, CountTypes, KernelTypes, Knows
<1> HIDE DEF l
<1>2. PICK q, l2 : doing'[t] = q /\ loc'[t] = l2
  OBVIOUS
<1>3. UNCHANGED <<udc, gLink, lun, files>> /\ GadgetFrame
  BY DEF GSave, Returns
<1>4. gSess' = [active |-> TRUE, image |-> l.image, orig |-> l.orig] /\ q = "done"
       /\ Has(l2, l, l.orig, l.image, l.bad, l.hit, TRUE) /\ faults' = faults
  <2>1. Moves(t, l, q, l2) /\ l \in Locals /\ loc[t] = l
    BY <1>2, <1>1, Movement DEF Ready
  <2> QED
    BY <2>1, <1>1 DEF GSave, Moves, Has, Ready
<1>5. KernelTypes'
  BY DEF GSave, Returns, GadgetFrame, Types, KernelTypes
<1>6. SessionTypes'
  <2>1. GadgetNoSession \in GSessions /\ FfsNoSession \in FSessions
    BY DEF GSessions, FSessions, GadgetNoSession, FfsNoSession
  <2> QED
    BY <2>1, <1>1, <1>3
       DEF GSave, Returns, Ready, GadgetFrame, Types, SessionTypes, Locals, GSessions, FSessions
<1>7. \E q0 \in Places, x \in Locals : Works(t, q0, x) \/ Fails(t, q0, x)
  <2>1. Moves(t, l, q, l2) /\ l \in Locals /\ loc[t] = l
    BY <1>2, <1>1, Movement DEF Ready
  <2> QED
    BY <1>1, <2>1
       DEF GSave, Moves, Has, Ready, Locals, Types, KernelTypes, SessionTypes, GSessions,
           FSessions, Places, GStarts, GEnds, FStarts, FEnds
<1>8. CountTypes' /\ AppTypes' /\ faults <= faults'
       /\ \A u \in Threads \ {t} : doing'[u] = doing[u] /\ loc'[u] = loc[u]
  BY <1>3, <1>7, Moving DEF GadgetFrame, Types, CountTypes, AppTypes, Alone
<1>9. (Fits(doing[t], loc[t]))'
  BY <1>2, <1>1, <1>4 DEF Ready, Has, Fits, GStarts, GEnds, FStarts, FEnds
<1>10. ASSUME "gadget" \notin overlap PROVE (OfMode("gadget", doing[t], loc[t]))'
  <2>1. OfMode("gadget", "gSave", l)
    BY <1>1, <1>10 DEF Knows, Ready, Fits, GStarts, GEnds, FStarts, FEnds
  <2> QED
    BY <2>1, <1>2, <1>1, <1>3, <1>4
       DEF Ready, Has, GadgetFrame, OfMode, Saved, Shows, Active, Modest, Alone, Fits, Stops,
           Doings, GStarts, GEnds, FStarts, FEnds, GadgetNoSession, FfsNoSession
<1>11. ASSUME Alone PROVE (OfAll(doing[t], loc[t]))'
  <2>1. OfAll("gSave", l) /\ OfMode("gadget", "gSave", l)
    BY <1>1, <1>11 DEF Knows, Ready, Fits, GStarts, GEnds, FStarts, FEnds, Types, AppTypes
  <2>2. (StopsWell(doing[t], loc[t]))'
    BY <2>1, <1>2, <1>1, <1>3, <1>4
       DEF Ready, Has, GadgetFrame, OfAll, StopsWell, Gone, Left, Fits, Stops, GStarts, GEnds,
           FStarts, FEnds
  <2>3. (faults <= 1 => StartsWell(doing[t], loc[t]))'
    BY <2>1, <1>2, <1>1, <1>3, <1>4
       DEF Ready, Has, GadgetFrame, OfAll, OfMode, Saved, Active, StopsWell, Gone, Left,
           StartsWell, LinkedRight, IsLinked, Fits, Stops, GStarts, GEnds, FStarts, FEnds,
           GadgetNoSession, FfsNoSession
  <2>4. (faults <= 1 /\ crashes = 0 => LinkedRight(doing[t]))'
    BY <2>1, <1>2, <1>1, <1>3, <1>4
       DEF Ready, Has, GadgetFrame, OfAll, OfMode, Saved, Active, StopsWell, StartsWell, Gone,
           Left, LinkedRight, Fits, GStarts, GEnds, FStarts, FEnds
  <2>5. (faults = 0 /\ crashes = 0 => Exported(doing[t], loc[t]))'
    BY <2>1, <1>2, <1>1, <1>3, <1>4
       DEF Ready, Has, GadgetFrame, OfAll, OfMode, Saved, Active, StopsWell, StartsWell, Exported,
           LinkedRight, Fits, UnboundAt, GStarts, GEnds, FStarts, FEnds, GadgetNoSession,
           FfsNoSession
  <2> QED
    BY <2>2, <2>3, <2>4, <2>5 DEF OfAll
<1> QED
  BY <1>2, <1>1, <1>3, <1>4, <1>5, <1>9, <1>10, <1>11, <1>8, <1>6
     DEF Kept, Knows, Ready, Has, GadgetFrame, Fits, Types, Alone, GStarts, GEnds, FStarts, FEnds

LEMMA GCleanupKeeps ==
    ASSUME NEW t \in Threads, Types, Knows(t), GCleanup(t), GadgetFrame
    PROVE  Kept(t)
<1> DEFINE l == loc[t]
<1>1. Ready(t, l, "gCleanup")
  BY DEF Ready, GCleanup, Types, AppTypes, CountTypes, KernelTypes, Knows
<1> HIDE DEF l
<1>2. PICK q, l2 : doing'[t] = q /\ loc'[t] = l2
  OBVIOUS
<1>3. UNCHANGED <<files, gSess>> /\ GadgetFrame
  BY DEF GCleanup
<1>4. \/ ~udc' /\ ~gLink' /\ lun' = None /\ q = "gRestore"
         /\ Has(l2, l, l.orig, l.image, l.bad, l.hit, l.ok) /\ faults' = faults
      \/ (gLink' => gLink) /\ lun' \in {lun, None} /\ (udc' => udc) /\ q = "gRestore"
         /\ Has(l2, l, l.orig, l.image, l.bad, TRUE, l.ok) /\ faults' = faults + 1
  <2>1. Moves(t, l, q, l2) /\ l \in Locals /\ loc[t] = l
    BY <1>2, <1>1, Movement DEF Ready
  <2> QED
    BY <2>1, <1>1 DEF GCleanup, Moves, Has, Ready
<1>5. KernelTypes'
  BY DEF GCleanup, GadgetFrame, Types, KernelTypes
<1>6. SessionTypes'
  <2>1. GadgetNoSession \in GSessions /\ FfsNoSession \in FSessions
    BY DEF GSessions, FSessions, GadgetNoSession, FfsNoSession
  <2> QED
    BY <2>1, <1>1, <1>3 DEF GCleanup, Ready, GadgetFrame, Types, SessionTypes, Locals
<1>7. \E q0 \in Places, x \in Locals : Works(t, q0, x) \/ Fails(t, q0, x)
  <2>1. Moves(t, l, q, l2) /\ l \in Locals /\ loc[t] = l
    BY <1>2, <1>1, Movement DEF Ready
  <2> QED
    BY <1>1, <2>1
       DEF GCleanup, Moves, Has, Ready, Locals, Types, KernelTypes, SessionTypes, GSessions,
           FSessions, Places, GStarts, GEnds, FStarts, FEnds
<1>8. CountTypes' /\ AppTypes' /\ faults <= faults'
       /\ \A u \in Threads \ {t} : doing'[u] = doing[u] /\ loc'[u] = loc[u]
  BY <1>3, <1>7, Moving DEF GadgetFrame, Types, CountTypes, AppTypes, Alone
<1>9. (Fits(doing[t], loc[t]))'
  BY <1>2, <1>1, <1>4 DEF Ready, Has, Fits, GStarts, GEnds, FStarts, FEnds
<1>10. ASSUME "gadget" \notin overlap PROVE (OfMode("gadget", doing[t], loc[t]))'
  <2>1. OfMode("gadget", "gCleanup", l)
    BY <1>1, <1>10 DEF Knows, Ready, Fits, GStarts, GEnds, FStarts, FEnds
  <2> QED
    BY <2>1, <1>2, <1>1, <1>3, <1>4
       DEF Ready, Has, GadgetFrame, OfMode, Saved, Shows, Active, Modest, Alone, Fits, Stops,
           Doings, GStarts, GEnds, FStarts, FEnds, GadgetNoSession, FfsNoSession
<1>11. ASSUME Alone PROVE (OfAll(doing[t], loc[t]))'
  <2>1. OfAll("gCleanup", l) /\ OfMode("gadget", "gCleanup", l)
    BY <1>1, <1>11 DEF Knows, Ready, Fits, GStarts, GEnds, FStarts, FEnds, Types, AppTypes
  <2>2. (StopsWell(doing[t], loc[t]))'
    BY <2>1, <1>2, <1>1, <1>3, <1>4
       DEF Ready, Has, GadgetFrame, OfAll, StopsWell, Gone, Left, Fits, Stops, GStarts, GEnds,
           FStarts, FEnds
  <2>3. (faults <= 1 => StartsWell(doing[t], loc[t]))'
    BY <2>1, <1>2, <1>1, <1>3, <1>4
       DEF Ready, Has, GadgetFrame, OfAll, OfMode, Saved, Active, StopsWell, Gone, Left,
           StartsWell, LinkedRight, IsLinked, Fits, Stops, GStarts, GEnds, FStarts, FEnds,
           GadgetNoSession, FfsNoSession
  <2>4. (faults <= 1 /\ crashes = 0 => LinkedRight(doing[t]))'
    BY <2>1, <1>2, <1>1, <1>3, <1>4
       DEF Ready, Has, GadgetFrame, OfAll, OfMode, Saved, Active, StopsWell, StartsWell, Gone,
           Left, LinkedRight, Fits, GStarts, GEnds, FStarts, FEnds
  <2>5. (faults = 0 /\ crashes = 0 => Exported(doing[t], loc[t]))'
    BY <2>1, <1>2, <1>1, <1>3, <1>4
       DEF Ready, Has, GadgetFrame, OfAll, OfMode, Saved, Active, StopsWell, StartsWell, Exported,
           LinkedRight, Fits, UnboundAt, GStarts, GEnds, FStarts, FEnds, GadgetNoSession,
           FfsNoSession
  <2> QED
    BY <2>2, <2>3, <2>4, <2>5 DEF OfAll
<1> QED
  BY <1>2, <1>1, <1>3, <1>4, <1>5, <1>9, <1>10, <1>11, <1>8, <1>6
     DEF Kept, Knows, Ready, Has, GadgetFrame, Fits, Types, Alone, GStarts, GEnds, FStarts, FEnds

LEMMA GRestoreKeeps ==
    ASSUME NEW t \in Threads, Types, Knows(t), GRestore(t), GadgetFrame
    PROVE  Kept(t)
<1> DEFINE l == loc[t]
<1>1. Ready(t, l, "gRestore")
  BY DEF Ready, GRestore, Types, AppTypes, CountTypes, KernelTypes, Knows
<1> HIDE DEF l
<1>2. PICK q, l2 : doing'[t] = q /\ loc'[t] = l2
  OBVIOUS
<1>3. UNCHANGED <<gLink, lun, files, gSess>> /\ GadgetFrame
  BY DEF GRestore, Restore
<1>4. \/ ~l.orig /\ (udc' <=> udc) /\ q = "gFailed"
         /\ Has(l2, l, l.orig, l.image, l.bad, l.hit, l.ok) /\ faults' = faults
      \/ l.orig /\ ~udc /\ udc' /\ q = "gFailed"
         /\ Has(l2, l, l.orig, l.image, l.bad, l.hit, l.ok) /\ faults' = faults
      \/ l.orig /\ udc /\ (udc' <=> udc) /\ q = "gFailed"
         /\ Has(l2, l, l.orig, l.image, l.bad, l.hit, l.ok) /\ faults' = faults
      \/ l.orig /\ (udc' <=> udc) /\ q = "gFailed"
         /\ Has(l2, l, l.orig, l.image, l.bad, TRUE, l.ok) /\ faults' = faults + 1
  <2>1. Moves(t, l, q, l2) /\ l \in Locals /\ loc[t] = l
    BY <1>2, <1>1, Movement DEF Ready
  <2> QED
    BY <2>1, <1>1 DEF GRestore, Restore, Moves, Has, Ready
<1>5. KernelTypes'
  BY DEF GRestore, Restore, GadgetFrame, Types, KernelTypes
<1>6. SessionTypes'
  <2>1. GadgetNoSession \in GSessions /\ FfsNoSession \in FSessions
    BY DEF GSessions, FSessions, GadgetNoSession, FfsNoSession
  <2> QED
    BY <2>1, <1>1, <1>3 DEF GRestore, Restore, Ready, GadgetFrame, Types, SessionTypes, Locals
<1>7. \E q0 \in Places, x \in Locals : Works(t, q0, x) \/ Fails(t, q0, x)
  <2>1. Moves(t, l, q, l2) /\ l \in Locals /\ loc[t] = l
    BY <1>2, <1>1, Movement DEF Ready
  <2> QED
    BY <1>1, <2>1
       DEF GRestore, Restore, Moves, Has, Ready, Locals, Types, KernelTypes, SessionTypes,
           GSessions, FSessions, Places, GStarts, GEnds, FStarts, FEnds
<1>8. CountTypes' /\ AppTypes' /\ faults <= faults'
       /\ \A u \in Threads \ {t} : doing'[u] = doing[u] /\ loc'[u] = loc[u]
  BY <1>3, <1>7, Moving DEF GadgetFrame, Types, CountTypes, AppTypes, Alone
<1>9. (Fits(doing[t], loc[t]))'
  BY <1>2, <1>1, <1>4 DEF Ready, Has, Fits, GStarts, GEnds, FStarts, FEnds
<1>10. ASSUME "gadget" \notin overlap PROVE (OfMode("gadget", doing[t], loc[t]))'
  <2>1. OfMode("gadget", "gRestore", l)
    BY <1>1, <1>10 DEF Knows, Ready, Fits, GStarts, GEnds, FStarts, FEnds
  <2> QED
    BY <2>1, <1>2, <1>1, <1>3, <1>4
       DEF Ready, Has, GadgetFrame, OfMode, Saved, Shows, Active, Modest, Alone, Fits, Stops,
           Doings, GStarts, GEnds, FStarts, FEnds, GadgetNoSession, FfsNoSession
<1>11. ASSUME Alone PROVE (OfAll(doing[t], loc[t]))'
  <2>1. OfAll("gRestore", l) /\ OfMode("gadget", "gRestore", l)
    BY <1>1, <1>11 DEF Knows, Ready, Fits, GStarts, GEnds, FStarts, FEnds, Types, AppTypes
  <2>2. (StopsWell(doing[t], loc[t]))'
    BY <2>1, <1>2, <1>1, <1>3, <1>4
       DEF Ready, Has, GadgetFrame, OfAll, StopsWell, Gone, Left, Fits, Stops, GStarts, GEnds,
           FStarts, FEnds
  <2>3. (faults <= 1 => StartsWell(doing[t], loc[t]))'
    BY <2>1, <1>2, <1>1, <1>3, <1>4
       DEF Ready, Has, GadgetFrame, OfAll, OfMode, Saved, Active, StopsWell, Gone, Left,
           StartsWell, LinkedRight, IsLinked, Fits, Stops, GStarts, GEnds, FStarts, FEnds,
           GadgetNoSession, FfsNoSession
  <2>4. (faults <= 1 /\ crashes = 0 => LinkedRight(doing[t]))'
    BY <2>1, <1>2, <1>1, <1>3, <1>4
       DEF Ready, Has, GadgetFrame, OfAll, OfMode, Saved, Active, StopsWell, StartsWell, Gone,
           Left, LinkedRight, Fits, GStarts, GEnds, FStarts, FEnds
  <2>5. (faults = 0 /\ crashes = 0 => Exported(doing[t], loc[t]))'
    BY <2>1, <1>2, <1>1, <1>3, <1>4
       DEF Ready, Has, GadgetFrame, OfAll, OfMode, Saved, Active, StopsWell, StartsWell, Exported,
           LinkedRight, Fits, UnboundAt, GStarts, GEnds, FStarts, FEnds, GadgetNoSession,
           FfsNoSession
  <2> QED
    BY <2>2, <2>3, <2>4, <2>5 DEF OfAll
<1> QED
  BY <1>2, <1>1, <1>3, <1>4, <1>5, <1>9, <1>10, <1>11, <1>8, <1>6
     DEF Kept, Knows, Ready, Has, GadgetFrame, Fits, Types, Alone, GStarts, GEnds, FStarts, FEnds

LEMMA GFailedKeeps ==
    ASSUME NEW t \in Threads, Types, Knows(t), GFailed(t), GadgetFrame
    PROVE  Kept(t)
<1> DEFINE l == loc[t]
<1>1. Ready(t, l, "gFailed")
  BY DEF Ready, GFailed, Types, AppTypes, CountTypes, KernelTypes, Knows
<1> HIDE DEF l
<1>2. PICK q, l2 : doing'[t] = q /\ loc'[t] = l2
  OBVIOUS
<1>3. UNCHANGED <<udc, gLink, lun, gSess>> /\ GadgetFrame
  BY DEF GFailed, Returns
<1>4. files' = files \ {l.image} /\ q = "done"
       /\ Has(l2, l, l.orig, l.image, l.bad, l.hit, FALSE) /\ faults' = faults
  <2>1. Moves(t, l, q, l2) /\ l \in Locals /\ loc[t] = l
    BY <1>2, <1>1, Movement DEF Ready
  <2> QED
    BY <2>1, <1>1 DEF GFailed, Moves, Has, Ready
<1>5. KernelTypes'
  BY DEF GFailed, Returns, GadgetFrame, Types, KernelTypes
<1>6. SessionTypes'
  <2>1. GadgetNoSession \in GSessions /\ FfsNoSession \in FSessions
    BY DEF GSessions, FSessions, GadgetNoSession, FfsNoSession
  <2> QED
    BY <2>1, <1>1, <1>3 DEF GFailed, Returns, Ready, GadgetFrame, Types, SessionTypes, Locals
<1>7. \E q0 \in Places, x \in Locals : Works(t, q0, x) \/ Fails(t, q0, x)
  <2>1. Moves(t, l, q, l2) /\ l \in Locals /\ loc[t] = l
    BY <1>2, <1>1, Movement DEF Ready
  <2> QED
    BY <1>1, <2>1
       DEF GFailed, Moves, Has, Ready, Locals, Types, KernelTypes, SessionTypes, GSessions,
           FSessions, Places, GStarts, GEnds, FStarts, FEnds
<1>8. CountTypes' /\ AppTypes' /\ faults <= faults'
       /\ \A u \in Threads \ {t} : doing'[u] = doing[u] /\ loc'[u] = loc[u]
  BY <1>3, <1>7, Moving DEF GadgetFrame, Types, CountTypes, AppTypes, Alone
<1>9. (Fits(doing[t], loc[t]))'
  BY <1>2, <1>1, <1>4 DEF Ready, Has, Fits, GStarts, GEnds, FStarts, FEnds
<1>10. ASSUME "gadget" \notin overlap PROVE (OfMode("gadget", doing[t], loc[t]))'
  <2>1. OfMode("gadget", "gFailed", l)
    BY <1>1, <1>10 DEF Knows, Ready, Fits, GStarts, GEnds, FStarts, FEnds
  <2> QED
    BY <2>1, <1>2, <1>1, <1>3, <1>4
       DEF Ready, Has, GadgetFrame, OfMode, Saved, Shows, Active, Modest, Alone, Fits, Stops,
           Doings, GStarts, GEnds, FStarts, FEnds, GadgetNoSession, FfsNoSession
<1>11. ASSUME Alone PROVE (OfAll(doing[t], loc[t]))'
  <2>1. OfAll("gFailed", l) /\ OfMode("gadget", "gFailed", l)
    BY <1>1, <1>11 DEF Knows, Ready, Fits, GStarts, GEnds, FStarts, FEnds, Types, AppTypes
  <2>2. (StopsWell(doing[t], loc[t]))'
    BY <2>1, <1>2, <1>1, <1>3, <1>4
       DEF Ready, Has, GadgetFrame, OfAll, StopsWell, Gone, Left, Fits, Stops, GStarts, GEnds,
           FStarts, FEnds
  <2>3. (faults <= 1 => StartsWell(doing[t], loc[t]))'
    BY <2>1, <1>2, <1>1, <1>3, <1>4
       DEF Ready, Has, GadgetFrame, OfAll, OfMode, Saved, Active, StopsWell, Gone, Left,
           StartsWell, LinkedRight, IsLinked, Fits, Stops, GStarts, GEnds, FStarts, FEnds,
           GadgetNoSession, FfsNoSession
  <2>4. (faults <= 1 /\ crashes = 0 => LinkedRight(doing[t]))'
    BY <2>1, <1>2, <1>1, <1>3, <1>4
       DEF Ready, Has, GadgetFrame, OfAll, OfMode, Saved, Active, StopsWell, StartsWell, Gone,
           Left, LinkedRight, Fits, GStarts, GEnds, FStarts, FEnds
  <2>5. (faults = 0 /\ crashes = 0 => Exported(doing[t], loc[t]))'
    BY <2>1, <1>2, <1>1, <1>3, <1>4
       DEF Ready, Has, GadgetFrame, OfAll, OfMode, Saved, Active, StopsWell, StartsWell, Exported,
           LinkedRight, Fits, UnboundAt, GStarts, GEnds, FStarts, FEnds, GadgetNoSession,
           FfsNoSession
  <2> QED
    BY <2>2, <2>3, <2>4, <2>5 DEF OfAll
<1> QED
  BY <1>2, <1>1, <1>3, <1>4, <1>5, <1>9, <1>10, <1>11, <1>8, <1>6
     DEF Kept, Knows, Ready, Has, GadgetFrame, Fits, Types, Alone, GStarts, GEnds, FStarts, FEnds

LEMMA GStopKeeps ==
    ASSUME NEW t \in Threads, Types, Knows(t), GStop(t), GadgetFrame
    PROVE  Kept(t)
<1> DEFINE l == loc[t]
<1>1. Ready(t, l, "gStop")
  BY DEF Ready, GStop, Types, AppTypes, CountTypes, KernelTypes, Knows
<1> HIDE DEF l
<1>2. PICK q, l2 : doing'[t] = q /\ loc'[t] = l2
  OBVIOUS
<1>3. UNCHANGED <<udc, gLink, lun, files, gSess>> /\ GadgetFrame
  BY DEF GStop, Returns
<1>4. [loc[t] EXCEPT !.image = gSess.image, !.orig = gSess.orig] \in Locals
       /\ Has([loc[t] EXCEPT !.image = gSess.image, !.orig = gSess.orig],
              l, gSess.orig, gSess.image, l.bad, l.hit, l.ok)
  <2>1. [loc[t] EXCEPT !.image = gSess.image, !.orig = gSess.orig] \in Locals
    BY <1>1 DEF Ready, Locals, Types, KernelTypes, SessionTypes, GSessions, FSessions
  <2>2. Has([loc[t] EXCEPT !.image = gSess.image, !.orig = gSess.orig],
            l, gSess.orig, gSess.image, l.bad, l.hit, l.ok)
    BY <1>1 DEF Ready, Has, Locals, Types, KernelTypes, SessionTypes, GSessions, FSessions
  <2> QED
    BY <2>1, <2>2
<1>5. \/ gSess.active /\ q = "gStopUnbind"
         /\ Has(l2, l, gSess.orig, gSess.image, l.bad, l.hit, l.ok) /\ faults' = faults
      \/ ~gSess.active /\ q = "done" /\ Has(l2, l, l.orig, l.image, l.bad, l.hit, TRUE)
         /\ faults' = faults
  <2>1. Moves(t, l, q, l2) /\ l \in Locals /\ loc[t] = l
    BY <1>2, <1>1, Movement DEF Ready
  <2>2. PICK x \in Locals : x = [loc[t] EXCEPT !.image = gSess.image, !.orig = gSess.orig]
        /\ Has(x, l, gSess.orig, gSess.image, l.bad, l.hit, l.ok)
    BY <1>4
  <2>3. Has(x, l, gSess.orig, gSess.image, l.bad, l.hit, l.ok)
    BY <2>2
  <2>4. IF gSess.active THEN Works(t, "gStopUnbind", x) ELSE Works(t, "done", Returns(t, TRUE))
    BY <2>1, <2>2 DEF GStop
  <2> QED
    BY <2>1, <2>3, <2>4, <1>1 DEF Moves, Has, Ready
<1>6. KernelTypes'
  BY DEF GStop, Returns, GadgetFrame, Types, KernelTypes
<1>7. SessionTypes'
  <2>1. GadgetNoSession \in GSessions /\ FfsNoSession \in FSessions
    BY DEF GSessions, FSessions, GadgetNoSession, FfsNoSession
  <2> QED
    BY <2>1, <1>1, <1>3 DEF GStop, Returns, Ready, GadgetFrame, Types, SessionTypes, Locals
<1>8. \E q0 \in Places, x \in Locals : Works(t, q0, x) \/ Fails(t, q0, x)
  <2>1. Moves(t, l, q, l2) /\ l \in Locals /\ loc[t] = l
    BY <1>2, <1>1, Movement DEF Ready
  <2> QED
    BY <1>1, <2>1, <1>4
       DEF GStop, Moves, Has, Ready, Locals, Types, KernelTypes, SessionTypes, GSessions,
           FSessions, Places, GStarts, GEnds, FStarts, FEnds
<1>9. CountTypes' /\ AppTypes' /\ faults <= faults'
       /\ \A u \in Threads \ {t} : doing'[u] = doing[u] /\ loc'[u] = loc[u]
  BY <1>3, <1>8, Moving DEF GadgetFrame, Types, CountTypes, AppTypes, Alone
<1>10. (Fits(doing[t], loc[t]))'
  BY <1>2, <1>1, <1>5 DEF Ready, Has, Fits, GStarts, GEnds, FStarts, FEnds
<1>11. ASSUME "gadget" \notin overlap PROVE (OfMode("gadget", doing[t], loc[t]))'
  <2>1. OfMode("gadget", "gStop", l)
    BY <1>1, <1>11 DEF Knows, Ready, Fits, GStarts, GEnds, FStarts, FEnds
  <2> QED
    BY <2>1, <1>2, <1>1, <1>3, <1>5
       DEF Ready, Has, GadgetFrame, OfMode, Saved, Shows, Active, Modest, Alone, Fits, Stops,
           Doings, GStarts, GEnds, FStarts, FEnds, GadgetNoSession, FfsNoSession
<1>12. ASSUME Alone PROVE (OfAll(doing[t], loc[t]))'
  <2>1. OfAll("gStop", l) /\ OfMode("gadget", "gStop", l)
    BY <1>1, <1>12 DEF Knows, Ready, Fits, GStarts, GEnds, FStarts, FEnds, Types, AppTypes
  <2>2. (StopsWell(doing[t], loc[t]))'
    BY <2>1, <1>2, <1>1, <1>3, <1>5
       DEF Ready, Has, GadgetFrame, OfAll, StopsWell, Gone, Left, Fits, Stops, GStarts, GEnds,
           FStarts, FEnds
  <2>3. (faults <= 1 => StartsWell(doing[t], loc[t]))'
    BY <2>1, <1>2, <1>1, <1>3, <1>5
       DEF Ready, Has, GadgetFrame, OfAll, OfMode, Saved, Active, StopsWell, Gone, Left,
           StartsWell, LinkedRight, IsLinked, Fits, Stops, GStarts, GEnds, FStarts, FEnds,
           GadgetNoSession, FfsNoSession
  <2>4. (faults <= 1 /\ crashes = 0 => LinkedRight(doing[t]))'
    BY <2>1, <1>2, <1>1, <1>3, <1>5
       DEF Ready, Has, GadgetFrame, OfAll, OfMode, Saved, Active, StopsWell, StartsWell, Gone,
           Left, LinkedRight, Fits, GStarts, GEnds, FStarts, FEnds
  <2>5. (faults = 0 /\ crashes = 0 => Exported(doing[t], loc[t]))'
    BY <2>1, <1>2, <1>1, <1>3, <1>5
       DEF Ready, Has, GadgetFrame, OfAll, OfMode, Saved, Active, StopsWell, StartsWell, Exported,
           LinkedRight, Fits, UnboundAt, GStarts, GEnds, FStarts, FEnds, GadgetNoSession,
           FfsNoSession
  <2> QED
    BY <2>2, <2>3, <2>4, <2>5 DEF OfAll
<1> QED
  BY <1>2, <1>1, <1>3, <1>5, <1>6, <1>10, <1>11, <1>12, <1>9, <1>7
     DEF Kept, Knows, Ready, Has, GadgetFrame, Fits, Types, Alone, GStarts, GEnds, FStarts, FEnds

LEMMA GStopUnbindKeeps ==
    ASSUME NEW t \in Threads, Types, Knows(t), GStopUnbind(t), GadgetFrame
    PROVE  Kept(t)
<1> DEFINE l == loc[t]
<1>1. Ready(t, l, "gStopUnbind")
  BY DEF Ready, GStopUnbind, Types, AppTypes, CountTypes, KernelTypes, Knows
<1> HIDE DEF l
<1>2. PICK q, l2 : doing'[t] = q /\ loc'[t] = l2
  OBVIOUS
<1>3. UNCHANGED <<gLink, lun, files, gSess>> /\ GadgetFrame
  BY DEF GStopUnbind, UnbindAnyway, Bad
<1>4. \/ ~udc' /\ q = "gDetach" /\ Has(l2, l, l.orig, l.image, l.bad, l.hit, l.ok)
         /\ faults' = faults
      \/ (udc' <=> udc) /\ q = "gDetach" /\ Has(l2, l, l.orig, l.image, l.bad, TRUE, l.ok)
         /\ faults' = faults + 1
      \/ (udc' <=> udc) /\ q = "gDetach" /\ Has(l2, l, l.orig, l.image, TRUE, TRUE, l.ok)
         /\ faults' = faults + 1
  <2>1. Moves(t, l, q, l2) /\ l \in Locals /\ loc[t] = l
    BY <1>2, <1>1, Movement DEF Ready
  <2> QED
    BY <2>1, <1>1 DEF GStopUnbind, UnbindAnyway, Moves, Has, Ready
<1>5. KernelTypes'
  BY DEF GStopUnbind, UnbindAnyway, Bad, GadgetFrame, Types, KernelTypes
<1>6. SessionTypes'
  <2>1. GadgetNoSession \in GSessions /\ FfsNoSession \in FSessions
    BY DEF GSessions, FSessions, GadgetNoSession, FfsNoSession
  <2> QED
    BY <2>1, <1>1, <1>3
       DEF GStopUnbind, UnbindAnyway, Bad, Ready, GadgetFrame, Types, SessionTypes, Locals
<1>7. \E q0 \in Places, x \in Locals : Works(t, q0, x) \/ Fails(t, q0, x)
  <2>1. Moves(t, l, q, l2) /\ l \in Locals /\ loc[t] = l
    BY <1>2, <1>1, Movement DEF Ready
  <2> QED
    BY <1>1, <2>1
       DEF GStopUnbind, UnbindAnyway, Moves, Has, Ready, Locals, Types, KernelTypes, SessionTypes,
           GSessions, FSessions, Places, GStarts, GEnds, FStarts, FEnds
<1>8. CountTypes' /\ AppTypes' /\ faults <= faults'
       /\ \A u \in Threads \ {t} : doing'[u] = doing[u] /\ loc'[u] = loc[u]
  BY <1>3, <1>7, Moving DEF GadgetFrame, Types, CountTypes, AppTypes, Alone
<1>9. (Fits(doing[t], loc[t]))'
  BY <1>2, <1>1, <1>4 DEF Ready, Has, Fits, GStarts, GEnds, FStarts, FEnds
<1>10. ASSUME "gadget" \notin overlap PROVE (OfMode("gadget", doing[t], loc[t]))'
  <2>1. OfMode("gadget", "gStopUnbind", l)
    BY <1>1, <1>10 DEF Knows, Ready, Fits, GStarts, GEnds, FStarts, FEnds
  <2> QED
    BY <2>1, <1>2, <1>1, <1>3, <1>4
       DEF Ready, Has, GadgetFrame, OfMode, Saved, Shows, Active, Modest, Alone, Fits, Stops,
           Doings, GStarts, GEnds, FStarts, FEnds, GadgetNoSession, FfsNoSession
<1>11. ASSUME Alone PROVE (OfAll(doing[t], loc[t]))'
  <2>1. OfAll("gStopUnbind", l) /\ OfMode("gadget", "gStopUnbind", l)
    BY <1>1, <1>11 DEF Knows, Ready, Fits, GStarts, GEnds, FStarts, FEnds, Types, AppTypes
  <2>2. (StopsWell(doing[t], loc[t]))'
    BY <2>1, <1>2, <1>1, <1>3, <1>4
       DEF Ready, Has, GadgetFrame, OfAll, StopsWell, Gone, Left, Fits, Stops, GStarts, GEnds,
           FStarts, FEnds
  <2>3. (faults <= 1 => StartsWell(doing[t], loc[t]))'
    BY <2>1, <1>2, <1>1, <1>3, <1>4
       DEF Ready, Has, GadgetFrame, OfAll, OfMode, Saved, Active, StopsWell, Gone, Left,
           StartsWell, LinkedRight, IsLinked, Fits, Stops, GStarts, GEnds, FStarts, FEnds,
           GadgetNoSession, FfsNoSession
  <2>4. (faults <= 1 /\ crashes = 0 => LinkedRight(doing[t]))'
    BY <2>1, <1>2, <1>1, <1>3, <1>4
       DEF Ready, Has, GadgetFrame, OfAll, OfMode, Saved, Active, StopsWell, StartsWell, Gone,
           Left, LinkedRight, Fits, GStarts, GEnds, FStarts, FEnds
  <2>5. (faults = 0 /\ crashes = 0 => Exported(doing[t], loc[t]))'
    BY <2>1, <1>2, <1>1, <1>3, <1>4
       DEF Ready, Has, GadgetFrame, OfAll, OfMode, Saved, Active, StopsWell, StartsWell, Exported,
           LinkedRight, Fits, UnboundAt, GStarts, GEnds, FStarts, FEnds, GadgetNoSession,
           FfsNoSession
  <2> QED
    BY <2>2, <2>3, <2>4, <2>5 DEF OfAll
<1> QED
  BY <1>2, <1>1, <1>3, <1>4, <1>5, <1>9, <1>10, <1>11, <1>8, <1>6
     DEF Kept, Knows, Ready, Has, GadgetFrame, Fits, Types, Alone, GStarts, GEnds, FStarts, FEnds

LEMMA GDetachKeeps ==
    ASSUME NEW t \in Threads, Types, Knows(t), GDetach(t), GadgetFrame
    PROVE  Kept(t)
<1> DEFINE l == loc[t]
<1>1. Ready(t, l, "gDetach")
  BY DEF Ready, GDetach, Types, AppTypes, CountTypes, KernelTypes, Knows
<1> HIDE DEF l
<1>2. PICK q, l2 : doing'[t] = q /\ loc'[t] = l2
  OBVIOUS
<1>3. UNCHANGED <<files, gSess>> /\ GadgetFrame
  BY DEF GDetach, GDetachFails, Bad, UdcWithout
<1>4. \/ q = "gStopRestore" /\ Has(l2, l, l.orig, l.image, l.bad, l.hit, l.ok)
         /\ faults' = faults /\ (udc' <=> udc /\ ~gLink) /\ ~gLink' /\ lun' = None
      \/ q = "gStopRestore" /\ Has(l2, l, l.orig, l.image, TRUE, TRUE, l.ok)
         /\ faults' = faults + 1 /\ (udc' <=> udc) /\ (gLink' <=> gLink) /\ lun' = lun
      \/ q = "gStopRestore" /\ Has(l2, l, l.orig, l.image, TRUE, TRUE, l.ok)
         /\ faults' = faults + 1 /\ (udc' <=> udc /\ ~gLink) /\ ~gLink' /\ lun' = lun
  <2>1. Moves(t, l, q, l2) /\ l \in Locals /\ loc[t] = l
    BY <1>2, <1>1, Movement DEF Ready
  <2> QED
    BY <2>1, <1>1 DEF GDetach, GDetachFails, Moves, Has, UdcWithout, Ready
<1>5. KernelTypes'
  <2>1. udc' \in BOOLEAN
    BY DEF GDetach, GDetachFails, Bad, UdcWithout, Types, KernelTypes
  <2>2. gLink' \in BOOLEAN
    BY DEF GDetach, GDetachFails, Bad, UdcWithout, Types, KernelTypes
  <2>3. lun' \in Images \cup {0, None}
    BY <1>1 DEF GDetach, GDetachFails, Types, KernelTypes, Ready, Locals, l
  <2> QED
    BY <2>1, <2>2, <2>3, <1>3, <1>4 DEF GadgetFrame, Types, KernelTypes
<1>6. SessionTypes'
  <2>1. GadgetNoSession \in GSessions /\ FfsNoSession \in FSessions
    BY DEF GSessions, FSessions, GadgetNoSession, FfsNoSession
  <2> QED
    BY <2>1, <1>1, <1>3
       DEF GDetach, GDetachFails, Bad, UdcWithout, Ready, GadgetFrame, Types, SessionTypes,
           Locals
<1>7. \E q0 \in Places, x \in Locals : Works(t, q0, x) \/ Fails(t, q0, x)
  <2>1. Moves(t, l, q, l2) /\ l \in Locals /\ loc[t] = l
    BY <1>2, <1>1, Movement DEF Ready
  <2> QED
    BY <1>1, <2>1
       DEF GDetach, GDetachFails, Moves, Has, UdcWithout, Ready, Locals, Types, KernelTypes,
           SessionTypes, GSessions, FSessions, Places, GStarts, GEnds, FStarts, FEnds
<1>8. CountTypes' /\ AppTypes' /\ faults <= faults'
       /\ \A u \in Threads \ {t} : doing'[u] = doing[u] /\ loc'[u] = loc[u]
  BY <1>3, <1>7, Moving DEF GadgetFrame, Types, CountTypes, AppTypes, Alone
<1>9. (Fits(doing[t], loc[t]))'
  BY <1>2, <1>1, <1>4 DEF Ready, Has, Fits, GStarts, GEnds, FStarts, FEnds
<1>10. ASSUME "gadget" \notin overlap PROVE (OfMode("gadget", doing[t], loc[t]))'
  <2>1. OfMode("gadget", "gDetach", l)
    BY <1>1, <1>10 DEF Knows, Ready, Fits, GStarts, GEnds, FStarts, FEnds
  <2> QED
    BY <2>1, <1>2, <1>1, <1>3, <1>4
       DEF Ready, Has, GadgetFrame, OfMode, Saved, Shows, Active, Modest, Alone, Fits, Stops,
           Doings, GStarts, GEnds, FStarts, FEnds, GadgetNoSession, FfsNoSession
<1>11. ASSUME Alone PROVE (OfAll(doing[t], loc[t]))'
  <2>1. OfAll("gDetach", l) /\ OfMode("gadget", "gDetach", l)
    BY <1>1, <1>11 DEF Knows, Ready, Fits, GStarts, GEnds, FStarts, FEnds, Types, AppTypes
  <2>2. (StopsWell(doing[t], loc[t]))'
    BY <2>1, <1>2, <1>1, <1>3, <1>4
       DEF Ready, Has, GadgetFrame, OfAll, StopsWell, Gone, Left, Fits, Stops, GStarts, GEnds,
           FStarts, FEnds
  <2>3. (faults <= 1 => StartsWell(doing[t], loc[t]))'
    BY <2>1, <1>2, <1>1, <1>3, <1>4
       DEF Ready, Has, GadgetFrame, OfAll, OfMode, Saved, Active, StopsWell, Gone, Left,
           StartsWell, LinkedRight, IsLinked, Fits, Stops, GStarts, GEnds, FStarts, FEnds,
           GadgetNoSession, FfsNoSession
  <2>4. (faults <= 1 /\ crashes = 0 => LinkedRight(doing[t]))'
    BY <2>1, <1>2, <1>1, <1>3, <1>4
       DEF Ready, Has, GadgetFrame, OfAll, OfMode, Saved, Active, StopsWell, StartsWell, Gone,
           Left, LinkedRight, Fits, GStarts, GEnds, FStarts, FEnds
  <2>5. (faults = 0 /\ crashes = 0 => Exported(doing[t], loc[t]))'
    BY <2>1, <1>2, <1>1, <1>3, <1>4
       DEF Ready, Has, GadgetFrame, OfAll, OfMode, Saved, Active, StopsWell, StartsWell, Exported,
           LinkedRight, Fits, UnboundAt, GStarts, GEnds, FStarts, FEnds, GadgetNoSession,
           FfsNoSession
  <2> QED
    BY <2>2, <2>3, <2>4, <2>5 DEF OfAll
<1> QED
  BY <1>2, <1>1, <1>3, <1>4, <1>5, <1>9, <1>10, <1>11, <1>8, <1>6
     DEF Kept, Knows, Ready, Has, GadgetFrame, Fits, Types, Alone, GStarts, GEnds, FStarts, FEnds

LEMMA GStopRestoreKeeps ==
    ASSUME NEW t \in Threads, Types, Knows(t), GStopRestore(t), GadgetFrame
    PROVE  Kept(t)
<1> DEFINE l == loc[t]
<1>1. Ready(t, l, "gStopRestore")
  BY DEF Ready, GStopRestore, Types, AppTypes, CountTypes, KernelTypes, Knows
<1> HIDE DEF l
<1>2. PICK q, l2 : doing'[t] = q /\ loc'[t] = l2
  OBVIOUS
<1>3. UNCHANGED <<gLink, lun, files, gSess>> /\ GadgetFrame
  BY DEF GStopRestore, Restore, Bad
<1>4. \/ ~l.orig /\ (udc' <=> udc) /\ q = "gClear"
         /\ Has(l2, l, l.orig, l.image, l.bad, l.hit, l.ok) /\ faults' = faults
      \/ l.orig /\ ~udc /\ udc' /\ q = "gClear"
         /\ Has(l2, l, l.orig, l.image, l.bad, l.hit, l.ok) /\ faults' = faults
      \/ l.orig /\ udc /\ (udc' <=> udc) /\ q = "gClear"
         /\ Has(l2, l, l.orig, l.image, TRUE, l.hit, l.ok) /\ faults' = faults
      \/ l.orig /\ (udc' <=> udc) /\ q = "gClear"
         /\ Has(l2, l, l.orig, l.image, TRUE, TRUE, l.ok) /\ faults' = faults + 1
  <2>1. Moves(t, l, q, l2) /\ l \in Locals /\ loc[t] = l
    BY <1>2, <1>1, Movement DEF Ready
  <2> QED
    BY <2>1, <1>1 DEF GStopRestore, Restore, Moves, Has, Ready
<1>5. KernelTypes'
  BY DEF GStopRestore, Restore, Bad, GadgetFrame, Types, KernelTypes
<1>6. SessionTypes'
  <2>1. GadgetNoSession \in GSessions /\ FfsNoSession \in FSessions
    BY DEF GSessions, FSessions, GadgetNoSession, FfsNoSession
  <2> QED
    BY <2>1, <1>1, <1>3
       DEF GStopRestore, Restore, Bad, Ready, GadgetFrame, Types, SessionTypes, Locals
<1>7. \E q0 \in Places, x \in Locals : Works(t, q0, x) \/ Fails(t, q0, x)
  <2>1. Moves(t, l, q, l2) /\ l \in Locals /\ loc[t] = l
    BY <1>2, <1>1, Movement DEF Ready
  <2> QED
    BY <1>1, <2>1
       DEF GStopRestore, Restore, Moves, Has, Ready, Locals, Types, KernelTypes, SessionTypes,
           GSessions, FSessions, Places, GStarts, GEnds, FStarts, FEnds
<1>8. CountTypes' /\ AppTypes' /\ faults <= faults'
       /\ \A u \in Threads \ {t} : doing'[u] = doing[u] /\ loc'[u] = loc[u]
  BY <1>3, <1>7, Moving DEF GadgetFrame, Types, CountTypes, AppTypes, Alone
<1>9. (Fits(doing[t], loc[t]))'
  BY <1>2, <1>1, <1>4 DEF Ready, Has, Fits, GStarts, GEnds, FStarts, FEnds
<1>10. ASSUME "gadget" \notin overlap PROVE (OfMode("gadget", doing[t], loc[t]))'
  <2>1. OfMode("gadget", "gStopRestore", l)
    BY <1>1, <1>10 DEF Knows, Ready, Fits, GStarts, GEnds, FStarts, FEnds
  <2> QED
    BY <2>1, <1>2, <1>1, <1>3, <1>4
       DEF Ready, Has, GadgetFrame, OfMode, Saved, Shows, Active, Modest, Alone, Fits, Stops,
           Doings, GStarts, GEnds, FStarts, FEnds, GadgetNoSession, FfsNoSession
<1>11. ASSUME Alone PROVE (OfAll(doing[t], loc[t]))'
  <2>1. OfAll("gStopRestore", l) /\ OfMode("gadget", "gStopRestore", l)
    BY <1>1, <1>11 DEF Knows, Ready, Fits, GStarts, GEnds, FStarts, FEnds, Types, AppTypes
  <2>2. (StopsWell(doing[t], loc[t]))'
    BY <2>1, <1>2, <1>1, <1>3, <1>4
       DEF Ready, Has, GadgetFrame, OfAll, StopsWell, Gone, Left, Fits, Stops, GStarts, GEnds,
           FStarts, FEnds
  <2>3. (faults <= 1 => StartsWell(doing[t], loc[t]))'
    BY <2>1, <1>2, <1>1, <1>3, <1>4
       DEF Ready, Has, GadgetFrame, OfAll, OfMode, Saved, Active, StopsWell, Gone, Left,
           StartsWell, LinkedRight, IsLinked, Fits, Stops, GStarts, GEnds, FStarts, FEnds,
           GadgetNoSession, FfsNoSession
  <2>4. (faults <= 1 /\ crashes = 0 => LinkedRight(doing[t]))'
    BY <2>1, <1>2, <1>1, <1>3, <1>4
       DEF Ready, Has, GadgetFrame, OfAll, OfMode, Saved, Active, StopsWell, StartsWell, Gone,
           Left, LinkedRight, Fits, GStarts, GEnds, FStarts, FEnds
  <2>5. (faults = 0 /\ crashes = 0 => Exported(doing[t], loc[t]))'
    BY <2>1, <1>2, <1>1, <1>3, <1>4
       DEF Ready, Has, GadgetFrame, OfAll, OfMode, Saved, Active, StopsWell, StartsWell, Exported,
           LinkedRight, Fits, UnboundAt, GStarts, GEnds, FStarts, FEnds, GadgetNoSession,
           FfsNoSession
  <2> QED
    BY <2>2, <2>3, <2>4, <2>5 DEF OfAll
<1> QED
  BY <1>2, <1>1, <1>3, <1>4, <1>5, <1>9, <1>10, <1>11, <1>8, <1>6
     DEF Kept, Knows, Ready, Has, GadgetFrame, Fits, Types, Alone, GStarts, GEnds, FStarts, FEnds

LEMMA GClearKeeps ==
    ASSUME NEW t \in Threads, Types, Knows(t), GClear(t), GadgetFrame
    PROVE  Kept(t)
<1> DEFINE l == loc[t]
<1>1. Ready(t, l, "gClear")
  BY DEF Ready, GClear, Types, AppTypes, CountTypes, KernelTypes, Knows
<1> HIDE DEF l
<1>2. PICK q, l2 : doing'[t] = q /\ loc'[t] = l2
  OBVIOUS
<1>3. UNCHANGED <<udc, gLink, lun, files>> /\ GadgetFrame
  BY DEF GClear, Returns
<1>4. \/ l.bad /\ q = "done" /\ Has(l2, l, l.orig, l.image, l.bad, l.hit, FALSE)
         /\ faults' = faults /\ UNCHANGED gSess
      \/ ~l.bad /\ q = "gUnstage" /\ Has(l2, l, l.orig, l.image, l.bad, l.hit, l.ok)
         /\ faults' = faults /\ gSess' = GadgetNoSession
  <2>1. Moves(t, l, q, l2) /\ l \in Locals /\ loc[t] = l
    BY <1>2, <1>1, Movement DEF Ready
  <2>2. CASE l.bad
    BY <2>1, <2>2, <1>1 DEF GClear, Moves, Has, Ready
  <2>3. CASE ~l.bad
    BY <2>1, <2>3, <1>1 DEF GClear, Moves, Has, Ready
  <2> QED
    BY <2>2, <2>3
<1>5. KernelTypes'
  BY DEF GClear, Returns, GadgetFrame, Types, KernelTypes
<1>6. SessionTypes'
  <2>1. GadgetNoSession \in GSessions /\ FfsNoSession \in FSessions
    BY DEF GSessions, FSessions, GadgetNoSession, FfsNoSession
  <2> QED
    BY <2>1, <1>1, <1>3 DEF GClear, Returns, Ready, GadgetFrame, Types, SessionTypes, Locals
<1>7. \E q0 \in Places, x \in Locals : Works(t, q0, x) \/ Fails(t, q0, x)
  <2>1. Moves(t, l, q, l2) /\ l \in Locals /\ loc[t] = l
    BY <1>2, <1>1, Movement DEF Ready
  <2> QED
    BY <1>1, <2>1
       DEF GClear, Moves, Has, Ready, Locals, Types, KernelTypes, SessionTypes, GSessions,
           FSessions, Places, GStarts, GEnds, FStarts, FEnds
<1>8. CountTypes' /\ AppTypes' /\ faults <= faults'
       /\ \A u \in Threads \ {t} : doing'[u] = doing[u] /\ loc'[u] = loc[u]
  BY <1>3, <1>7, Moving DEF GadgetFrame, Types, CountTypes, AppTypes, Alone
<1>9. (Fits(doing[t], loc[t]))'
  BY <1>2, <1>1, <1>4 DEF Ready, Has, Fits, GStarts, GEnds, FStarts, FEnds
<1>10. ASSUME "gadget" \notin overlap PROVE (OfMode("gadget", doing[t], loc[t]))'
  <2>1. OfMode("gadget", "gClear", l)
    BY <1>1, <1>10 DEF Knows, Ready, Fits, GStarts, GEnds, FStarts, FEnds
  <2> QED
    BY <2>1, <1>2, <1>1, <1>3, <1>4
       DEF Ready, Has, GadgetFrame, OfMode, Saved, Shows, Active, Modest, Alone, Fits, Stops,
           Doings, GStarts, GEnds, FStarts, FEnds, GadgetNoSession, FfsNoSession
<1>11. ASSUME Alone PROVE (OfAll(doing[t], loc[t]))'
  <2>1. OfAll("gClear", l) /\ OfMode("gadget", "gClear", l)
    BY <1>1, <1>11 DEF Knows, Ready, Fits, GStarts, GEnds, FStarts, FEnds, Types, AppTypes
  <2>2. (StopsWell(doing[t], loc[t]))'
    BY <2>1, <1>2, <1>1, <1>3, <1>4
       DEF Ready, Has, GadgetFrame, OfAll, StopsWell, Gone, Left, Fits, Stops, GStarts, GEnds,
           FStarts, FEnds
  <2>3. (faults <= 1 => StartsWell(doing[t], loc[t]))'
    BY <2>1, <1>2, <1>1, <1>3, <1>4
       DEF Ready, Has, GadgetFrame, OfAll, OfMode, Saved, Active, StopsWell, Gone, Left,
           StartsWell, LinkedRight, IsLinked, Fits, Stops, GStarts, GEnds, FStarts, FEnds,
           GadgetNoSession, FfsNoSession
  <2>4. (faults <= 1 /\ crashes = 0 => LinkedRight(doing[t]))'
    BY <2>1, <1>2, <1>1, <1>3, <1>4
       DEF Ready, Has, GadgetFrame, OfAll, OfMode, Saved, Active, StopsWell, StartsWell, Gone,
           Left, LinkedRight, Fits, GStarts, GEnds, FStarts, FEnds
  <2>5. (faults = 0 /\ crashes = 0 => Exported(doing[t], loc[t]))'
    BY <2>1, <1>2, <1>1, <1>3, <1>4
       DEF Ready, Has, GadgetFrame, OfAll, OfMode, Saved, Active, StopsWell, StartsWell, Exported,
           LinkedRight, Fits, UnboundAt, GStarts, GEnds, FStarts, FEnds, GadgetNoSession,
           FfsNoSession
  <2> QED
    BY <2>2, <2>3, <2>4, <2>5 DEF OfAll
<1> QED
  BY <1>2, <1>1, <1>3, <1>4, <1>5, <1>9, <1>10, <1>11, <1>8, <1>6
     DEF Kept, Knows, Ready, Has, GadgetFrame, Fits, Types, Alone, GStarts, GEnds, FStarts, FEnds

LEMMA GUnstageKeeps ==
    ASSUME NEW t \in Threads, Types, Knows(t), GUnstage(t), GadgetFrame
    PROVE  Kept(t)
<1> DEFINE l == loc[t]
<1>1. Ready(t, l, "gUnstage")
  BY DEF Ready, GUnstage, Types, AppTypes, CountTypes, KernelTypes, Knows
<1> HIDE DEF l
<1>2. PICK q, l2 : doing'[t] = q /\ loc'[t] = l2
  OBVIOUS
<1>3. UNCHANGED <<udc, gLink, lun, gSess>> /\ GadgetFrame
  BY DEF GUnstage, Returns
<1>4. files' = files \ {l.image} /\ q = "done" /\ Has(l2, l, l.orig, l.image, l.bad, l.hit, TRUE)
       /\ faults' = faults
  <2>1. Moves(t, l, q, l2) /\ l \in Locals /\ loc[t] = l
    BY <1>2, <1>1, Movement DEF Ready
  <2> QED
    BY <2>1, <1>1 DEF GUnstage, Moves, Has, Ready
<1>5. KernelTypes'
  BY DEF GUnstage, Returns, GadgetFrame, Types, KernelTypes
<1>6. SessionTypes'
  <2>1. GadgetNoSession \in GSessions /\ FfsNoSession \in FSessions
    BY DEF GSessions, FSessions, GadgetNoSession, FfsNoSession
  <2> QED
    BY <2>1, <1>1, <1>3 DEF GUnstage, Returns, Ready, GadgetFrame, Types, SessionTypes, Locals
<1>7. \E q0 \in Places, x \in Locals : Works(t, q0, x) \/ Fails(t, q0, x)
  <2>1. Moves(t, l, q, l2) /\ l \in Locals /\ loc[t] = l
    BY <1>2, <1>1, Movement DEF Ready
  <2> QED
    BY <1>1, <2>1
       DEF GUnstage, Moves, Has, Ready, Locals, Types, KernelTypes, SessionTypes, GSessions,
           FSessions, Places, GStarts, GEnds, FStarts, FEnds
<1>8. CountTypes' /\ AppTypes' /\ faults <= faults'
       /\ \A u \in Threads \ {t} : doing'[u] = doing[u] /\ loc'[u] = loc[u]
  BY <1>3, <1>7, Moving DEF GadgetFrame, Types, CountTypes, AppTypes, Alone
<1>9. (Fits(doing[t], loc[t]))'
  BY <1>2, <1>1, <1>4 DEF Ready, Has, Fits, GStarts, GEnds, FStarts, FEnds
<1>10. ASSUME "gadget" \notin overlap PROVE (OfMode("gadget", doing[t], loc[t]))'
  <2>1. OfMode("gadget", "gUnstage", l)
    BY <1>1, <1>10 DEF Knows, Ready, Fits, GStarts, GEnds, FStarts, FEnds
  <2> QED
    BY <2>1, <1>2, <1>1, <1>3, <1>4
       DEF Ready, Has, GadgetFrame, OfMode, Saved, Shows, Active, Modest, Alone, Fits, Stops,
           Doings, GStarts, GEnds, FStarts, FEnds, GadgetNoSession, FfsNoSession
<1>11. ASSUME Alone PROVE (OfAll(doing[t], loc[t]))'
  <2>1. OfAll("gUnstage", l) /\ OfMode("gadget", "gUnstage", l)
    BY <1>1, <1>11 DEF Knows, Ready, Fits, GStarts, GEnds, FStarts, FEnds, Types, AppTypes
  <2>2. (StopsWell(doing[t], loc[t]))'
    BY <2>1, <1>2, <1>1, <1>3, <1>4
       DEF Ready, Has, GadgetFrame, OfAll, StopsWell, Gone, Left, Fits, Stops, GStarts, GEnds,
           FStarts, FEnds
  <2>3. (faults <= 1 => StartsWell(doing[t], loc[t]))'
    BY <2>1, <1>2, <1>1, <1>3, <1>4
       DEF Ready, Has, GadgetFrame, OfAll, OfMode, Saved, Active, StopsWell, Gone, Left,
           StartsWell, LinkedRight, IsLinked, Fits, Stops, GStarts, GEnds, FStarts, FEnds,
           GadgetNoSession, FfsNoSession
  <2>4. (faults <= 1 /\ crashes = 0 => LinkedRight(doing[t]))'
    BY <2>1, <1>2, <1>1, <1>3, <1>4
       DEF Ready, Has, GadgetFrame, OfAll, OfMode, Saved, Active, StopsWell, StartsWell, Gone,
           Left, LinkedRight, Fits, GStarts, GEnds, FStarts, FEnds
  <2>5. (faults = 0 /\ crashes = 0 => Exported(doing[t], loc[t]))'
    BY <2>1, <1>2, <1>1, <1>3, <1>4
       DEF Ready, Has, GadgetFrame, OfAll, OfMode, Saved, Active, StopsWell, StartsWell, Exported,
           LinkedRight, Fits, UnboundAt, GStarts, GEnds, FStarts, FEnds, GadgetNoSession,
           FfsNoSession
  <2> QED
    BY <2>2, <2>3, <2>4, <2>5 DEF OfAll
<1> QED
  BY <1>2, <1>1, <1>3, <1>4, <1>5, <1>9, <1>10, <1>11, <1>8, <1>6
     DEF Kept, Knows, Ready, Has, GadgetFrame, Fits, Types, Alone, GStarts, GEnds, FStarts, FEnds

LEMMA FCheckKeeps ==
    ASSUME NEW t \in Threads, Types, Knows(t), FCheck(t), FfsFrame
    PROVE  Kept(t)
<1> DEFINE l == loc[t]
<1>1. Ready(t, l, "fCheck")
  BY DEF Ready, FCheck, Types, AppTypes, CountTypes, KernelTypes, Knows
<1> HIDE DEF l
<1>2. PICK q, l2 : doing'[t] = q /\ loc'[t] = l2
  OBVIOUS
<1>3. UNCHANGED <<udc, fDir, fLink, mounted, native, fSess>> /\ FfsFrame
  BY DEF FCheck, Returns, ffsVars
<1>4. [loc[t] EXCEPT !.orig = udc, !.mounts = ~mounted] \in Locals
       /\ Has([loc[t] EXCEPT !.orig = udc, !.mounts = ~mounted],
              l, udc, l.image, l.bad, l.hit, l.ok)
  <2>1. \A a, b \in BOOLEAN : [loc[t] EXCEPT !.orig = a, !.mounts = b] \in Locals
    BY <1>1 DEF Ready, Locals
  <2>2. udc \in BOOLEAN /\ (~mounted) \in BOOLEAN
    BY DEF Types, KernelTypes
  <2>3. [loc[t] EXCEPT !.orig = udc, !.mounts = ~mounted] \in Locals
    BY <2>1, <2>2
  <2>4. Has([loc[t] EXCEPT !.orig = udc, !.mounts = ~mounted],
            l, udc, l.image, l.bad, l.hit, l.ok)
    BY <1>1 DEF Ready, Has, Locals, Types, KernelTypes, SessionTypes, GSessions, FSessions
  <2> QED
    BY <2>3, <2>4
<1>5. \/ native /\ q = "done" /\ Has(l2, l, l.orig, l.image, l.bad, l.hit, FALSE)
         /\ faults' = faults
      \/ ~native /\ q = "fConfig" /\ Has(l2, l, udc, l.image, l.bad, l.hit, l.ok)
         /\ faults' = faults
      \/ ~native /\ q = "done" /\ Has(l2, l, l.orig, l.image, l.bad, TRUE, FALSE)
         /\ faults' = faults + 1
  <2>1. Moves(t, l, q, l2) /\ l \in Locals /\ loc[t] = l
    BY <1>2, <1>1, Movement DEF Ready
  <2>2. PICK x \in Locals : x = [loc[t] EXCEPT !.orig = udc, !.mounts = ~mounted]
        /\ Has(x, l, udc, l.image, l.bad, l.hit, l.ok)
    BY <1>4
  <2>3. Has(x, l, udc, l.image, l.bad, l.hit, l.ok)
    BY <2>2
  <2>4. \/ native /\ Works(t, "done", Returns(t, FALSE))
        \/ ~native /\ Works(t, "fConfig", x)
        \/ ~native /\ Fails(t, "done", Returns(t, FALSE))
    BY <2>1, <2>2 DEF FCheck, ffsVars
  <2> QED
    BY <2>1, <2>3, <2>4, <1>1 DEF Moves, Has, Ready
<1>6. KernelTypes'
  BY DEF FCheck, Returns, ffsVars, FfsFrame, Types, KernelTypes
<1>7. SessionTypes'
  <2>1. GadgetNoSession \in GSessions /\ FfsNoSession \in FSessions
    BY DEF GSessions, FSessions, GadgetNoSession, FfsNoSession
  <2> QED
    BY <2>1, <1>1, <1>3 DEF FCheck, Returns, ffsVars, Ready, FfsFrame, Types, SessionTypes, Locals
<1>8. \E q0 \in Places, x \in Locals : Works(t, q0, x) \/ Fails(t, q0, x)
  <2>1. Moves(t, l, q, l2) /\ l \in Locals /\ loc[t] = l
    BY <1>2, <1>1, Movement DEF Ready
  <2> QED
    BY <1>1, <2>1, <1>4
       DEF FCheck, ffsVars, Moves, Has, Ready, Locals, Types, KernelTypes, SessionTypes,
           GSessions, FSessions, Places, GStarts, GEnds, FStarts, FEnds
<1>9. CountTypes' /\ AppTypes' /\ faults <= faults'
       /\ \A u \in Threads \ {t} : doing'[u] = doing[u] /\ loc'[u] = loc[u]
  BY <1>3, <1>8, Moving DEF FfsFrame, Types, CountTypes, AppTypes, Alone
<1>10. (Fits(doing[t], loc[t]))'
  BY <1>2, <1>1, <1>5 DEF Ready, Has, Fits, GStarts, GEnds, FStarts, FEnds
<1>11. ASSUME "functionfs" \notin overlap PROVE (OfMode("functionfs", doing[t], loc[t]))'
  <2>1. OfMode("functionfs", "fCheck", l)
    BY <1>1, <1>11 DEF Knows, Ready, Fits, GStarts, GEnds, FStarts, FEnds
  <2> QED
    BY <2>1, <1>2, <1>1, <1>3, <1>5
       DEF Ready, Has, FfsFrame, OfMode, Saved, Shows, Active, Modest, Alone, Fits, Stops, Doings,
           GStarts, GEnds, FStarts, FEnds, GadgetNoSession, FfsNoSession
<1>12. ASSUME Alone PROVE (OfAll(doing[t], loc[t]))'
  <2>1. OfAll("fCheck", l) /\ OfMode("functionfs", "fCheck", l)
    BY <1>1, <1>12 DEF Knows, Ready, Fits, GStarts, GEnds, FStarts, FEnds, Types, AppTypes
  <2>2. (StopsWell(doing[t], loc[t]))'
    BY <2>1, <1>2, <1>1, <1>3, <1>5
       DEF Ready, Has, FfsFrame, OfAll, StopsWell, Gone, Left, Fits, Stops, GStarts, GEnds,
           FStarts, FEnds
  <2>3. (faults <= 1 => StartsWell(doing[t], loc[t]))'
    BY <2>1, <1>2, <1>1, <1>3, <1>5
       DEF Ready, Has, FfsFrame, OfAll, OfMode, Saved, Active, StopsWell, Gone, Left, StartsWell,
           LinkedRight, IsLinked, Fits, Stops, GStarts, GEnds, FStarts, FEnds, GadgetNoSession,
           FfsNoSession
  <2>4. (faults <= 1 /\ crashes = 0 => LinkedRight(doing[t]))'
    BY <2>1, <1>2, <1>1, <1>3, <1>5
       DEF Ready, Has, FfsFrame, OfAll, OfMode, Saved, Active, StopsWell, StartsWell, Gone, Left,
           LinkedRight, Fits, GStarts, GEnds, FStarts, FEnds
  <2>5. (faults = 0 /\ crashes = 0 => Exported(doing[t], loc[t]))'
    BY <2>1, <1>2, <1>1, <1>3, <1>5
       DEF Ready, Has, FfsFrame, OfAll, OfMode, Saved, Active, StopsWell, StartsWell, Exported,
           LinkedRight, Fits, UnboundAt, GStarts, GEnds, FStarts, FEnds, GadgetNoSession,
           FfsNoSession
  <2> QED
    BY <2>2, <2>3, <2>4, <2>5 DEF OfAll
<1> QED
  BY <1>2, <1>1, <1>3, <1>5, <1>6, <1>10, <1>11, <1>12, <1>9, <1>7
     DEF Kept, Knows, Ready, Has, FfsFrame, Fits, Types, Alone, GStarts, GEnds, FStarts, FEnds

LEMMA FConfigKeeps ==
    ASSUME NEW t \in Threads, Types, Knows(t), FConfig(t), FfsFrame
    PROVE  Kept(t)
<1> DEFINE l == loc[t]
<1>1. Ready(t, l, "fConfig")
  BY DEF Ready, FConfig, Types, AppTypes, CountTypes, KernelTypes, Knows
<1> HIDE DEF l
<1>2. PICK q, l2 : doing'[t] = q /\ loc'[t] = l2
  OBVIOUS
<1>3. UNCHANGED <<mounted, native, fSess>> /\ FfsFrame
  BY DEF FConfig, NoMount, ffsVars
<1>4. \/ udc /\ ~udc' /\ fDir' /\ fLink' /\ q = "fPrepare"
         /\ Has(l2, l, l.orig, l.image, l.bad, l.hit, l.ok) /\ faults' = faults
      \/ ~udc /\ (udc' <=> udc) /\ (fDir' <=> fDir) /\ (fLink' <=> fLink) /\ q = "fUndo"
         /\ Has(l2, l, l.orig, l.image, l.bad, l.hit, l.ok) /\ faults' = faults
      \/ /\ (udc' => udc) /\ (fLink' => fLink) /\ (fLink' => fDir')
         /\ q = "fUndo" /\ Has(l2, l, l.orig, l.image, l.bad, TRUE, l.ok) /\ faults' = faults + 1
  <2>1. Moves(t, l, q, l2) /\ l \in Locals /\ loc[t] = l
    BY <1>2, <1>1, Movement DEF Ready
  <2> QED
    BY <2>1, <1>1 DEF FConfig, ffsVars, Moves, Has, Ready
<1>5. KernelTypes'
  <2>1. udc' \in BOOLEAN
    BY DEF FConfig, NoMount, ffsVars, Types, KernelTypes
  <2>2. fLink' \in BOOLEAN
    BY DEF FConfig, NoMount, ffsVars, Types, KernelTypes
  <2>3. fDir' \in BOOLEAN
    BY DEF FConfig, NoMount, ffsVars, Types, KernelTypes
  <2>4. fLink' => fDir'
    BY <1>4 DEF Types, KernelTypes
  <2> QED
    BY <2>1, <2>2, <2>3, <2>4, <1>3, <1>4 DEF FfsFrame, Types, KernelTypes
<1>6. SessionTypes'
  <2>1. GadgetNoSession \in GSessions /\ FfsNoSession \in FSessions
    BY DEF GSessions, FSessions, GadgetNoSession, FfsNoSession
  <2> QED
    BY <2>1, <1>1, <1>3
       DEF FConfig, NoMount, ffsVars, Ready, FfsFrame, Types, SessionTypes, Locals
<1>7. \E q0 \in Places, x \in Locals : Works(t, q0, x) \/ Fails(t, q0, x)
  <2>1. Moves(t, l, q, l2) /\ l \in Locals /\ loc[t] = l
    BY <1>2, <1>1, Movement DEF Ready
  <2> QED
    BY <1>1, <2>1
       DEF FConfig, ffsVars, Moves, Has, Ready, Locals, Types, KernelTypes, SessionTypes,
           GSessions, FSessions, Places, GStarts, GEnds, FStarts, FEnds
<1>8. CountTypes' /\ AppTypes' /\ faults <= faults'
       /\ \A u \in Threads \ {t} : doing'[u] = doing[u] /\ loc'[u] = loc[u]
  BY <1>3, <1>7, Moving DEF FfsFrame, Types, CountTypes, AppTypes, Alone
<1>9. (Fits(doing[t], loc[t]))'
  BY <1>2, <1>1, <1>4 DEF Ready, Has, Fits, GStarts, GEnds, FStarts, FEnds
<1>10. ASSUME "functionfs" \notin overlap PROVE (OfMode("functionfs", doing[t], loc[t]))'
  <2>1. OfMode("functionfs", "fConfig", l)
    BY <1>1, <1>10 DEF Knows, Ready, Fits, GStarts, GEnds, FStarts, FEnds
  <2> QED
    BY <2>1, <1>2, <1>1, <1>3, <1>4
       DEF Ready, Has, FfsFrame, OfMode, Saved, Shows, Active, Modest, Alone, Fits, Stops, Doings,
           GStarts, GEnds, FStarts, FEnds, GadgetNoSession, FfsNoSession
<1>11. ASSUME Alone PROVE (OfAll(doing[t], loc[t]))'
  <2>1. OfAll("fConfig", l) /\ OfMode("functionfs", "fConfig", l)
    BY <1>1, <1>11 DEF Knows, Ready, Fits, GStarts, GEnds, FStarts, FEnds, Types, AppTypes
  <2>2. (StopsWell(doing[t], loc[t]))'
    BY <2>1, <1>2, <1>1, <1>3, <1>4
       DEF Ready, Has, FfsFrame, OfAll, StopsWell, Gone, Left, Fits, Stops, GStarts, GEnds,
           FStarts, FEnds
  <2>3. (faults <= 1 => StartsWell(doing[t], loc[t]))'
    BY <2>1, <1>2, <1>1, <1>3, <1>4
       DEF Ready, Has, FfsFrame, OfAll, OfMode, Saved, Active, StopsWell, Gone, Left, StartsWell,
           LinkedRight, IsLinked, Fits, Stops, GStarts, GEnds, FStarts, FEnds, GadgetNoSession,
           FfsNoSession
  <2>4. (faults <= 1 /\ crashes = 0 => LinkedRight(doing[t]))'
    BY <2>1, <1>2, <1>1, <1>3, <1>4
       DEF Ready, Has, FfsFrame, OfAll, OfMode, Saved, Active, StopsWell, StartsWell, Gone, Left,
           LinkedRight, Fits, GStarts, GEnds, FStarts, FEnds
  <2>5. (faults = 0 /\ crashes = 0 => Exported(doing[t], loc[t]))'
    BY <2>1, <1>2, <1>1, <1>3, <1>4
       DEF Ready, Has, FfsFrame, OfAll, OfMode, Saved, Active, StopsWell, StartsWell, Exported,
           LinkedRight, Fits, UnboundAt, GStarts, GEnds, FStarts, FEnds, GadgetNoSession,
           FfsNoSession
  <2> QED
    BY <2>2, <2>3, <2>4, <2>5 DEF OfAll
<1> QED
  BY <1>2, <1>1, <1>3, <1>4, <1>5, <1>9, <1>10, <1>11, <1>8, <1>6
     DEF Kept, Knows, Ready, Has, FfsFrame, Fits, Types, Alone, GStarts, GEnds, FStarts, FEnds

LEMMA FPrepareKeeps ==
    ASSUME NEW t \in Threads, Types, Knows(t), FPrepare(t), FfsFrame
    PROVE  Kept(t)
<1> DEFINE l == loc[t]
<1>1. Ready(t, l, "fPrepare")
  BY DEF Ready, FPrepare, Types, AppTypes, CountTypes, KernelTypes, Knows
<1> HIDE DEF l
<1>2. PICK q, l2 : doing'[t] = q /\ loc'[t] = l2
  OBVIOUS
<1>3. UNCHANGED <<udc, fDir, fLink, native, fSess>> /\ FfsFrame
  BY DEF FPrepare, ffsVars
<1>4. \/ mounted' /\ q = "fNative" /\ Has(l2, l, l.orig, l.image, l.bad, l.hit, l.ok)
         /\ faults' = faults
      \/ (mounted' <=> mounted) /\ q = "fUndo" /\ Has(l2, l, l.orig, l.image, l.bad, TRUE, l.ok)
         /\ faults' = faults + 1
  <2>1. Moves(t, l, q, l2) /\ l \in Locals /\ loc[t] = l
    BY <1>2, <1>1, Movement DEF Ready
  <2> QED
    BY <2>1, <1>1 DEF FPrepare, ffsVars, Moves, Has, Ready
<1>5. KernelTypes'
  BY DEF FPrepare, ffsVars, FfsFrame, Types, KernelTypes
<1>6. SessionTypes'
  <2>1. GadgetNoSession \in GSessions /\ FfsNoSession \in FSessions
    BY DEF GSessions, FSessions, GadgetNoSession, FfsNoSession
  <2> QED
    BY <2>1, <1>1, <1>3 DEF FPrepare, ffsVars, Ready, FfsFrame, Types, SessionTypes, Locals
<1>7. \E q0 \in Places, x \in Locals : Works(t, q0, x) \/ Fails(t, q0, x)
  <2>1. Moves(t, l, q, l2) /\ l \in Locals /\ loc[t] = l
    BY <1>2, <1>1, Movement DEF Ready
  <2> QED
    BY <1>1, <2>1
       DEF FPrepare, ffsVars, Moves, Has, Ready, Locals, Types, KernelTypes, SessionTypes,
           GSessions, FSessions, Places, GStarts, GEnds, FStarts, FEnds
<1>8. CountTypes' /\ AppTypes' /\ faults <= faults'
       /\ \A u \in Threads \ {t} : doing'[u] = doing[u] /\ loc'[u] = loc[u]
  BY <1>3, <1>7, Moving DEF FfsFrame, Types, CountTypes, AppTypes, Alone
<1>9. (Fits(doing[t], loc[t]))'
  BY <1>2, <1>1, <1>4 DEF Ready, Has, Fits, GStarts, GEnds, FStarts, FEnds
<1>10. ASSUME "functionfs" \notin overlap PROVE (OfMode("functionfs", doing[t], loc[t]))'
  <2>1. OfMode("functionfs", "fPrepare", l)
    BY <1>1, <1>10 DEF Knows, Ready, Fits, GStarts, GEnds, FStarts, FEnds
  <2> QED
    BY <2>1, <1>2, <1>1, <1>3, <1>4
       DEF Ready, Has, FfsFrame, OfMode, Saved, Shows, Active, Modest, Alone, Fits, Stops, Doings,
           GStarts, GEnds, FStarts, FEnds, GadgetNoSession, FfsNoSession
<1>11. ASSUME Alone PROVE (OfAll(doing[t], loc[t]))'
  <2>1. OfAll("fPrepare", l) /\ OfMode("functionfs", "fPrepare", l)
    BY <1>1, <1>11 DEF Knows, Ready, Fits, GStarts, GEnds, FStarts, FEnds, Types, AppTypes
  <2>2. (StopsWell(doing[t], loc[t]))'
    BY <2>1, <1>2, <1>1, <1>3, <1>4
       DEF Ready, Has, FfsFrame, OfAll, StopsWell, Gone, Left, Fits, Stops, GStarts, GEnds,
           FStarts, FEnds
  <2>3. (faults <= 1 => StartsWell(doing[t], loc[t]))'
    BY <2>1, <1>2, <1>1, <1>3, <1>4
       DEF Ready, Has, FfsFrame, OfAll, OfMode, Saved, Active, StopsWell, Gone, Left, StartsWell,
           LinkedRight, IsLinked, Fits, Stops, GStarts, GEnds, FStarts, FEnds, GadgetNoSession,
           FfsNoSession
  <2>4. (faults <= 1 /\ crashes = 0 => LinkedRight(doing[t]))'
    BY <2>1, <1>2, <1>1, <1>3, <1>4
       DEF Ready, Has, FfsFrame, OfAll, OfMode, Saved, Active, StopsWell, StartsWell, Gone, Left,
           LinkedRight, Fits, GStarts, GEnds, FStarts, FEnds
  <2>5. (faults = 0 /\ crashes = 0 => Exported(doing[t], loc[t]))'
    BY <2>1, <1>2, <1>1, <1>3, <1>4
       DEF Ready, Has, FfsFrame, OfAll, OfMode, Saved, Active, StopsWell, StartsWell, Exported,
           LinkedRight, Fits, UnboundAt, GStarts, GEnds, FStarts, FEnds, GadgetNoSession,
           FfsNoSession
  <2> QED
    BY <2>2, <2>3, <2>4, <2>5 DEF OfAll
<1> QED
  BY <1>2, <1>1, <1>3, <1>4, <1>5, <1>9, <1>10, <1>11, <1>8, <1>6
     DEF Kept, Knows, Ready, Has, FfsFrame, Fits, Types, Alone, GStarts, GEnds, FStarts, FEnds

LEMMA FNativeKeeps ==
    ASSUME NEW t \in Threads, Types, Knows(t), FNative(t), FfsFrame
    PROVE  Kept(t)
<1> DEFINE l == loc[t]
<1>1. Ready(t, l, "fNative")
  BY DEF Ready, FNative, Types, AppTypes, CountTypes, KernelTypes, Knows
<1> HIDE DEF l
<1>2. PICK q, l2 : doing'[t] = q /\ loc'[t] = l2
  OBVIOUS
<1>3. UNCHANGED <<udc, fDir, fLink, mounted, fSess>> /\ FfsFrame
  BY DEF FNative, ffsVars
<1>4. \/ ~native /\ native' /\ q = "fBind" /\ Has(l2, l, l.orig, l.image, l.bad, l.hit, l.ok)
         /\ faults' = faults
      \/ native /\ (native' <=> native) /\ q = "fUndo"
         /\ Has(l2, l, l.orig, l.image, l.bad, l.hit, l.ok) /\ faults' = faults
      \/ (native' <=> native) /\ q = "fUndo" /\ Has(l2, l, l.orig, l.image, l.bad, TRUE, l.ok)
         /\ faults' = faults + 1
  <2>1. Moves(t, l, q, l2) /\ l \in Locals /\ loc[t] = l
    BY <1>2, <1>1, Movement DEF Ready
  <2> QED
    BY <2>1, <1>1 DEF FNative, ffsVars, Moves, Has, Ready
<1>5. KernelTypes'
  BY DEF FNative, ffsVars, FfsFrame, Types, KernelTypes
<1>6. SessionTypes'
  <2>1. GadgetNoSession \in GSessions /\ FfsNoSession \in FSessions
    BY DEF GSessions, FSessions, GadgetNoSession, FfsNoSession
  <2> QED
    BY <2>1, <1>1, <1>3 DEF FNative, ffsVars, Ready, FfsFrame, Types, SessionTypes, Locals
<1>7. \E q0 \in Places, x \in Locals : Works(t, q0, x) \/ Fails(t, q0, x)
  <2>1. Moves(t, l, q, l2) /\ l \in Locals /\ loc[t] = l
    BY <1>2, <1>1, Movement DEF Ready
  <2> QED
    BY <1>1, <2>1
       DEF FNative, ffsVars, Moves, Has, Ready, Locals, Types, KernelTypes, SessionTypes,
           GSessions, FSessions, Places, GStarts, GEnds, FStarts, FEnds
<1>8. CountTypes' /\ AppTypes' /\ faults <= faults'
       /\ \A u \in Threads \ {t} : doing'[u] = doing[u] /\ loc'[u] = loc[u]
  BY <1>3, <1>7, Moving DEF FfsFrame, Types, CountTypes, AppTypes, Alone
<1>9. (Fits(doing[t], loc[t]))'
  BY <1>2, <1>1, <1>4 DEF Ready, Has, Fits, GStarts, GEnds, FStarts, FEnds
<1>10. ASSUME "functionfs" \notin overlap PROVE (OfMode("functionfs", doing[t], loc[t]))'
  <2>1. OfMode("functionfs", "fNative", l)
    BY <1>1, <1>10 DEF Knows, Ready, Fits, GStarts, GEnds, FStarts, FEnds
  <2> QED
    BY <2>1, <1>2, <1>1, <1>3, <1>4
       DEF Ready, Has, FfsFrame, OfMode, Saved, Shows, Active, Modest, Alone, Fits, Stops, Doings,
           GStarts, GEnds, FStarts, FEnds, GadgetNoSession, FfsNoSession
<1>11. ASSUME Alone PROVE (OfAll(doing[t], loc[t]))'
  <2>1. OfAll("fNative", l) /\ OfMode("functionfs", "fNative", l)
    BY <1>1, <1>11 DEF Knows, Ready, Fits, GStarts, GEnds, FStarts, FEnds, Types, AppTypes
  <2>2. (StopsWell(doing[t], loc[t]))'
    BY <2>1, <1>2, <1>1, <1>3, <1>4
       DEF Ready, Has, FfsFrame, OfAll, StopsWell, Gone, Left, Fits, Stops, GStarts, GEnds,
           FStarts, FEnds
  <2>3. (faults <= 1 => StartsWell(doing[t], loc[t]))'
    BY <2>1, <1>2, <1>1, <1>3, <1>4
       DEF Ready, Has, FfsFrame, OfAll, OfMode, Saved, Active, StopsWell, Gone, Left, StartsWell,
           LinkedRight, IsLinked, Fits, Stops, GStarts, GEnds, FStarts, FEnds, GadgetNoSession,
           FfsNoSession
  <2>4. (faults <= 1 /\ crashes = 0 => LinkedRight(doing[t]))'
    BY <2>1, <1>2, <1>1, <1>3, <1>4
       DEF Ready, Has, FfsFrame, OfAll, OfMode, Saved, Active, StopsWell, StartsWell, Gone, Left,
           LinkedRight, Fits, GStarts, GEnds, FStarts, FEnds
  <2>5. (faults = 0 /\ crashes = 0 => Exported(doing[t], loc[t]))'
    BY <2>1, <1>2, <1>1, <1>3, <1>4
       DEF Ready, Has, FfsFrame, OfAll, OfMode, Saved, Active, StopsWell, StartsWell, Exported,
           LinkedRight, Fits, UnboundAt, GStarts, GEnds, FStarts, FEnds, GadgetNoSession,
           FfsNoSession
  <2> QED
    BY <2>2, <2>3, <2>4, <2>5 DEF OfAll
<1> QED
  BY <1>2, <1>1, <1>3, <1>4, <1>5, <1>9, <1>10, <1>11, <1>8, <1>6
     DEF Kept, Knows, Ready, Has, FfsFrame, Fits, Types, Alone, GStarts, GEnds, FStarts, FEnds

LEMMA FBindKeeps ==
    ASSUME NEW t \in Threads, Types, Knows(t), FBind(t), FfsFrame
    PROVE  Kept(t)
<1> DEFINE l == loc[t]
<1>1. Ready(t, l, "fBind")
  BY DEF Ready, FBind, Types, AppTypes, CountTypes, KernelTypes, Knows
<1> HIDE DEF l
<1>2. PICK q, l2 : doing'[t] = q /\ loc'[t] = l2
  OBVIOUS
<1>3. UNCHANGED <<fDir, fLink, mounted, native, fSess>> /\ FfsFrame
  BY DEF FBind, Bind, ffsVars
<1>4. \/ ~udc /\ udc' /\ q = "fSave" /\ Has(l2, l, l.orig, l.image, l.bad, l.hit, l.ok)
         /\ faults' = faults
      \/ udc /\ (udc' <=> udc) /\ q = "fUndo" /\ Has(l2, l, l.orig, l.image, l.bad, l.hit, l.ok)
         /\ faults' = faults
      \/ (udc' <=> udc) /\ q = "fUndo" /\ Has(l2, l, l.orig, l.image, l.bad, TRUE, l.ok)
         /\ faults' = faults + 1
  <2>1. Moves(t, l, q, l2) /\ l \in Locals /\ loc[t] = l
    BY <1>2, <1>1, Movement DEF Ready
  <2> QED
    BY <2>1, <1>1 DEF FBind, Bind, ffsVars, Moves, Has, Ready
<1>5. KernelTypes'
  BY DEF FBind, Bind, ffsVars, FfsFrame, Types, KernelTypes
<1>6. SessionTypes'
  <2>1. GadgetNoSession \in GSessions /\ FfsNoSession \in FSessions
    BY DEF GSessions, FSessions, GadgetNoSession, FfsNoSession
  <2> QED
    BY <2>1, <1>1, <1>3 DEF FBind, Bind, ffsVars, Ready, FfsFrame, Types, SessionTypes, Locals
<1>7. \E q0 \in Places, x \in Locals : Works(t, q0, x) \/ Fails(t, q0, x)
  <2>1. Moves(t, l, q, l2) /\ l \in Locals /\ loc[t] = l
    BY <1>2, <1>1, Movement DEF Ready
  <2> QED
    BY <1>1, <2>1
       DEF FBind, Bind, ffsVars, Moves, Has, Ready, Locals, Types, KernelTypes, SessionTypes,
           GSessions, FSessions, Places, GStarts, GEnds, FStarts, FEnds
<1>8. CountTypes' /\ AppTypes' /\ faults <= faults'
       /\ \A u \in Threads \ {t} : doing'[u] = doing[u] /\ loc'[u] = loc[u]
  BY <1>3, <1>7, Moving DEF FfsFrame, Types, CountTypes, AppTypes, Alone
<1>9. (Fits(doing[t], loc[t]))'
  BY <1>2, <1>1, <1>4 DEF Ready, Has, Fits, GStarts, GEnds, FStarts, FEnds
<1>10. ASSUME "functionfs" \notin overlap PROVE (OfMode("functionfs", doing[t], loc[t]))'
  <2>1. OfMode("functionfs", "fBind", l)
    BY <1>1, <1>10 DEF Knows, Ready, Fits, GStarts, GEnds, FStarts, FEnds
  <2> QED
    BY <2>1, <1>2, <1>1, <1>3, <1>4
       DEF Ready, Has, FfsFrame, OfMode, Saved, Shows, Active, Modest, Alone, Fits, Stops, Doings,
           GStarts, GEnds, FStarts, FEnds, GadgetNoSession, FfsNoSession
<1>11. ASSUME Alone PROVE (OfAll(doing[t], loc[t]))'
  <2>1. OfAll("fBind", l) /\ OfMode("functionfs", "fBind", l)
    BY <1>1, <1>11 DEF Knows, Ready, Fits, GStarts, GEnds, FStarts, FEnds, Types, AppTypes
  <2>2. (StopsWell(doing[t], loc[t]))'
    BY <2>1, <1>2, <1>1, <1>3, <1>4
       DEF Ready, Has, FfsFrame, OfAll, StopsWell, Gone, Left, Fits, Stops, GStarts, GEnds,
           FStarts, FEnds
  <2>3. (faults <= 1 => StartsWell(doing[t], loc[t]))'
    BY <2>1, <1>2, <1>1, <1>3, <1>4
       DEF Ready, Has, FfsFrame, OfAll, OfMode, Saved, Active, StopsWell, Gone, Left, StartsWell,
           LinkedRight, IsLinked, Fits, Stops, GStarts, GEnds, FStarts, FEnds, GadgetNoSession,
           FfsNoSession
  <2>4. (faults <= 1 /\ crashes = 0 => LinkedRight(doing[t]))'
    BY <2>1, <1>2, <1>1, <1>3, <1>4
       DEF Ready, Has, FfsFrame, OfAll, OfMode, Saved, Active, StopsWell, StartsWell, Gone, Left,
           LinkedRight, Fits, GStarts, GEnds, FStarts, FEnds
  <2>5. (faults = 0 /\ crashes = 0 => Exported(doing[t], loc[t]))'
    BY <2>1, <1>2, <1>1, <1>3, <1>4
       DEF Ready, Has, FfsFrame, OfAll, OfMode, Saved, Active, StopsWell, StartsWell, Exported,
           LinkedRight, Fits, UnboundAt, GStarts, GEnds, FStarts, FEnds, GadgetNoSession,
           FfsNoSession
  <2> QED
    BY <2>2, <2>3, <2>4, <2>5 DEF OfAll
<1> QED
  BY <1>2, <1>1, <1>3, <1>4, <1>5, <1>9, <1>10, <1>11, <1>8, <1>6
     DEF Kept, Knows, Ready, Has, FfsFrame, Fits, Types, Alone, GStarts, GEnds, FStarts, FEnds

LEMMA FSaveKeeps ==
    ASSUME NEW t \in Threads, Types, Knows(t), FSave(t), FfsFrame
    PROVE  Kept(t)
<1> DEFINE l == loc[t]
<1>1. Ready(t, l, "fSave")
  BY DEF Ready, FSave, Types, AppTypes, CountTypes, KernelTypes, Knows
<1> HIDE DEF l
<1>2. PICK q, l2 : doing'[t] = q /\ loc'[t] = l2
  OBVIOUS
<1>3. UNCHANGED <<udc, fDir, fLink, mounted, native>> /\ FfsFrame
  BY DEF FSave, ffsVars
<1>4. fSess' = [active |-> TRUE, orig |-> l.orig, mounts |-> l.mounts] /\ q = "fVerify"
       /\ Has(l2, l, l.orig, l.image, l.bad, l.hit, l.ok) /\ faults' = faults
  <2>1. Moves(t, l, q, l2) /\ l \in Locals /\ loc[t] = l
    BY <1>2, <1>1, Movement DEF Ready
  <2> QED
    BY <2>1, <1>1 DEF FSave, ffsVars, Moves, Has, Ready
<1>5. KernelTypes'
  BY DEF FSave, ffsVars, FfsFrame, Types, KernelTypes
<1>6. SessionTypes'
  <2>1. GadgetNoSession \in GSessions /\ FfsNoSession \in FSessions
    BY DEF GSessions, FSessions, GadgetNoSession, FfsNoSession
  <2> QED
    BY <2>1, <1>1, <1>3
       DEF FSave, ffsVars, Ready, FfsFrame, Types, SessionTypes, Locals, GSessions, FSessions
<1>7. \E q0 \in Places, x \in Locals : Works(t, q0, x) \/ Fails(t, q0, x)
  <2>1. Moves(t, l, q, l2) /\ l \in Locals /\ loc[t] = l
    BY <1>2, <1>1, Movement DEF Ready
  <2> QED
    BY <1>1, <2>1
       DEF FSave, ffsVars, Moves, Has, Ready, Locals, Types, KernelTypes, SessionTypes, GSessions,
           FSessions, Places, GStarts, GEnds, FStarts, FEnds
<1>8. CountTypes' /\ AppTypes' /\ faults <= faults'
       /\ \A u \in Threads \ {t} : doing'[u] = doing[u] /\ loc'[u] = loc[u]
  BY <1>3, <1>7, Moving DEF FfsFrame, Types, CountTypes, AppTypes, Alone
<1>9. (Fits(doing[t], loc[t]))'
  BY <1>2, <1>1, <1>4 DEF Ready, Has, Fits, GStarts, GEnds, FStarts, FEnds
<1>10. ASSUME "functionfs" \notin overlap PROVE (OfMode("functionfs", doing[t], loc[t]))'
  <2>1. OfMode("functionfs", "fSave", l)
    BY <1>1, <1>10 DEF Knows, Ready, Fits, GStarts, GEnds, FStarts, FEnds
  <2> QED
    BY <2>1, <1>2, <1>1, <1>3, <1>4
       DEF Ready, Has, FfsFrame, OfMode, Saved, Shows, Active, Modest, Alone, Fits, Stops, Doings,
           GStarts, GEnds, FStarts, FEnds, GadgetNoSession, FfsNoSession
<1>11. ASSUME Alone PROVE (OfAll(doing[t], loc[t]))'
  <2>1. OfAll("fSave", l) /\ OfMode("functionfs", "fSave", l)
    BY <1>1, <1>11 DEF Knows, Ready, Fits, GStarts, GEnds, FStarts, FEnds, Types, AppTypes
  <2>2. (StopsWell(doing[t], loc[t]))'
    BY <2>1, <1>2, <1>1, <1>3, <1>4
       DEF Ready, Has, FfsFrame, OfAll, StopsWell, Gone, Left, Fits, Stops, GStarts, GEnds,
           FStarts, FEnds
  <2>3. (faults <= 1 => StartsWell(doing[t], loc[t]))'
    BY <2>1, <1>2, <1>1, <1>3, <1>4
       DEF Ready, Has, FfsFrame, OfAll, OfMode, Saved, Active, StopsWell, Gone, Left, StartsWell,
           LinkedRight, IsLinked, Fits, Stops, GStarts, GEnds, FStarts, FEnds, GadgetNoSession,
           FfsNoSession
  <2>4. (faults <= 1 /\ crashes = 0 => LinkedRight(doing[t]))'
    BY <2>1, <1>2, <1>1, <1>3, <1>4
       DEF Ready, Has, FfsFrame, OfAll, OfMode, Saved, Active, StopsWell, StartsWell, Gone, Left,
           LinkedRight, Fits, GStarts, GEnds, FStarts, FEnds
  <2>5. (faults = 0 /\ crashes = 0 => Exported(doing[t], loc[t]))'
    BY <2>1, <1>2, <1>1, <1>3, <1>4
       DEF Ready, Has, FfsFrame, OfAll, OfMode, Saved, Active, StopsWell, StartsWell, Exported,
           LinkedRight, Fits, UnboundAt, GStarts, GEnds, FStarts, FEnds, GadgetNoSession,
           FfsNoSession
  <2> QED
    BY <2>2, <2>3, <2>4, <2>5 DEF OfAll
<1> QED
  BY <1>2, <1>1, <1>3, <1>4, <1>5, <1>9, <1>10, <1>11, <1>8, <1>6
     DEF Kept, Knows, Ready, Has, FfsFrame, Fits, Types, Alone, GStarts, GEnds, FStarts, FEnds

LEMMA FVerifyKeeps ==
    ASSUME NEW t \in Threads, Types, Knows(t), FVerify(t), FfsFrame
    PROVE  Kept(t)
<1> DEFINE l == loc[t]
<1>1. Ready(t, l, "fVerify")
  BY DEF Ready, FVerify, Types, AppTypes, CountTypes, KernelTypes, Knows
<1> HIDE DEF l
<1>2. PICK q, l2 : doing'[t] = q /\ loc'[t] = l2
  OBVIOUS
<1>3. UNCHANGED <<udc, fDir, fLink, mounted, native, fSess>> /\ FfsFrame
  BY DEF FVerify, Returns, ffsVars
<1>4. \/ native /\ q = "done" /\ Has(l2, l, l.orig, l.image, l.bad, l.hit, TRUE)
         /\ faults' = faults
      \/ ~native /\ q = "fStop" /\ Has(l2, l, l.orig, l.image, l.bad, l.hit, l.ok)
         /\ faults' = faults
  <2>1. Moves(t, l, q, l2) /\ l \in Locals /\ loc[t] = l
    BY <1>2, <1>1, Movement DEF Ready
  <2> QED
    BY <2>1, <1>1 DEF FVerify, ffsVars, Moves, Has, Ready
<1>5. KernelTypes'
  BY DEF FVerify, Returns, ffsVars, FfsFrame, Types, KernelTypes
<1>6. SessionTypes'
  <2>1. GadgetNoSession \in GSessions /\ FfsNoSession \in FSessions
    BY DEF GSessions, FSessions, GadgetNoSession, FfsNoSession
  <2> QED
    BY <2>1, <1>1, <1>3
       DEF FVerify, Returns, ffsVars, Ready, FfsFrame, Types, SessionTypes, Locals
<1>7. \E q0 \in Places, x \in Locals : Works(t, q0, x) \/ Fails(t, q0, x)
  <2>1. Moves(t, l, q, l2) /\ l \in Locals /\ loc[t] = l
    BY <1>2, <1>1, Movement DEF Ready
  <2> QED
    BY <1>1, <2>1
       DEF FVerify, ffsVars, Moves, Has, Ready, Locals, Types, KernelTypes, SessionTypes,
           GSessions, FSessions, Places, GStarts, GEnds, FStarts, FEnds
<1>8. CountTypes' /\ AppTypes' /\ faults <= faults'
       /\ \A u \in Threads \ {t} : doing'[u] = doing[u] /\ loc'[u] = loc[u]
  BY <1>3, <1>7, Moving DEF FfsFrame, Types, CountTypes, AppTypes, Alone
<1>9. (Fits(doing[t], loc[t]))'
  BY <1>2, <1>1, <1>4 DEF Ready, Has, Fits, GStarts, GEnds, FStarts, FEnds
<1>10. ASSUME "functionfs" \notin overlap PROVE (OfMode("functionfs", doing[t], loc[t]))'
  <2>1. OfMode("functionfs", "fVerify", l)
    BY <1>1, <1>10 DEF Knows, Ready, Fits, GStarts, GEnds, FStarts, FEnds
  <2> QED
    BY <2>1, <1>2, <1>1, <1>3, <1>4
       DEF Ready, Has, FfsFrame, OfMode, Saved, Shows, Active, Modest, Alone, Fits, Stops, Doings,
           GStarts, GEnds, FStarts, FEnds, GadgetNoSession, FfsNoSession
<1>11. ASSUME Alone PROVE (OfAll(doing[t], loc[t]))'
  <2>1. OfAll("fVerify", l) /\ OfMode("functionfs", "fVerify", l)
    BY <1>1, <1>11 DEF Knows, Ready, Fits, GStarts, GEnds, FStarts, FEnds, Types, AppTypes
  <2>2. (StopsWell(doing[t], loc[t]))'
    BY <2>1, <1>2, <1>1, <1>3, <1>4
       DEF Ready, Has, FfsFrame, OfAll, StopsWell, Gone, Left, Fits, Stops, GStarts, GEnds,
           FStarts, FEnds
  <2>3. (faults <= 1 => StartsWell(doing[t], loc[t]))'
    BY <2>1, <1>2, <1>1, <1>3, <1>4
       DEF Ready, Has, FfsFrame, OfAll, OfMode, Saved, Active, StopsWell, Gone, Left, StartsWell,
           LinkedRight, IsLinked, Fits, Stops, GStarts, GEnds, FStarts, FEnds, GadgetNoSession,
           FfsNoSession
  <2>4. (faults <= 1 /\ crashes = 0 => LinkedRight(doing[t]))'
    BY <2>1, <1>2, <1>1, <1>3, <1>4
       DEF Ready, Has, FfsFrame, OfAll, OfMode, Saved, Active, StopsWell, StartsWell, Gone, Left,
           LinkedRight, Fits, GStarts, GEnds, FStarts, FEnds
  <2>5. (faults = 0 /\ crashes = 0 => Exported(doing[t], loc[t]))'
    BY <2>1, <1>2, <1>1, <1>3, <1>4
       DEF Ready, Has, FfsFrame, OfAll, OfMode, Saved, Active, StopsWell, StartsWell, Exported,
           LinkedRight, Fits, UnboundAt, GStarts, GEnds, FStarts, FEnds, GadgetNoSession,
           FfsNoSession
  <2> QED
    BY <2>2, <2>3, <2>4, <2>5 DEF OfAll
<1> QED
  BY <1>2, <1>1, <1>3, <1>4, <1>5, <1>9, <1>10, <1>11, <1>8, <1>6
     DEF Kept, Knows, Ready, Has, FfsFrame, Fits, Types, Alone, GStarts, GEnds, FStarts, FEnds

LEMMA FUndoKeeps ==
    ASSUME NEW t \in Threads, Types, Knows(t), FUndo(t), FfsFrame
    PROVE  Kept(t)
<1> DEFINE l == loc[t]
<1>1. Ready(t, l, "fUndo")
  BY DEF Ready, FUndo, Types, AppTypes, CountTypes, KernelTypes, Knows
<1> HIDE DEF l
<1>2. PICK q, l2 : doing'[t] = q /\ loc'[t] = l2
  OBVIOUS
<1>3. UNCHANGED <<mounted, fSess>> /\ FfsFrame
  BY DEF FUndo, ffsVars
<1>4. \/ ~native' /\ ~udc' /\ ~fDir' /\ ~fLink' /\ q = "fUndoMount"
         /\ Has(l2, l, l.orig, l.image, l.bad, l.hit, l.ok) /\ faults' = faults
      \/ /\ ~native' /\ (fLink' => fLink) /\ (fLink' => fDir') /\ (udc' => udc)
         /\ q = "fUndoMount" /\ Has(l2, l, l.orig, l.image, l.bad, TRUE, l.ok)
            /\ faults' = faults + 1
  <2>1. Moves(t, l, q, l2) /\ l \in Locals /\ loc[t] = l
    BY <1>2, <1>1, Movement DEF Ready
  <2> QED
    BY <2>1, <1>1 DEF FUndo, ffsVars, Moves, Has, Ready
<1>5. KernelTypes'
  <2>1. udc' \in BOOLEAN
    BY DEF FUndo, ffsVars, Types, KernelTypes
  <2>2. fLink' \in BOOLEAN
    BY DEF FUndo, ffsVars, Types, KernelTypes
  <2>3. fDir' \in BOOLEAN
    BY DEF FUndo, ffsVars, Types, KernelTypes
  <2>4. fLink' => fDir'
    BY <1>4 DEF Types, KernelTypes
  <2>5. native' \in BOOLEAN
    BY DEF FUndo
  <2> QED
    BY <2>1, <2>2, <2>3, <2>4, <2>5, <1>3, <1>4 DEF FfsFrame, Types, KernelTypes
<1>6. SessionTypes'
  <2>1. GadgetNoSession \in GSessions /\ FfsNoSession \in FSessions
    BY DEF GSessions, FSessions, GadgetNoSession, FfsNoSession
  <2> QED
    BY <2>1, <1>1, <1>3 DEF FUndo, ffsVars, Ready, FfsFrame, Types, SessionTypes, Locals
<1>7. \E q0 \in Places, x \in Locals : Works(t, q0, x) \/ Fails(t, q0, x)
  <2>1. Moves(t, l, q, l2) /\ l \in Locals /\ loc[t] = l
    BY <1>2, <1>1, Movement DEF Ready
  <2> QED
    BY <1>1, <2>1
       DEF FUndo, ffsVars, Moves, Has, Ready, Locals, Types, KernelTypes, SessionTypes, GSessions,
           FSessions, Places, GStarts, GEnds, FStarts, FEnds
<1>8. CountTypes' /\ AppTypes' /\ faults <= faults'
       /\ \A u \in Threads \ {t} : doing'[u] = doing[u] /\ loc'[u] = loc[u]
  BY <1>3, <1>7, Moving DEF FfsFrame, Types, CountTypes, AppTypes, Alone
<1>9. (Fits(doing[t], loc[t]))'
  BY <1>2, <1>1, <1>4 DEF Ready, Has, Fits, GStarts, GEnds, FStarts, FEnds
<1>10. ASSUME "functionfs" \notin overlap PROVE (OfMode("functionfs", doing[t], loc[t]))'
  <2>1. OfMode("functionfs", "fUndo", l)
    BY <1>1, <1>10 DEF Knows, Ready, Fits, GStarts, GEnds, FStarts, FEnds
  <2> QED
    BY <2>1, <1>2, <1>1, <1>3, <1>4
       DEF Ready, Has, FfsFrame, OfMode, Saved, Shows, Active, Modest, Alone, Fits, Stops, Doings,
           GStarts, GEnds, FStarts, FEnds, GadgetNoSession, FfsNoSession
<1>11. ASSUME Alone PROVE (OfAll(doing[t], loc[t]))'
  <2>1. OfAll("fUndo", l) /\ OfMode("functionfs", "fUndo", l)
    BY <1>1, <1>11 DEF Knows, Ready, Fits, GStarts, GEnds, FStarts, FEnds, Types, AppTypes
  <2>2. (StopsWell(doing[t], loc[t]))'
    BY <2>1, <1>2, <1>1, <1>3, <1>4
       DEF Ready, Has, FfsFrame, OfAll, StopsWell, Gone, Left, Fits, Stops, GStarts, GEnds,
           FStarts, FEnds
  <2>3. (faults <= 1 => StartsWell(doing[t], loc[t]))'
    BY <2>1, <1>2, <1>1, <1>3, <1>4
       DEF Ready, Has, FfsFrame, OfAll, OfMode, Saved, Active, StopsWell, Gone, Left, StartsWell,
           LinkedRight, IsLinked, Fits, Stops, GStarts, GEnds, FStarts, FEnds, GadgetNoSession,
           FfsNoSession
  <2>4. (faults <= 1 /\ crashes = 0 => LinkedRight(doing[t]))'
    BY <2>1, <1>2, <1>1, <1>3, <1>4
       DEF Ready, Has, FfsFrame, OfAll, OfMode, Saved, Active, StopsWell, StartsWell, Gone, Left,
           LinkedRight, Fits, GStarts, GEnds, FStarts, FEnds
  <2>5. (faults = 0 /\ crashes = 0 => Exported(doing[t], loc[t]))'
    BY <2>1, <1>2, <1>1, <1>3, <1>4
       DEF Ready, Has, FfsFrame, OfAll, OfMode, Saved, Active, StopsWell, StartsWell, Exported,
           LinkedRight, Fits, UnboundAt, GStarts, GEnds, FStarts, FEnds, GadgetNoSession,
           FfsNoSession
  <2> QED
    BY <2>2, <2>3, <2>4, <2>5 DEF OfAll
<1> QED
  BY <1>2, <1>1, <1>3, <1>4, <1>5, <1>9, <1>10, <1>11, <1>8, <1>6
     DEF Kept, Knows, Ready, Has, FfsFrame, Fits, Types, Alone, GStarts, GEnds, FStarts, FEnds

LEMMA FUndoMountKeeps ==
    ASSUME NEW t \in Threads, Types, Knows(t), FUndoMount(t), FfsFrame
    PROVE  Kept(t)
<1> DEFINE l == loc[t]
<1>1. Ready(t, l, "fUndoMount")
  BY DEF Ready, FUndoMount, Types, AppTypes, CountTypes, KernelTypes, Knows
<1> HIDE DEF l
<1>2. PICK q, l2 : doing'[t] = q /\ loc'[t] = l2
  OBVIOUS
<1>3. UNCHANGED <<udc, fDir, fLink, native, fSess>> /\ FfsFrame
  BY DEF FUndoMount, Unmounts, ffsVars
<1>4. \/ q = "fUndoBind" /\ Has(l2, l, l.orig, l.image, l.bad, l.hit, l.ok) /\ faults' = faults
         /\ (mounted' <=> mounted /\ ~l.mounts)
      \/ q = "fUndoBind" /\ Has(l2, l, l.orig, l.image, l.bad, TRUE, l.ok)
         /\ faults' = faults + 1 /\ (mounted' <=> mounted)
  <2>1. Moves(t, l, q, l2) /\ l \in Locals /\ loc[t] = l
    BY <1>2, <1>1, Movement DEF Ready
  <2> QED
    BY <2>1, <1>1 DEF FUndoMount, Unmounts, ffsVars, Moves, Has, Ready
<1>5. KernelTypes'
  <2>1. mounted' \in BOOLEAN
    BY DEF FUndoMount, Unmounts, ffsVars, Types, KernelTypes
  <2> QED
    BY <2>1, <1>3, <1>4 DEF FfsFrame, Types, KernelTypes
<1>6. SessionTypes'
  <2>1. GadgetNoSession \in GSessions /\ FfsNoSession \in FSessions
    BY DEF GSessions, FSessions, GadgetNoSession, FfsNoSession
  <2> QED
    BY <2>1, <1>1, <1>3
       DEF FUndoMount, Unmounts, ffsVars, Ready, FfsFrame, Types, SessionTypes, Locals
<1>7. \E q0 \in Places, x \in Locals : Works(t, q0, x) \/ Fails(t, q0, x)
  <2>1. Moves(t, l, q, l2) /\ l \in Locals /\ loc[t] = l
    BY <1>2, <1>1, Movement DEF Ready
  <2> QED
    BY <1>1, <2>1
       DEF FUndoMount, Unmounts, ffsVars, Moves, Has, Ready, Locals, Types, KernelTypes,
           SessionTypes, GSessions, FSessions, Places, GStarts, GEnds, FStarts, FEnds
<1>8. CountTypes' /\ AppTypes' /\ faults <= faults'
       /\ \A u \in Threads \ {t} : doing'[u] = doing[u] /\ loc'[u] = loc[u]
  BY <1>3, <1>7, Moving DEF FfsFrame, Types, CountTypes, AppTypes, Alone
<1>9. (Fits(doing[t], loc[t]))'
  BY <1>2, <1>1, <1>4 DEF Ready, Has, Fits, GStarts, GEnds, FStarts, FEnds
<1>10. ASSUME "functionfs" \notin overlap PROVE (OfMode("functionfs", doing[t], loc[t]))'
  <2>1. OfMode("functionfs", "fUndoMount", l)
    BY <1>1, <1>10 DEF Knows, Ready, Fits, GStarts, GEnds, FStarts, FEnds
  <2> QED
    BY <2>1, <1>2, <1>1, <1>3, <1>4
       DEF Ready, Has, FfsFrame, OfMode, Saved, Shows, Active, Modest, Alone, Fits, Stops, Doings,
           GStarts, GEnds, FStarts, FEnds, GadgetNoSession, FfsNoSession
<1>11. ASSUME Alone PROVE (OfAll(doing[t], loc[t]))'
  <2>1. OfAll("fUndoMount", l) /\ OfMode("functionfs", "fUndoMount", l)
    BY <1>1, <1>11 DEF Knows, Ready, Fits, GStarts, GEnds, FStarts, FEnds, Types, AppTypes
  <2>2. (StopsWell(doing[t], loc[t]))'
    BY <2>1, <1>2, <1>1, <1>3, <1>4
       DEF Ready, Has, FfsFrame, OfAll, StopsWell, Gone, Left, Fits, Stops, GStarts, GEnds,
           FStarts, FEnds
  <2>3. (faults <= 1 => StartsWell(doing[t], loc[t]))'
    BY <2>1, <1>2, <1>1, <1>3, <1>4
       DEF Ready, Has, FfsFrame, OfAll, OfMode, Saved, Active, StopsWell, Gone, Left, StartsWell,
           LinkedRight, IsLinked, Fits, Stops, GStarts, GEnds, FStarts, FEnds, GadgetNoSession,
           FfsNoSession
  <2>4. (faults <= 1 /\ crashes = 0 => LinkedRight(doing[t]))'
    BY <2>1, <1>2, <1>1, <1>3, <1>4
       DEF Ready, Has, FfsFrame, OfAll, OfMode, Saved, Active, StopsWell, StartsWell, Gone, Left,
           LinkedRight, Fits, GStarts, GEnds, FStarts, FEnds
  <2>5. (faults = 0 /\ crashes = 0 => Exported(doing[t], loc[t]))'
    BY <2>1, <1>2, <1>1, <1>3, <1>4
       DEF Ready, Has, FfsFrame, OfAll, OfMode, Saved, Active, StopsWell, StartsWell, Exported,
           LinkedRight, Fits, UnboundAt, GStarts, GEnds, FStarts, FEnds, GadgetNoSession,
           FfsNoSession
  <2> QED
    BY <2>2, <2>3, <2>4, <2>5 DEF OfAll
<1> QED
  BY <1>2, <1>1, <1>3, <1>4, <1>5, <1>9, <1>10, <1>11, <1>8, <1>6
     DEF Kept, Knows, Ready, Has, FfsFrame, Fits, Types, Alone, GStarts, GEnds, FStarts, FEnds

LEMMA FUndoBindKeeps ==
    ASSUME NEW t \in Threads, Types, Knows(t), FUndoBind(t), FfsFrame
    PROVE  Kept(t)
<1> DEFINE l == loc[t]
<1>1. Ready(t, l, "fUndoBind")
  BY DEF Ready, FUndoBind, Types, AppTypes, CountTypes, KernelTypes, Knows
<1> HIDE DEF l
<1>2. PICK q, l2 : doing'[t] = q /\ loc'[t] = l2
  OBVIOUS
<1>3. UNCHANGED <<fDir, fLink, mounted, native, fSess>> /\ FfsFrame
  BY DEF FUndoBind, Restore, ffsVars
<1>4. \/ ~l.orig /\ (udc' <=> udc) /\ q = "done"
         /\ Has(l2, l, l.orig, l.image, l.bad, l.hit, l.ok) /\ faults' = faults
      \/ l.orig /\ ~udc /\ udc' /\ q = "done" /\ Has(l2, l, l.orig, l.image, l.bad, l.hit, l.ok)
         /\ faults' = faults
      \/ l.orig /\ udc /\ (udc' <=> udc) /\ q = "done"
         /\ Has(l2, l, l.orig, l.image, l.bad, l.hit, l.ok) /\ faults' = faults
      \/ l.orig /\ (udc' <=> udc) /\ q = "done" /\ Has(l2, l, l.orig, l.image, l.bad, TRUE, l.ok)
         /\ faults' = faults + 1
  <2>1. Moves(t, l, q, l2) /\ l \in Locals /\ loc[t] = l
    BY <1>2, <1>1, Movement DEF Ready
  <2> QED
    BY <2>1, <1>1 DEF FUndoBind, Restore, ffsVars, Moves, Has, Ready
<1>5. KernelTypes'
  BY DEF FUndoBind, Restore, ffsVars, FfsFrame, Types, KernelTypes
<1>6. SessionTypes'
  <2>1. GadgetNoSession \in GSessions /\ FfsNoSession \in FSessions
    BY DEF GSessions, FSessions, GadgetNoSession, FfsNoSession
  <2> QED
    BY <2>1, <1>1, <1>3
       DEF FUndoBind, Restore, ffsVars, Ready, FfsFrame, Types, SessionTypes, Locals
<1>7. \E q0 \in Places, x \in Locals : Works(t, q0, x) \/ Fails(t, q0, x)
  <2>1. Moves(t, l, q, l2) /\ l \in Locals /\ loc[t] = l
    BY <1>2, <1>1, Movement DEF Ready
  <2> QED
    BY <1>1, <2>1
       DEF FUndoBind, Restore, ffsVars, Moves, Has, Ready, Locals, Types, KernelTypes,
           SessionTypes, GSessions, FSessions, Places, GStarts, GEnds, FStarts, FEnds
<1>8. CountTypes' /\ AppTypes' /\ faults <= faults'
       /\ \A u \in Threads \ {t} : doing'[u] = doing[u] /\ loc'[u] = loc[u]
  BY <1>3, <1>7, Moving DEF FfsFrame, Types, CountTypes, AppTypes, Alone
<1>9. (Fits(doing[t], loc[t]))'
  BY <1>2, <1>1, <1>4 DEF Ready, Has, Fits, GStarts, GEnds, FStarts, FEnds
<1>10. ASSUME "functionfs" \notin overlap PROVE (OfMode("functionfs", doing[t], loc[t]))'
  <2>1. OfMode("functionfs", "fUndoBind", l)
    BY <1>1, <1>10 DEF Knows, Ready, Fits, GStarts, GEnds, FStarts, FEnds
  <2> QED
    BY <2>1, <1>2, <1>1, <1>3, <1>4
       DEF Ready, Has, FfsFrame, OfMode, Saved, Shows, Active, Modest, Alone, Fits, Stops, Doings,
           GStarts, GEnds, FStarts, FEnds, GadgetNoSession, FfsNoSession
<1>11. ASSUME Alone PROVE (OfAll(doing[t], loc[t]))'
  <2>1. OfAll("fUndoBind", l) /\ OfMode("functionfs", "fUndoBind", l)
    BY <1>1, <1>11 DEF Knows, Ready, Fits, GStarts, GEnds, FStarts, FEnds, Types, AppTypes
  <2>2. (StopsWell(doing[t], loc[t]))'
    BY <2>1, <1>2, <1>1, <1>3, <1>4
       DEF Ready, Has, FfsFrame, OfAll, StopsWell, Gone, Left, Fits, Stops, GStarts, GEnds,
           FStarts, FEnds
  <2>3. (faults <= 1 => StartsWell(doing[t], loc[t]))'
    BY <2>1, <1>2, <1>1, <1>3, <1>4
       DEF Ready, Has, FfsFrame, OfAll, OfMode, Saved, Active, StopsWell, Gone, Left, StartsWell,
           LinkedRight, IsLinked, Fits, Stops, GStarts, GEnds, FStarts, FEnds, GadgetNoSession,
           FfsNoSession
  <2>4. (faults <= 1 /\ crashes = 0 => LinkedRight(doing[t]))'
    BY <2>1, <1>2, <1>1, <1>3, <1>4
       DEF Ready, Has, FfsFrame, OfAll, OfMode, Saved, Active, StopsWell, StartsWell, Gone, Left,
           LinkedRight, Fits, GStarts, GEnds, FStarts, FEnds
  <2>5. (faults = 0 /\ crashes = 0 => Exported(doing[t], loc[t]))'
    BY <2>1, <1>2, <1>1, <1>3, <1>4
       DEF Ready, Has, FfsFrame, OfAll, OfMode, Saved, Active, StopsWell, StartsWell, Exported,
           LinkedRight, Fits, UnboundAt, GStarts, GEnds, FStarts, FEnds, GadgetNoSession,
           FfsNoSession
  <2> QED
    BY <2>2, <2>3, <2>4, <2>5 DEF OfAll
<1> QED
  BY <1>2, <1>1, <1>3, <1>4, <1>5, <1>9, <1>10, <1>11, <1>8, <1>6
     DEF Kept, Knows, Ready, Has, FfsFrame, Fits, Types, Alone, GStarts, GEnds, FStarts, FEnds

LEMMA FStopKeeps ==
    ASSUME NEW t \in Threads, Types, Knows(t), FStop(t), FfsFrame
    PROVE  Kept(t)
<1> DEFINE l == loc[t]
<1>1. Ready(t, l, "fStop")
  BY DEF Ready, FStop, Types, AppTypes, CountTypes, KernelTypes, Knows
<1> HIDE DEF l
<1>2. PICK q, l2 : doing'[t] = q /\ loc'[t] = l2
  OBVIOUS
<1>3. UNCHANGED <<udc, fDir, fLink, mounted, fSess>> /\ FfsFrame
  BY DEF FStop, Returns, ffsVars, Asked
<1>4. [loc[t] EXCEPT !.orig = fSess.orig, !.mounts = fSess.mounts] \in Locals
       /\ Has([loc[t] EXCEPT !.orig = fSess.orig, !.mounts = fSess.mounts],
              l, fSess.orig, l.image, l.bad, l.hit, l.ok)
  <2>1. [loc[t] EXCEPT !.orig = fSess.orig, !.mounts = fSess.mounts] \in Locals
    BY <1>1 DEF Ready, Locals, Types, KernelTypes, SessionTypes, GSessions, FSessions
  <2>2. Has([loc[t] EXCEPT !.orig = fSess.orig, !.mounts = fSess.mounts],
            l, fSess.orig, l.image, l.bad, l.hit, l.ok)
    BY <1>1 DEF Ready, Has, Locals, Types, KernelTypes, SessionTypes, GSessions, FSessions
  <2> QED
    BY <2>1, <2>2
<1>5. \/ /\ fSess.active /\ (native' <=> native)
         /\ q = "fStopUnbind" /\ Has(l2, l, fSess.orig, l.image, l.bad, l.hit, l.ok)
            /\ faults' = faults
      \/ ~fSess.active /\ ~native' /\ q = "done"
         /\ Has(l2, l, l.orig, l.image, l.bad, l.hit, l.kind # "start") /\ faults' = faults
  <2>1. Moves(t, l, q, l2) /\ l \in Locals /\ loc[t] = l
    BY <1>2, <1>1, Movement DEF Ready
  <2>2. PICK x \in Locals : x = [loc[t] EXCEPT !.orig = fSess.orig, !.mounts = fSess.mounts]
        /\ Has(x, l, fSess.orig, l.image, l.bad, l.hit, l.ok)
    BY <1>4
  <2>3. Has(x, l, fSess.orig, l.image, l.bad, l.hit, l.ok)
    BY <2>2
  <2>4. \/ fSess.active /\ Works(t, "fStopUnbind", x) /\ (native' <=> native)
        \/ ~fSess.active /\ Works(t, "done", Returns(t, Asked(t))) /\ ~native'
    BY <2>1, <2>2 DEF FStop
  <2>5. Asked(t) \in BOOLEAN /\ (Asked(t) <=> l.kind # "start")
    BY <2>1 DEF Asked
  <2> QED
    BY <2>1, <2>3, <2>4, <2>5, <1>1 DEF Moves, Has, Ready
<1>6. KernelTypes'
  BY DEF FStop, Returns, ffsVars, Asked, FfsFrame, Types, KernelTypes
<1>7. SessionTypes'
  <2>1. GadgetNoSession \in GSessions /\ FfsNoSession \in FSessions
    BY DEF GSessions, FSessions, GadgetNoSession, FfsNoSession
  <2> QED
    BY <2>1, <1>1, <1>3
       DEF FStop, Returns, ffsVars, Asked, Ready, FfsFrame, Types, SessionTypes, Locals
<1>8. \E q0 \in Places, x \in Locals : Works(t, q0, x) \/ Fails(t, q0, x)
  <2>1. Moves(t, l, q, l2) /\ l \in Locals /\ loc[t] = l
    BY <1>2, <1>1, Movement DEF Ready
  <2> QED
    BY <1>1, <2>1, <1>4
       DEF FStop, ffsVars, Moves, Has, Asked, Ready, Locals, Types, KernelTypes, SessionTypes,
           GSessions, FSessions, Places, GStarts, GEnds, FStarts, FEnds
<1>9. CountTypes' /\ AppTypes' /\ faults <= faults'
       /\ \A u \in Threads \ {t} : doing'[u] = doing[u] /\ loc'[u] = loc[u]
  BY <1>3, <1>8, Moving DEF FfsFrame, Types, CountTypes, AppTypes, Alone
<1>10. (Fits(doing[t], loc[t]))'
  BY <1>2, <1>1, <1>5 DEF Ready, Has, Fits, GStarts, GEnds, FStarts, FEnds
<1>11. ASSUME "functionfs" \notin overlap PROVE (OfMode("functionfs", doing[t], loc[t]))'
  <2>1. OfMode("functionfs", "fStop", l)
    BY <1>1, <1>11 DEF Knows, Ready, Fits, GStarts, GEnds, FStarts, FEnds
  <2> QED
    BY <2>1, <1>2, <1>1, <1>3, <1>5
       DEF Ready, Has, FfsFrame, OfMode, Saved, Shows, Active, Modest, Alone, Fits, Stops, Doings,
           GStarts, GEnds, FStarts, FEnds, GadgetNoSession, FfsNoSession
<1>12. ASSUME Alone PROVE (OfAll(doing[t], loc[t]))'
  <2>1. OfAll("fStop", l) /\ OfMode("functionfs", "fStop", l)
    BY <1>1, <1>12 DEF Knows, Ready, Fits, GStarts, GEnds, FStarts, FEnds, Types, AppTypes
  <2>2. (StopsWell(doing[t], loc[t]))'
    BY <2>1, <1>2, <1>1, <1>3, <1>5
       DEF Ready, Has, FfsFrame, OfAll, StopsWell, Gone, Left, Fits, Stops, GStarts, GEnds,
           FStarts, FEnds
  <2>3. (faults <= 1 => StartsWell(doing[t], loc[t]))'
    BY <2>1, <1>2, <1>1, <1>3, <1>5
       DEF Ready, Has, FfsFrame, OfAll, OfMode, Saved, Active, StopsWell, Gone, Left, StartsWell,
           LinkedRight, IsLinked, Fits, Stops, GStarts, GEnds, FStarts, FEnds, GadgetNoSession,
           FfsNoSession
  <2>4. (faults <= 1 /\ crashes = 0 => LinkedRight(doing[t]))'
    BY <2>1, <1>2, <1>1, <1>3, <1>5
       DEF Ready, Has, FfsFrame, OfAll, OfMode, Saved, Active, StopsWell, StartsWell, Gone, Left,
           LinkedRight, Fits, GStarts, GEnds, FStarts, FEnds
  <2>5. (faults = 0 /\ crashes = 0 => Exported(doing[t], loc[t]))'
    BY <2>1, <1>2, <1>1, <1>3, <1>5
       DEF Ready, Has, FfsFrame, OfAll, OfMode, Saved, Active, StopsWell, StartsWell, Exported,
           LinkedRight, Fits, UnboundAt, GStarts, GEnds, FStarts, FEnds, GadgetNoSession,
           FfsNoSession
  <2> QED
    BY <2>2, <2>3, <2>4, <2>5 DEF OfAll
<1> QED
  BY <1>2, <1>1, <1>3, <1>5, <1>6, <1>10, <1>11, <1>12, <1>9, <1>7
     DEF Kept, Knows, Ready, Has, FfsFrame, Fits, Types, Alone, GStarts, GEnds, FStarts, FEnds

LEMMA FStopUnbindKeeps ==
    ASSUME NEW t \in Threads, Types, Knows(t), FStopUnbind(t), FfsFrame
    PROVE  Kept(t)
<1> DEFINE l == loc[t]
<1>1. Ready(t, l, "fStopUnbind")
  BY DEF Ready, FStopUnbind, Types, AppTypes, CountTypes, KernelTypes, Knows
<1> HIDE DEF l
<1>2. PICK q, l2 : doing'[t] = q /\ loc'[t] = l2
  OBVIOUS
<1>3. UNCHANGED <<fDir, fLink, mounted, native, fSess>> /\ FfsFrame
  BY DEF FStopUnbind, UnbindAnyway, Bad, ffsVars
<1>4. \/ ~udc' /\ q = "fStopNative" /\ Has(l2, l, l.orig, l.image, l.bad, l.hit, l.ok)
         /\ faults' = faults
      \/ (udc' <=> udc) /\ q = "fStopNative" /\ Has(l2, l, l.orig, l.image, l.bad, TRUE, l.ok)
         /\ faults' = faults + 1
      \/ (udc' <=> udc) /\ q = "fStopNative" /\ Has(l2, l, l.orig, l.image, TRUE, TRUE, l.ok)
         /\ faults' = faults + 1
  <2>1. Moves(t, l, q, l2) /\ l \in Locals /\ loc[t] = l
    BY <1>2, <1>1, Movement DEF Ready
  <2> QED
    BY <2>1, <1>1 DEF FStopUnbind, UnbindAnyway, ffsVars, Moves, Has, Ready
<1>5. KernelTypes'
  BY DEF FStopUnbind, UnbindAnyway, Bad, ffsVars, FfsFrame, Types, KernelTypes
<1>6. SessionTypes'
  <2>1. GadgetNoSession \in GSessions /\ FfsNoSession \in FSessions
    BY DEF GSessions, FSessions, GadgetNoSession, FfsNoSession
  <2> QED
    BY <2>1, <1>1, <1>3
       DEF FStopUnbind, UnbindAnyway, Bad, ffsVars, Ready, FfsFrame, Types, SessionTypes, Locals
<1>7. \E q0 \in Places, x \in Locals : Works(t, q0, x) \/ Fails(t, q0, x)
  <2>1. Moves(t, l, q, l2) /\ l \in Locals /\ loc[t] = l
    BY <1>2, <1>1, Movement DEF Ready
  <2> QED
    BY <1>1, <2>1
       DEF FStopUnbind, UnbindAnyway, ffsVars, Moves, Has, Ready, Locals, Types, KernelTypes,
           SessionTypes, GSessions, FSessions, Places, GStarts, GEnds, FStarts, FEnds
<1>8. CountTypes' /\ AppTypes' /\ faults <= faults'
       /\ \A u \in Threads \ {t} : doing'[u] = doing[u] /\ loc'[u] = loc[u]
  BY <1>3, <1>7, Moving DEF FfsFrame, Types, CountTypes, AppTypes, Alone
<1>9. (Fits(doing[t], loc[t]))'
  BY <1>2, <1>1, <1>4 DEF Ready, Has, Fits, GStarts, GEnds, FStarts, FEnds
<1>10. ASSUME "functionfs" \notin overlap PROVE (OfMode("functionfs", doing[t], loc[t]))'
  <2>1. OfMode("functionfs", "fStopUnbind", l)
    BY <1>1, <1>10 DEF Knows, Ready, Fits, GStarts, GEnds, FStarts, FEnds
  <2> QED
    BY <2>1, <1>2, <1>1, <1>3, <1>4
       DEF Ready, Has, FfsFrame, OfMode, Saved, Shows, Active, Modest, Alone, Fits, Stops, Doings,
           GStarts, GEnds, FStarts, FEnds, GadgetNoSession, FfsNoSession
<1>11. ASSUME Alone PROVE (OfAll(doing[t], loc[t]))'
  <2>1. OfAll("fStopUnbind", l) /\ OfMode("functionfs", "fStopUnbind", l)
    BY <1>1, <1>11 DEF Knows, Ready, Fits, GStarts, GEnds, FStarts, FEnds, Types, AppTypes
  <2>2. (StopsWell(doing[t], loc[t]))'
    BY <2>1, <1>2, <1>1, <1>3, <1>4
       DEF Ready, Has, FfsFrame, OfAll, StopsWell, Gone, Left, Fits, Stops, GStarts, GEnds,
           FStarts, FEnds
  <2>3. (faults <= 1 => StartsWell(doing[t], loc[t]))'
    BY <2>1, <1>2, <1>1, <1>3, <1>4
       DEF Ready, Has, FfsFrame, OfAll, OfMode, Saved, Active, StopsWell, Gone, Left, StartsWell,
           LinkedRight, IsLinked, Fits, Stops, GStarts, GEnds, FStarts, FEnds, GadgetNoSession,
           FfsNoSession
  <2>4. (faults <= 1 /\ crashes = 0 => LinkedRight(doing[t]))'
    BY <2>1, <1>2, <1>1, <1>3, <1>4
       DEF Ready, Has, FfsFrame, OfAll, OfMode, Saved, Active, StopsWell, StartsWell, Gone, Left,
           LinkedRight, Fits, GStarts, GEnds, FStarts, FEnds
  <2>5. (faults = 0 /\ crashes = 0 => Exported(doing[t], loc[t]))'
    BY <2>1, <1>2, <1>1, <1>3, <1>4
       DEF Ready, Has, FfsFrame, OfAll, OfMode, Saved, Active, StopsWell, StartsWell, Exported,
           LinkedRight, Fits, UnboundAt, GStarts, GEnds, FStarts, FEnds, GadgetNoSession,
           FfsNoSession
  <2> QED
    BY <2>2, <2>3, <2>4, <2>5 DEF OfAll
<1> QED
  BY <1>2, <1>1, <1>3, <1>4, <1>5, <1>9, <1>10, <1>11, <1>8, <1>6
     DEF Kept, Knows, Ready, Has, FfsFrame, Fits, Types, Alone, GStarts, GEnds, FStarts, FEnds

LEMMA FStopNativeKeeps ==
    ASSUME NEW t \in Threads, Types, Knows(t), FStopNative(t), FfsFrame
    PROVE  Kept(t)
<1> DEFINE l == loc[t]
<1>1. Ready(t, l, "fStopNative")
  BY DEF Ready, FStopNative, Types, AppTypes, CountTypes, KernelTypes, Knows
<1> HIDE DEF l
<1>2. PICK q, l2 : doing'[t] = q /\ loc'[t] = l2
  OBVIOUS
<1>3. UNCHANGED <<udc, fDir, fLink, mounted, fSess>> /\ FfsFrame
  BY DEF FStopNative, ffsVars
<1>4. ~native' /\ q = "fRemove" /\ Has(l2, l, l.orig, l.image, l.bad, l.hit, l.ok)
       /\ faults' = faults
  <2>1. Moves(t, l, q, l2) /\ l \in Locals /\ loc[t] = l
    BY <1>2, <1>1, Movement DEF Ready
  <2> QED
    BY <2>1, <1>1 DEF FStopNative, ffsVars, Moves, Has, Ready
<1>5. KernelTypes'
  BY DEF FStopNative, ffsVars, FfsFrame, Types, KernelTypes
<1>6. SessionTypes'
  <2>1. GadgetNoSession \in GSessions /\ FfsNoSession \in FSessions
    BY DEF GSessions, FSessions, GadgetNoSession, FfsNoSession
  <2> QED
    BY <2>1, <1>1, <1>3 DEF FStopNative, ffsVars, Ready, FfsFrame, Types, SessionTypes, Locals
<1>7. \E q0 \in Places, x \in Locals : Works(t, q0, x) \/ Fails(t, q0, x)
  <2>1. Moves(t, l, q, l2) /\ l \in Locals /\ loc[t] = l
    BY <1>2, <1>1, Movement DEF Ready
  <2> QED
    BY <1>1, <2>1
       DEF FStopNative, ffsVars, Moves, Has, Ready, Locals, Types, KernelTypes, SessionTypes,
           GSessions, FSessions, Places, GStarts, GEnds, FStarts, FEnds
<1>8. CountTypes' /\ AppTypes' /\ faults <= faults'
       /\ \A u \in Threads \ {t} : doing'[u] = doing[u] /\ loc'[u] = loc[u]
  BY <1>3, <1>7, Moving DEF FfsFrame, Types, CountTypes, AppTypes, Alone
<1>9. (Fits(doing[t], loc[t]))'
  BY <1>2, <1>1, <1>4 DEF Ready, Has, Fits, GStarts, GEnds, FStarts, FEnds
<1>10. ASSUME "functionfs" \notin overlap PROVE (OfMode("functionfs", doing[t], loc[t]))'
  <2>1. OfMode("functionfs", "fStopNative", l)
    BY <1>1, <1>10 DEF Knows, Ready, Fits, GStarts, GEnds, FStarts, FEnds
  <2> QED
    BY <2>1, <1>2, <1>1, <1>3, <1>4
       DEF Ready, Has, FfsFrame, OfMode, Saved, Shows, Active, Modest, Alone, Fits, Stops, Doings,
           GStarts, GEnds, FStarts, FEnds, GadgetNoSession, FfsNoSession
<1>11. ASSUME Alone PROVE (OfAll(doing[t], loc[t]))'
  <2>1. OfAll("fStopNative", l) /\ OfMode("functionfs", "fStopNative", l)
    BY <1>1, <1>11 DEF Knows, Ready, Fits, GStarts, GEnds, FStarts, FEnds, Types, AppTypes
  <2>2. (StopsWell(doing[t], loc[t]))'
    BY <2>1, <1>2, <1>1, <1>3, <1>4
       DEF Ready, Has, FfsFrame, OfAll, StopsWell, Gone, Left, Fits, Stops, GStarts, GEnds,
           FStarts, FEnds
  <2>3. (faults <= 1 => StartsWell(doing[t], loc[t]))'
    BY <2>1, <1>2, <1>1, <1>3, <1>4
       DEF Ready, Has, FfsFrame, OfAll, OfMode, Saved, Active, StopsWell, Gone, Left, StartsWell,
           LinkedRight, IsLinked, Fits, Stops, GStarts, GEnds, FStarts, FEnds, GadgetNoSession,
           FfsNoSession
  <2>4. (faults <= 1 /\ crashes = 0 => LinkedRight(doing[t]))'
    BY <2>1, <1>2, <1>1, <1>3, <1>4
       DEF Ready, Has, FfsFrame, OfAll, OfMode, Saved, Active, StopsWell, StartsWell, Gone, Left,
           LinkedRight, Fits, GStarts, GEnds, FStarts, FEnds
  <2>5. (faults = 0 /\ crashes = 0 => Exported(doing[t], loc[t]))'
    BY <2>1, <1>2, <1>1, <1>3, <1>4
       DEF Ready, Has, FfsFrame, OfAll, OfMode, Saved, Active, StopsWell, StartsWell, Exported,
           LinkedRight, Fits, UnboundAt, GStarts, GEnds, FStarts, FEnds, GadgetNoSession,
           FfsNoSession
  <2> QED
    BY <2>2, <2>3, <2>4, <2>5 DEF OfAll
<1> QED
  BY <1>2, <1>1, <1>3, <1>4, <1>5, <1>9, <1>10, <1>11, <1>8, <1>6
     DEF Kept, Knows, Ready, Has, FfsFrame, Fits, Types, Alone, GStarts, GEnds, FStarts, FEnds

LEMMA FRemoveKeeps ==
    ASSUME NEW t \in Threads, Types, Knows(t), FRemove(t), FfsFrame
    PROVE  Kept(t)
<1> DEFINE l == loc[t]
<1>1. Ready(t, l, "fRemove")
  BY DEF Ready, FRemove, Types, AppTypes, CountTypes, KernelTypes, Knows
<1> HIDE DEF l
<1>2. PICK q, l2 : doing'[t] = q /\ loc'[t] = l2
  OBVIOUS
<1>3. UNCHANGED <<mounted, native, fSess>> /\ FfsFrame
  BY DEF FRemove, Bad, ffsVars, UdcWithout
<1>4. \/ q = "fStopMount" /\ Has(l2, l, l.orig, l.image, l.bad, l.hit, l.ok) /\ faults' = faults
         /\ (udc' <=> udc /\ ~fLink) /\ ~fLink' /\ ~fDir'
      \/ q = "fStopMount" /\ Has(l2, l, l.orig, l.image, TRUE, TRUE, l.ok)
         /\ faults' = faults + 1 /\ (udc' <=> udc) /\ (fLink' <=> fLink) /\ (fDir' <=> fDir)
      \/ q = "fStopMount" /\ Has(l2, l, l.orig, l.image, TRUE, TRUE, l.ok)
         /\ faults' = faults + 1 /\ (udc' <=> udc /\ ~fLink) /\ ~fLink' /\ (fDir' <=> fDir)
  <2>1. Moves(t, l, q, l2) /\ l \in Locals /\ loc[t] = l
    BY <1>2, <1>1, Movement DEF Ready
  <2> QED
    BY <2>1, <1>1 DEF FRemove, ffsVars, Moves, Has, UdcWithout, Ready
<1>5. KernelTypes'
  <2>1. udc' \in BOOLEAN
    BY DEF FRemove, Bad, ffsVars, UdcWithout, Types, KernelTypes
  <2>2. fLink' \in BOOLEAN
    BY DEF FRemove, Bad, ffsVars, UdcWithout, Types, KernelTypes
  <2>3. fDir' \in BOOLEAN
    BY DEF FRemove, Bad, ffsVars, UdcWithout, Types, KernelTypes
  <2>4. fLink' => fDir'
    BY <1>4 DEF Types, KernelTypes
  <2> QED
    BY <2>1, <2>2, <2>3, <2>4, <1>3, <1>4 DEF FfsFrame, Types, KernelTypes
<1>6. SessionTypes'
  <2>1. GadgetNoSession \in GSessions /\ FfsNoSession \in FSessions
    BY DEF GSessions, FSessions, GadgetNoSession, FfsNoSession
  <2> QED
    BY <2>1, <1>1, <1>3
       DEF FRemove, Bad, ffsVars, UdcWithout, Ready, FfsFrame, Types, SessionTypes, Locals
<1>7. \E q0 \in Places, x \in Locals : Works(t, q0, x) \/ Fails(t, q0, x)
  <2>1. Moves(t, l, q, l2) /\ l \in Locals /\ loc[t] = l
    BY <1>2, <1>1, Movement DEF Ready
  <2> QED
    BY <1>1, <2>1
       DEF FRemove, ffsVars, Moves, Has, UdcWithout, Ready, Locals, Types, KernelTypes,
           SessionTypes, GSessions, FSessions, Places, GStarts, GEnds, FStarts, FEnds
<1>8. CountTypes' /\ AppTypes' /\ faults <= faults'
       /\ \A u \in Threads \ {t} : doing'[u] = doing[u] /\ loc'[u] = loc[u]
  BY <1>3, <1>7, Moving DEF FfsFrame, Types, CountTypes, AppTypes, Alone
<1>9. (Fits(doing[t], loc[t]))'
  BY <1>2, <1>1, <1>4 DEF Ready, Has, Fits, GStarts, GEnds, FStarts, FEnds
<1>10. ASSUME "functionfs" \notin overlap PROVE (OfMode("functionfs", doing[t], loc[t]))'
  <2>1. OfMode("functionfs", "fRemove", l)
    BY <1>1, <1>10 DEF Knows, Ready, Fits, GStarts, GEnds, FStarts, FEnds
  <2> QED
    BY <2>1, <1>2, <1>1, <1>3, <1>4
       DEF Ready, Has, FfsFrame, OfMode, Saved, Shows, Active, Modest, Alone, Fits, Stops, Doings,
           GStarts, GEnds, FStarts, FEnds, GadgetNoSession, FfsNoSession
<1>11. ASSUME Alone PROVE (OfAll(doing[t], loc[t]))'
  <2>1. OfAll("fRemove", l) /\ OfMode("functionfs", "fRemove", l)
    BY <1>1, <1>11 DEF Knows, Ready, Fits, GStarts, GEnds, FStarts, FEnds, Types, AppTypes
  <2>2. (StopsWell(doing[t], loc[t]))'
    BY <2>1, <1>2, <1>1, <1>3, <1>4
       DEF Ready, Has, FfsFrame, OfAll, StopsWell, Gone, Left, Fits, Stops, GStarts, GEnds,
           FStarts, FEnds
  <2>3. (faults <= 1 => StartsWell(doing[t], loc[t]))'
    BY <2>1, <1>2, <1>1, <1>3, <1>4
       DEF Ready, Has, FfsFrame, OfAll, OfMode, Saved, Active, StopsWell, Gone, Left, StartsWell,
           LinkedRight, IsLinked, Fits, Stops, GStarts, GEnds, FStarts, FEnds, GadgetNoSession,
           FfsNoSession
  <2>4. (faults <= 1 /\ crashes = 0 => LinkedRight(doing[t]))'
    BY <2>1, <1>2, <1>1, <1>3, <1>4
       DEF Ready, Has, FfsFrame, OfAll, OfMode, Saved, Active, StopsWell, StartsWell, Gone, Left,
           LinkedRight, Fits, GStarts, GEnds, FStarts, FEnds
  <2>5. (faults = 0 /\ crashes = 0 => Exported(doing[t], loc[t]))'
    BY <2>1, <1>2, <1>1, <1>3, <1>4
       DEF Ready, Has, FfsFrame, OfAll, OfMode, Saved, Active, StopsWell, StartsWell, Exported,
           LinkedRight, Fits, UnboundAt, GStarts, GEnds, FStarts, FEnds, GadgetNoSession,
           FfsNoSession
  <2> QED
    BY <2>2, <2>3, <2>4, <2>5 DEF OfAll
<1> QED
  BY <1>2, <1>1, <1>3, <1>4, <1>5, <1>9, <1>10, <1>11, <1>8, <1>6
     DEF Kept, Knows, Ready, Has, FfsFrame, Fits, Types, Alone, GStarts, GEnds, FStarts, FEnds

LEMMA FStopMountKeeps ==
    ASSUME NEW t \in Threads, Types, Knows(t), FStopMount(t), FfsFrame
    PROVE  Kept(t)
<1> DEFINE l == loc[t]
<1>1. Ready(t, l, "fStopMount")
  BY DEF Ready, FStopMount, Types, AppTypes, CountTypes, KernelTypes, Knows
<1> HIDE DEF l
<1>2. PICK q, l2 : doing'[t] = q /\ loc'[t] = l2
  OBVIOUS
<1>3. UNCHANGED <<udc, fDir, fLink, native, fSess>> /\ FfsFrame
  BY DEF FStopMount, Unmounts, ffsVars
<1>4. \/ q = "fStopBind" /\ Has(l2, l, l.orig, l.image, l.bad, l.hit, l.ok) /\ faults' = faults
         /\ (mounted' <=> mounted /\ ~l.mounts)
      \/ q = "fStopBind" /\ Has(l2, l, l.orig, l.image, l.bad, TRUE, l.ok)
         /\ faults' = faults + 1 /\ (mounted' <=> mounted)
  <2>1. Moves(t, l, q, l2) /\ l \in Locals /\ loc[t] = l
    BY <1>2, <1>1, Movement DEF Ready
  <2> QED
    BY <2>1, <1>1 DEF FStopMount, Unmounts, ffsVars, Moves, Has, Ready
<1>5. KernelTypes'
  <2>1. mounted' \in BOOLEAN
    BY DEF FStopMount, Unmounts, ffsVars, Types, KernelTypes
  <2> QED
    BY <2>1, <1>3, <1>4 DEF FfsFrame, Types, KernelTypes
<1>6. SessionTypes'
  <2>1. GadgetNoSession \in GSessions /\ FfsNoSession \in FSessions
    BY DEF GSessions, FSessions, GadgetNoSession, FfsNoSession
  <2> QED
    BY <2>1, <1>1, <1>3
       DEF FStopMount, Unmounts, ffsVars, Ready, FfsFrame, Types, SessionTypes, Locals
<1>7. \E q0 \in Places, x \in Locals : Works(t, q0, x) \/ Fails(t, q0, x)
  <2>1. Moves(t, l, q, l2) /\ l \in Locals /\ loc[t] = l
    BY <1>2, <1>1, Movement DEF Ready
  <2> QED
    BY <1>1, <2>1
       DEF FStopMount, Unmounts, ffsVars, Moves, Has, Ready, Locals, Types, KernelTypes,
           SessionTypes, GSessions, FSessions, Places, GStarts, GEnds, FStarts, FEnds
<1>8. CountTypes' /\ AppTypes' /\ faults <= faults'
       /\ \A u \in Threads \ {t} : doing'[u] = doing[u] /\ loc'[u] = loc[u]
  BY <1>3, <1>7, Moving DEF FfsFrame, Types, CountTypes, AppTypes, Alone
<1>9. (Fits(doing[t], loc[t]))'
  BY <1>2, <1>1, <1>4 DEF Ready, Has, Fits, GStarts, GEnds, FStarts, FEnds
<1>10. ASSUME "functionfs" \notin overlap PROVE (OfMode("functionfs", doing[t], loc[t]))'
  <2>1. OfMode("functionfs", "fStopMount", l)
    BY <1>1, <1>10 DEF Knows, Ready, Fits, GStarts, GEnds, FStarts, FEnds
  <2> QED
    BY <2>1, <1>2, <1>1, <1>3, <1>4
       DEF Ready, Has, FfsFrame, OfMode, Saved, Shows, Active, Modest, Alone, Fits, Stops, Doings,
           GStarts, GEnds, FStarts, FEnds, GadgetNoSession, FfsNoSession
<1>11. ASSUME Alone PROVE (OfAll(doing[t], loc[t]))'
  <2>1. OfAll("fStopMount", l) /\ OfMode("functionfs", "fStopMount", l)
    BY <1>1, <1>11 DEF Knows, Ready, Fits, GStarts, GEnds, FStarts, FEnds, Types, AppTypes
  <2>2. (StopsWell(doing[t], loc[t]))'
    BY <2>1, <1>2, <1>1, <1>3, <1>4
       DEF Ready, Has, FfsFrame, OfAll, StopsWell, Gone, Left, Fits, Stops, GStarts, GEnds,
           FStarts, FEnds
  <2>3. (faults <= 1 => StartsWell(doing[t], loc[t]))'
    BY <2>1, <1>2, <1>1, <1>3, <1>4
       DEF Ready, Has, FfsFrame, OfAll, OfMode, Saved, Active, StopsWell, Gone, Left, StartsWell,
           LinkedRight, IsLinked, Fits, Stops, GStarts, GEnds, FStarts, FEnds, GadgetNoSession,
           FfsNoSession
  <2>4. (faults <= 1 /\ crashes = 0 => LinkedRight(doing[t]))'
    BY <2>1, <1>2, <1>1, <1>3, <1>4
       DEF Ready, Has, FfsFrame, OfAll, OfMode, Saved, Active, StopsWell, StartsWell, Gone, Left,
           LinkedRight, Fits, GStarts, GEnds, FStarts, FEnds
  <2>5. (faults = 0 /\ crashes = 0 => Exported(doing[t], loc[t]))'
    BY <2>1, <1>2, <1>1, <1>3, <1>4
       DEF Ready, Has, FfsFrame, OfAll, OfMode, Saved, Active, StopsWell, StartsWell, Exported,
           LinkedRight, Fits, UnboundAt, GStarts, GEnds, FStarts, FEnds, GadgetNoSession,
           FfsNoSession
  <2> QED
    BY <2>2, <2>3, <2>4, <2>5 DEF OfAll
<1> QED
  BY <1>2, <1>1, <1>3, <1>4, <1>5, <1>9, <1>10, <1>11, <1>8, <1>6
     DEF Kept, Knows, Ready, Has, FfsFrame, Fits, Types, Alone, GStarts, GEnds, FStarts, FEnds

LEMMA FStopBindKeeps ==
    ASSUME NEW t \in Threads, Types, Knows(t), FStopBind(t), FfsFrame
    PROVE  Kept(t)
<1> DEFINE l == loc[t]
<1>1. Ready(t, l, "fStopBind")
  BY DEF Ready, FStopBind, Types, AppTypes, CountTypes, KernelTypes, Knows
<1> HIDE DEF l
<1>2. PICK q, l2 : doing'[t] = q /\ loc'[t] = l2
  OBVIOUS
<1>3. UNCHANGED <<fDir, fLink, mounted, native, fSess>> /\ FfsFrame
  BY DEF FStopBind, Restore, Bad, ffsVars
<1>4. \/ ~l.orig /\ (udc' <=> udc) /\ q = "fClear"
         /\ Has(l2, l, l.orig, l.image, l.bad, l.hit, l.ok) /\ faults' = faults
      \/ l.orig /\ ~udc /\ udc' /\ q = "fClear"
         /\ Has(l2, l, l.orig, l.image, l.bad, l.hit, l.ok) /\ faults' = faults
      \/ l.orig /\ udc /\ (udc' <=> udc) /\ q = "fClear"
         /\ Has(l2, l, l.orig, l.image, TRUE, l.hit, l.ok) /\ faults' = faults
      \/ l.orig /\ (udc' <=> udc) /\ q = "fClear"
         /\ Has(l2, l, l.orig, l.image, TRUE, TRUE, l.ok) /\ faults' = faults + 1
  <2>1. Moves(t, l, q, l2) /\ l \in Locals /\ loc[t] = l
    BY <1>2, <1>1, Movement DEF Ready
  <2> QED
    BY <2>1, <1>1 DEF FStopBind, Restore, ffsVars, Moves, Has, Ready
<1>5. KernelTypes'
  BY DEF FStopBind, Restore, Bad, ffsVars, FfsFrame, Types, KernelTypes
<1>6. SessionTypes'
  <2>1. GadgetNoSession \in GSessions /\ FfsNoSession \in FSessions
    BY DEF GSessions, FSessions, GadgetNoSession, FfsNoSession
  <2> QED
    BY <2>1, <1>1, <1>3
       DEF FStopBind, Restore, Bad, ffsVars, Ready, FfsFrame, Types, SessionTypes, Locals
<1>7. \E q0 \in Places, x \in Locals : Works(t, q0, x) \/ Fails(t, q0, x)
  <2>1. Moves(t, l, q, l2) /\ l \in Locals /\ loc[t] = l
    BY <1>2, <1>1, Movement DEF Ready
  <2> QED
    BY <1>1, <2>1
       DEF FStopBind, Restore, ffsVars, Moves, Has, Ready, Locals, Types, KernelTypes,
           SessionTypes, GSessions, FSessions, Places, GStarts, GEnds, FStarts, FEnds
<1>8. CountTypes' /\ AppTypes' /\ faults <= faults'
       /\ \A u \in Threads \ {t} : doing'[u] = doing[u] /\ loc'[u] = loc[u]
  BY <1>3, <1>7, Moving DEF FfsFrame, Types, CountTypes, AppTypes, Alone
<1>9. (Fits(doing[t], loc[t]))'
  BY <1>2, <1>1, <1>4 DEF Ready, Has, Fits, GStarts, GEnds, FStarts, FEnds
<1>10. ASSUME "functionfs" \notin overlap PROVE (OfMode("functionfs", doing[t], loc[t]))'
  <2>1. OfMode("functionfs", "fStopBind", l)
    BY <1>1, <1>10 DEF Knows, Ready, Fits, GStarts, GEnds, FStarts, FEnds
  <2> QED
    BY <2>1, <1>2, <1>1, <1>3, <1>4
       DEF Ready, Has, FfsFrame, OfMode, Saved, Shows, Active, Modest, Alone, Fits, Stops, Doings,
           GStarts, GEnds, FStarts, FEnds, GadgetNoSession, FfsNoSession
<1>11. ASSUME Alone PROVE (OfAll(doing[t], loc[t]))'
  <2>1. OfAll("fStopBind", l) /\ OfMode("functionfs", "fStopBind", l)
    BY <1>1, <1>11 DEF Knows, Ready, Fits, GStarts, GEnds, FStarts, FEnds, Types, AppTypes
  <2>2. (StopsWell(doing[t], loc[t]))'
    BY <2>1, <1>2, <1>1, <1>3, <1>4
       DEF Ready, Has, FfsFrame, OfAll, StopsWell, Gone, Left, Fits, Stops, GStarts, GEnds,
           FStarts, FEnds
  <2>3. (faults <= 1 => StartsWell(doing[t], loc[t]))'
    BY <2>1, <1>2, <1>1, <1>3, <1>4
       DEF Ready, Has, FfsFrame, OfAll, OfMode, Saved, Active, StopsWell, Gone, Left, StartsWell,
           LinkedRight, IsLinked, Fits, Stops, GStarts, GEnds, FStarts, FEnds, GadgetNoSession,
           FfsNoSession
  <2>4. (faults <= 1 /\ crashes = 0 => LinkedRight(doing[t]))'
    BY <2>1, <1>2, <1>1, <1>3, <1>4
       DEF Ready, Has, FfsFrame, OfAll, OfMode, Saved, Active, StopsWell, StartsWell, Gone, Left,
           LinkedRight, Fits, GStarts, GEnds, FStarts, FEnds
  <2>5. (faults = 0 /\ crashes = 0 => Exported(doing[t], loc[t]))'
    BY <2>1, <1>2, <1>1, <1>3, <1>4
       DEF Ready, Has, FfsFrame, OfAll, OfMode, Saved, Active, StopsWell, StartsWell, Exported,
           LinkedRight, Fits, UnboundAt, GStarts, GEnds, FStarts, FEnds, GadgetNoSession,
           FfsNoSession
  <2> QED
    BY <2>2, <2>3, <2>4, <2>5 DEF OfAll
<1> QED
  BY <1>2, <1>1, <1>3, <1>4, <1>5, <1>9, <1>10, <1>11, <1>8, <1>6
     DEF Kept, Knows, Ready, Has, FfsFrame, Fits, Types, Alone, GStarts, GEnds, FStarts, FEnds

LEMMA FClearKeeps ==
    ASSUME NEW t \in Threads, Types, Knows(t), FClear(t), FfsFrame
    PROVE  Kept(t)
<1> DEFINE l == loc[t]
<1>1. Ready(t, l, "fClear")
  BY DEF Ready, FClear, Types, AppTypes, CountTypes, KernelTypes, Knows
<1> HIDE DEF l
<1>2. PICK q, l2 : doing'[t] = q /\ loc'[t] = l2
  OBVIOUS
<1>3. UNCHANGED <<udc, fDir, fLink, mounted, native>> /\ FfsFrame
  BY DEF FClear, Returns, ffsVars, Asked
<1>4. /\ IF l.bad THEN UNCHANGED fSess ELSE fSess' = FfsNoSession
      /\ q = "done" /\ Has(l2, l, l.orig, l.image, l.bad, l.hit, ~l.bad /\ l.kind # "start")
         /\ faults' = faults
  <2>1. Moves(t, l, q, l2) /\ l \in Locals /\ loc[t] = l
    BY <1>2, <1>1, Movement DEF Ready
  <2> QED
    BY <2>1, <1>1 DEF FClear, ffsVars, Moves, Has, Asked, Ready
<1>5. KernelTypes'
  BY DEF FClear, Returns, ffsVars, Asked, FfsFrame, Types, KernelTypes
<1>6. SessionTypes'
  <2>1. GadgetNoSession \in GSessions /\ FfsNoSession \in FSessions
    BY DEF GSessions, FSessions, GadgetNoSession, FfsNoSession
  <2> QED
    BY <2>1, <1>1, <1>3
       DEF FClear, Returns, ffsVars, Asked, Ready, FfsFrame, Types, SessionTypes, Locals
<1>7. \E q0 \in Places, x \in Locals : Works(t, q0, x) \/ Fails(t, q0, x)
  <2>1. Moves(t, l, q, l2) /\ l \in Locals /\ loc[t] = l
    BY <1>2, <1>1, Movement DEF Ready
  <2> QED
    BY <1>1, <2>1
       DEF FClear, ffsVars, Moves, Has, Asked, Ready, Locals, Types, KernelTypes, SessionTypes,
           GSessions, FSessions, Places, GStarts, GEnds, FStarts, FEnds
<1>8. CountTypes' /\ AppTypes' /\ faults <= faults'
       /\ \A u \in Threads \ {t} : doing'[u] = doing[u] /\ loc'[u] = loc[u]
  BY <1>3, <1>7, Moving DEF FfsFrame, Types, CountTypes, AppTypes, Alone
<1>9. (Fits(doing[t], loc[t]))'
  BY <1>2, <1>1, <1>4 DEF Ready, Has, Fits, GStarts, GEnds, FStarts, FEnds
<1>10. ASSUME "functionfs" \notin overlap PROVE (OfMode("functionfs", doing[t], loc[t]))'
  <2>1. OfMode("functionfs", "fClear", l)
    BY <1>1, <1>10 DEF Knows, Ready, Fits, GStarts, GEnds, FStarts, FEnds
  <2> QED
    BY <2>1, <1>2, <1>1, <1>3, <1>4
       DEF Ready, Has, FfsFrame, OfMode, Saved, Shows, Active, Modest, Alone, Fits, Stops, Doings,
           GStarts, GEnds, FStarts, FEnds, GadgetNoSession, FfsNoSession
<1>11. ASSUME Alone PROVE (OfAll(doing[t], loc[t]))'
  <2>1. OfAll("fClear", l) /\ OfMode("functionfs", "fClear", l)
    BY <1>1, <1>11 DEF Knows, Ready, Fits, GStarts, GEnds, FStarts, FEnds, Types, AppTypes
  <2>2. (StopsWell(doing[t], loc[t]))'
    BY <2>1, <1>2, <1>1, <1>3, <1>4
       DEF Ready, Has, FfsFrame, OfAll, StopsWell, Gone, Left, Fits, Stops, GStarts, GEnds,
           FStarts, FEnds
  <2>3. (faults <= 1 => StartsWell(doing[t], loc[t]))'
    BY <2>1, <1>2, <1>1, <1>3, <1>4
       DEF Ready, Has, FfsFrame, OfAll, OfMode, Saved, Active, StopsWell, Gone, Left, StartsWell,
           LinkedRight, IsLinked, Fits, Stops, GStarts, GEnds, FStarts, FEnds, GadgetNoSession,
           FfsNoSession
  <2>4. (faults <= 1 /\ crashes = 0 => LinkedRight(doing[t]))'
    BY <2>1, <1>2, <1>1, <1>3, <1>4
       DEF Ready, Has, FfsFrame, OfAll, OfMode, Saved, Active, StopsWell, StartsWell, Gone, Left,
           LinkedRight, Fits, GStarts, GEnds, FStarts, FEnds
  <2>5. (faults = 0 /\ crashes = 0 => Exported(doing[t], loc[t]))'
    BY <2>1, <1>2, <1>1, <1>3, <1>4
       DEF Ready, Has, FfsFrame, OfAll, OfMode, Saved, Active, StopsWell, StartsWell, Exported,
           LinkedRight, Fits, UnboundAt, GStarts, GEnds, FStarts, FEnds, GadgetNoSession,
           FfsNoSession
  <2> QED
    BY <2>2, <2>3, <2>4, <2>5 DEF OfAll
<1> QED
  BY <1>2, <1>1, <1>3, <1>4, <1>5, <1>9, <1>10, <1>11, <1>8, <1>6
     DEF Kept, Knows, Ready, Has, FfsFrame, Fits, Types, Alone, GStarts, GEnds, FStarts, FEnds

-----------------------------------------------------------------------------
\* What is known of a mode that a step leaves alone stays known.
LEMMA ModeAlone ==
    ASSUME Types, Types', NEW m \in Modes, NEW p, NEW l, OfMode(m, p, l), shown'[m] = shown[m],
           p \notin FStarts \cup FEnds \/ (native' <=> native),
           Active(m)' <=> Active(m), UNCHANGED crashes, overlap \subseteq overlap',
           faults <= faults'
    PROVE  OfMode(m, p, l)'
<1>1. faults \in Nat /\ faults' \in Nat
  BY DEF Types, CountTypes
<1>2. Modest' => Modest
  BY <1>1 DEF Modest, Alone
<1>3. Saved(m, p, l)'
  BY <1>1 DEF OfMode, Saved, FStarts, FEnds
<1>4. Shows(m, p, l)'
  BY <1>2 DEF OfMode, Shows
<1> QED
  BY <1>3, <1>4 DEF OfMode

LEMMA ThreadKnown ==
    ASSUME SessionInv, NEW t \in Threads, Busy(t)
    PROVE  Types /\ Knows(t)
<1>1. Fits(doing[t], loc[t]) /\ loc[t].mode \in Modes
  BY DEF SessionInv, ThreadInv, Fits, Busy
<1>2. loc[t].mode \notin overlap => OfMode(loc[t].mode, doing[t], loc[t])
  BY <1>1 DEF SessionInv, ModeInv, AtWork
<1> QED
  BY <1>1, <1>2 DEF SessionInv, AloneInv, Knows

LEMMA StepKeeps ==
    ASSUME SessionInv, NEW t \in Threads, Kept(t)
    PROVE  SessionInv'
<1>1. /\ Types /\ OneAtATime /\ ThreadInv /\ ModeInv /\ AloneInv
      /\ Types' /\ (Knows(t))' /\ UNCHANGED <<shown, overlap, crashes>> /\ faults <= faults'
  BY DEF SessionInv, Kept, Types, CountTypes
<1>2. /\ Busy(t) /\ (Busy(t))' /\ loc'[t].mode = loc[t].mode
      /\ \A u \in Threads \ {t} : doing'[u] = doing[u] /\ loc'[u] = loc[u]
  BY DEF Kept, Busy
<1>3. \A u \in Threads : (Busy(u) <=> (Busy(u))') /\ loc'[u].mode = loc[u].mode
  BY <1>2 DEF Busy
<1>4. \A m : \A u \in Threads : AtWork(u, m) <=> (AtWork(u, m))'
  BY <1>3 DEF AtWork
<1>5. OneAtATime'
  BY <1>1, <1>3, <1>4 DEF OneAtATime, Alone
<1>6. ThreadInv'
  BY <1>1, <1>2 DEF ThreadInv, Knows
<1>7. ASSUME NEW m \in Modes \ overlap
      PROVE  /\ \A u \in Threads : (AtWork(u, m) => OfMode(m, doing[u], loc[u]))'
             /\ (\A u \in Threads : ~(AtWork(u, m))') => (OfMode(m, "idle", NoLocals))'
  <2>1. CASE m = loc[t].mode
    <3>1. \A u \in Threads : (AtWork(u, m))' => u = t
      BY <1>1, <1>2, <1>4, <1>7, <2>1 DEF OneAtATime, AtWork
    <3>2. (AtWork(t, m))' /\ (OfMode(m, doing[t], loc[t]))'
      BY <1>1, <1>2, <1>7, <2>1 DEF Knows, AtWork
    <3> QED
      BY <3>1, <3>2
  <2>2. CASE m # loc[t].mode
    <3>1. (Active(m))' <=> Active(m)
      BY <1>1, <1>2, <1>7, <2>2 DEF Active, Kept, Modes, Knows, Fits, Busy
    <3>2. m = "functionfs" => (native' <=> native)
      BY <1>1, <1>2, <1>7, <2>2 DEF Kept, Modes, Knows, Fits, Busy
    <3>3. ASSUME NEW u \in Threads, (AtWork(u, m))' PROVE (OfMode(m, doing[u], loc[u]))'
      <4>1. AtWork(u, m) /\ u # t /\ doing'[u] = doing[u] /\ loc'[u] = loc[u]
        BY <3>3, <1>2, <1>4, <2>2 DEF AtWork
      <4>2. OfMode(m, doing[u], loc[u]) /\ Fits(doing[u], loc[u]) /\ loc[u].mode = m
        BY <4>1, <1>1, <1>7 DEF ModeInv, ThreadInv, AtWork
      <4> DEFINE p == doing[u]
                 l == loc[u]
      <4>3. p \notin FStarts \cup FEnds \/ (native' <=> native)
        BY <4>2, <3>2 DEF Fits
      <4> PICK p2, l2 : p2 = doing[u] /\ l2 = loc[u]
        OBVIOUS
      <4>4. (OfMode(m, p2, l2))'
        BY <4>2, <4>3, <3>1, <1>1, <1>7, ModeAlone
      <4> QED
        BY <4>1, <4>4
    <3>4. ASSUME \A u \in Threads : ~(AtWork(u, m))' PROVE (OfMode(m, "idle", NoLocals))'
      <4>1. OfMode(m, "idle", NoLocals)
        BY <3>4, <1>1, <1>4, <1>7 DEF ModeInv
      <4>2. "idle" \notin FStarts \cup FEnds
        BY DEF FStarts, FEnds
      <4> QED
        BY <4>1, <4>2, <3>1, <1>1, <1>7, ModeAlone
    <3> QED
      BY <3>3, <3>4
  <2> QED
    BY <2>1, <2>2
<1>8. ModeInv'
  BY <1>1, <1>7 DEF ModeInv
<1>9. AloneInv'
  <2>1. SUFFICES ASSUME Alone
                 PROVE  /\ \A u \in Threads : (Busy(u))' => (OfAll(doing[u], loc[u]))'
                        /\ Quiet' => (OfAll("idle", NoLocals))'
    BY <1>1 DEF AloneInv, Alone
  <2>2. \A u \in Threads : (Busy(u))' => u = t
    BY <2>1, <1>1, <1>2, <1>3 DEF OneAtATime
  <2>3. (OfAll(doing[t], loc[t]))'
    BY <2>1, <1>1 DEF Knows, Alone
  <2> QED
    BY <2>2, <2>3, <1>2 DEF Quiet, Busy
<1> QED
  BY <1>1, <1>5, <1>6, <1>8, <1>9 DEF SessionInv

LEMMA DriversKeep ==
    ASSUME SessionInv, NEW t \in Threads, Drivers(t)
    PROVE  SessionInv'
<1>1. Busy(t)
  BY DEF Drivers, GadgetStep, FfsStep, Busy, GCheck, GCopy, GProbe, GUnbind, GConfigure, GBind,
         GSave, GCleanup, GRestore, GFailed, GStop, GStopUnbind, GDetach, GStopRestore, GClear,
         GUnstage, FCheck, FConfig, FPrepare, FNative, FBind, FSave, FVerify, FUndo, FUndoMount,
         FUndoBind, FStop, FStopUnbind, FStopNative, FRemove, FStopMount, FStopBind, FClear
<1>2. Types /\ Knows(t)
  BY <1>1, ThreadKnown
<1>3. CASE GadgetStep(t) /\ UNCHANGED ffsVars
  <2>1. GadgetFrame
    BY <1>3 DEF GadgetStep, GadgetFrame, ffsVars, Drivers
  <2>2. Kept(t)
    BY <1>2, <1>3, <2>1, GCheckKeeps, GCopyKeeps, GProbeKeeps, GUnbindKeeps, GConfigureKeeps,
       GBindKeeps, GSaveKeeps, GCleanupKeeps, GRestoreKeeps, GFailedKeeps, GStopKeeps,
       GStopUnbindKeeps, GDetachKeeps, GStopRestoreKeeps, GClearKeeps, GUnstageKeeps
       DEF GadgetStep
  <2> QED
    BY <2>2, StepKeeps
<1>4. CASE FfsStep(t) /\ UNCHANGED gadgetVars
  <2>1. FfsFrame
    BY <1>4
       DEF FfsStep, FfsFrame, ffsVars, gadgetVars, Drivers, FCheck, FConfig, FPrepare, FNative,
           FBind, FSave, FVerify, FUndo, FUndoMount, FUndoBind, FStop, FStopUnbind, FStopNative,
           FRemove, FStopMount, FStopBind, FClear
  <2>2. Kept(t)
    BY <1>2, <1>4, <2>1, FCheckKeeps, FConfigKeeps, FPrepareKeeps, FNativeKeeps, FBindKeeps,
       FSaveKeeps, FVerifyKeeps, FUndoKeeps, FUndoMountKeeps, FUndoBindKeeps, FStopKeeps,
       FStopUnbindKeeps, FStopNativeKeeps, FRemoveKeeps, FStopMountKeeps, FStopBindKeeps,
       FClearKeeps
       DEF FfsStep
  <2> QED
    BY <2>2, StepKeeps
<1> QED
  BY <1>3, <1>4 DEF Drivers

\* An idle thread t is given work for mode m; what it leaves of the others.
Launched(t, m, p, l) ==
    /\ Types' /\ t \in Threads /\ m \in Modes /\ doing[t] = "idle"
    /\ doing'[t] = p /\ loc'[t] = l /\ l.mode = m /\ p # "idle" /\ Fits(p, l)
    /\ \A u \in Threads \ {t} : doing'[u] = doing[u] /\ loc'[u] = loc[u]
    /\ \A u \in Threads \ {t} : Busy(u) => "any" \in overlap'
    /\ \A u \in Threads \ {t} : AtWork(u, m) => m \in overlap'
    /\ overlap \subseteq overlap' /\ UNCHANGED <<Kernel, crashes>>
    /\ \A n \in Modes \ {m} : shown'[n] = shown[n]
    /\ OfMode(m, "idle", NoLocals) => (OfMode(m, p, l))'
    /\ OfAll("idle", NoLocals) => (OfAll(p, l))'

LEMMA LaunchedKeeps ==
    ASSUME SessionInv, NEW t, NEW m, NEW p, NEW l, Launched(t, m, p, l)
    PROVE  SessionInv'
<1>1. /\ Types /\ OneAtATime /\ ThreadInv /\ ModeInv /\ AloneInv /\ Types'
      /\ t \in Threads /\ m \in Modes /\ doing[t] = "idle" /\ overlap \subseteq overlap'
      /\ UNCHANGED <<Kernel, crashes>>
  BY DEF SessionInv, Launched
<1>2. /\ ~Busy(t) /\ (Busy(t))' /\ loc'[t].mode = m
      /\ \A u \in Threads \ {t} : doing'[u] = doing[u] /\ loc'[u] = loc[u]
  BY DEF Launched, Busy
<1>3. \A u \in Threads \ {t} : Busy(u) <=> (Busy(u))'
  BY <1>2 DEF Busy
<1>4. \A n : \A u \in Threads \ {t} : AtWork(u, n) <=> (AtWork(u, n))'
  BY <1>2, <1>3 DEF AtWork
<1>5. \A n : (AtWork(t, n))' <=> n = m
  BY <1>2 DEF AtWork
<1>6. \A n : ~AtWork(t, n)
  BY <1>2 DEF AtWork
<1>7. (Alone)' => \A u \in Threads \ {t} : ~Busy(u)
  BY DEF Launched, Alone
<1>8. ASSUME m \notin overlap' PROVE \A u \in Threads : ~AtWork(u, m)
  BY <1>8, <1>6 DEF Launched
<1>9. OneAtATime'
  <2>1. (Alone)' => \A v, w \in Threads : (Busy(v))' /\ (Busy(w))' => v = w
    BY <1>3, <1>7
  <2>2. ASSUME NEW n \in Modes, n \notin overlap', NEW v \in Threads, NEW w \in Threads,
               (AtWork(v, n))', (AtWork(w, n))'
        PROVE  v = w
    BY <2>2, <1>1, <1>4, <1>8, <1>5 DEF OneAtATime
  <2> QED
    BY <2>1, <2>2 DEF OneAtATime
<1>10. ThreadInv'
  BY <1>1, <1>2 DEF ThreadInv, Launched
<1>11. ASSUME NEW n \in Modes, n \notin overlap'
       PROVE  /\ \A u \in Threads : (AtWork(u, n) => OfMode(n, doing[u], loc[u]))'
              /\ (\A u \in Threads : ~(AtWork(u, n))') => (OfMode(n, "idle", NoLocals))'
  <2>1. CASE n = m
    <3>1. OfMode(m, "idle", NoLocals)
      BY <1>1, <1>8, <1>11, <2>1 DEF ModeInv
    <3>2. (OfMode(n, doing[t], loc[t]))'
      BY <3>1, <2>1 DEF Launched
    <3> QED
      BY <3>2, <1>4, <1>8, <1>11, <1>5, <1>1, <2>1
  <2>2. CASE n # m
    <3>1. /\ (Active(n))' <=> Active(n)
          /\ native' <=> native
          /\ shown'[n] = shown[n] /\ faults <= faults'
      BY <1>1, <1>11, <2>2 DEF Active, Launched, Kernel, gadgetVars, ffsVars, Types, CountTypes
    <3>2. ASSUME NEW u \in Threads, (AtWork(u, n))' PROVE (OfMode(n, doing[u], loc[u]))'
      <4>1. AtWork(u, n) /\ doing'[u] = doing[u] /\ loc'[u] = loc[u]
        BY <3>2, <1>2, <1>4, <1>5, <2>2
      <4>2. OfMode(n, doing[u], loc[u])
        BY <4>1, <1>1, <1>11 DEF ModeInv
      <4> PICK p2, l2 : p2 = doing[u] /\ l2 = loc[u]
        OBVIOUS
      <4>3. (OfMode(n, p2, l2))'
        BY <4>2, <3>1, <1>1, <1>11, ModeAlone
      <4> QED
        BY <4>1, <4>3
    <3>3. ASSUME \A u \in Threads : ~(AtWork(u, n))' PROVE (OfMode(n, "idle", NoLocals))'
      <4>1. OfMode(n, "idle", NoLocals)
        BY <3>3, <1>1, <1>4, <1>11, <1>6 DEF ModeInv
      <4> QED
        BY <4>1, <3>1, <1>1, <1>11, ModeAlone
    <3> QED
      BY <3>2, <3>3
  <2> QED
    BY <2>1, <2>2
<1>12. ModeInv'
  BY <1>11 DEF ModeInv
<1>13. AloneInv'
  <2>1. ASSUME (Alone)' PROVE (OfAll(doing[t], loc[t]))'
    <3>1. Alone /\ Quiet
      BY <2>1, <1>1, <1>2, <1>7 DEF Alone, Quiet, Busy
    <3> QED
      BY <3>1, <1>1 DEF AloneInv, Launched
  <2> QED
    BY <2>1, <1>1, <1>2, <1>3, <1>7 DEF AloneInv, Quiet, Busy
<1> QED
  BY <1>1, <1>9, <1>10, <1>12, <1>13 DEF SessionInv

\* The locals of a new thread.
StartOf(m, why) == [NoLocals EXCEPT !.mode = m, !.kind = why]

LEMMA LaunchKeeps ==
    ASSUME SessionInv, NEW t \in Threads, NEW m \in Modes, NEW why \in Doings, NEW p \in Places,
           Launch(t, m, why, p), shown' \in [Modes -> {"no", "yes", "stopping"}],
           \A n \in Modes \ {m} : shown'[n] = shown[n],
           Fits(p, StartOf(m, why)), p \in {"gDocument", "gProbe", "fCheck", "gStop", "fStop"},
           why = "start" => ~Active(m) /\ shown'[m] = "yes",
           why = "uiStop" => shown'[m] = shown[m],
           p \in {"gDocument", "gProbe", "fCheck"} <=> why = "start"
    PROVE  SessionInv'
<1> PICK l : l = StartOf(m, why)
  OBVIOUS
<1>1. /\ l \in Locals /\ l.mode = m /\ l.kind = why /\ ~l.orig /\ ~l.bad /\ ~l.hit /\ ~l.ok
      /\ l.image = 0
  BY DEF StartOf, NoLocals, Locals
<1>2. /\ doing \in [Threads -> Places] /\ loc \in [Threads -> Locals]
      /\ overlap \subseteq Modes \cup {"any"}
  BY DEF SessionInv, Types, AppTypes
<1>3. /\ doing' = [doing EXCEPT ![t] = p] /\ loc' = [loc EXCEPT ![t] = l] /\ doing[t] = "idle"
      /\ UNCHANGED <<Kernel, crashes>>
  BY DEF Launch, StartOf
<1>4. \A u \in Threads \ {t} : Busy(u) => "any" \in overlap'
  BY DEF Launch, Busy
<1>5. \A u \in Threads \ {t} : AtWork(u, m) => m \in overlap'
  BY DEF Launch, AtWork, Busy
<1>6. overlap \subseteq overlap' /\ overlap' \subseteq Modes \cup {"any"}
  <2>1. \A u \in Threads : loc[u].mode \in Modes \cup {"none"}
    BY <1>2 DEF Locals
  <2>2. \A u \in Threads : doing[u] # "idle" => loc[u].mode \in Modes
    BY DEF SessionInv, ThreadInv, Fits
  <2> QED
    BY <1>2, <2>2 DEF Launch
<1>7. overlap' = overlap \/ "any" \in overlap'
  BY DEF Launch
<1>8. Types'
  <2>1. KernelTypes' /\ SessionTypes' /\ CountTypes'
    BY <1>3
       DEF SessionInv, Types, KernelTypes, SessionTypes, CountTypes, Kernel, gadgetVars, ffsVars
  <2>2. doing' \in [Threads -> Places] /\ loc' \in [Threads -> Locals]
    BY <1>1, <1>2, <1>3
  <2>3. (Alone)' => overlap' = {}
    BY <1>6, <1>7 DEF SessionInv, Types, AppTypes, Alone
  <2> QED
    BY <2>1, <2>2, <2>3, <1>6 DEF Types, AppTypes
<1>9. ASSUME OfMode(m, "idle", NoLocals) PROVE (OfMode(m, p, l))'
  <2>1. faults' = faults /\ ((Active(m))' <=> Active(m)) /\ (native' <=> native)
         /\ crashes' = crashes
    BY <1>3 DEF Kernel, gadgetVars, ffsVars, Active
  <2>2. Modest' => Modest
    BY <2>1, <1>6 DEF Modest, Alone
  <2>3. (Saved(m, p, l))'
    BY <2>1, <1>1 DEF Saved, GStarts, GEnds, FStarts, FEnds, Stops, Doings
  <2>4. (Shows(m, p, l))'
    BY <2>1, <2>2, <1>1, <1>9 DEF OfMode, Shows, Doings, Stops
  <2> QED
    BY <2>3, <2>4 DEF OfMode
<1>10. ASSUME OfAll("idle", NoLocals) PROVE (OfAll(p, l))'
  <2>1. UNCHANGED <<udc, faults, gLink, lun, gSess, fDir, fLink, mounted, native, fSess, crashes>>
    BY <1>3 DEF Kernel, gadgetVars, ffsVars
  <2>2. (StopsWell(p, l))'
    BY <2>1, <1>1, <1>10 DEF OfAll, StopsWell, Gone, Left, Stops, Doings
  <2>3. (faults <= 1 => StartsWell(p, l))'
    BY <2>1, <1>1, <1>10 DEF OfAll, StartsWell, Stops, Doings, IsLinked
  <2>4. (faults <= 1 /\ crashes = 0 => LinkedRight(p))'
    BY <2>1, <1>1, <1>10 DEF OfAll, LinkedRight
  <2>5. (faults = 0 /\ crashes = 0 => Exported(p, l))'
    BY <2>1, <1>1, <1>10 DEF OfAll, Exported, UnboundAt, GEnds, FEnds
  <2> QED
    BY <2>2, <2>3, <2>4, <2>5 DEF OfAll
<1>11. Launched(t, m, p, l)
  <2>1. Fits(p, l) /\ p # "idle" /\ doing'[t] = p /\ loc'[t] = l
    BY <1>2, <1>3
  <2>2. \A u \in Threads \ {t} : doing'[u] = doing[u] /\ loc'[u] = loc[u]
    BY <1>2, <1>3
  <2> QED
    BY <2>1, <2>2, <1>1, <1>3, <1>4, <1>5, <1>6, <1>8, <1>9, <1>10 DEF Launched
<1> QED
  BY <1>11, LaunchedKeeps

LEMMA TapStartKeeps ==
    ASSUME SessionInv, NEW t \in Threads, NEW m \in Modes, TapStart(t, m)
    PROVE  SessionInv'
<1>1. shown \in [Modes -> {"no", "yes", "stopping"}]
  BY DEF SessionInv, Types, AppTypes
<1>2. /\ shown' \in [Modes -> {"no", "yes", "stopping"}] /\ shown'[m] = "yes" /\ ~Active(m)
      /\ \A n \in Modes \ {m} : shown'[n] = shown[n]
  BY <1>1 DEF TapStart
<1>3. PICK p : p \in (IF m = "gadget" THEN {"gDocument", "gProbe"} ELSE {"fCheck"})
               /\ Launch(t, m, "start", p)
  BY DEF TapStart
<1>4. /\ p \in Places /\ p \in {"gDocument", "gProbe", "fCheck"} /\ Fits(p, StartOf(m, "start"))
      /\ "start" \in Doings
  BY <1>3 DEF Places, Fits, StartOf, NoLocals, Doings, Modes, GStarts, GEnds, FStarts, FEnds
<1> QED
  BY <1>2, <1>3, <1>4, LaunchKeeps

LEMMA StopPlaces ==
    ASSUME NEW m \in Modes, NEW why \in Stops
    PROVE  /\ StopPlaceOf(m) \in Places /\ StopPlaceOf(m) \in {"gStop", "fStop"}
           /\ Fits(StopPlaceOf(m), StartOf(m, why)) /\ why \in Doings /\ why # "start"
<1>1. StopPlaceOf(m) = (IF m = "gadget" THEN "gStop" ELSE "fStop")
  BY DEF StopPlaceOf
<1> QED
  BY <1>1
     DEF Places, Fits, StartOf, NoLocals, Doings, Stops, Modes, GStarts, GEnds, FStarts, FEnds

LEMMA TapStopKeeps ==
    ASSUME SessionInv, NEW t \in Threads, NEW m \in Modes, TapStop(t, m)
    PROVE  SessionInv'
<1> PICK p : p = StopPlaceOf(m)
  OBVIOUS
<1>1. shown' = shown /\ shown \in [Modes -> {"no", "yes", "stopping"}]
  BY DEF SessionInv, Types, AppTypes, TapStop
<1>2. Active(m) /\ Launch(t, m, "uiStop", p)
  BY DEF TapStop
<1>3. /\ p \in Places /\ p \in {"gStop", "fStop"} /\ "uiStop" \in Doings
      /\ Fits(p, StartOf(m, "uiStop"))
  BY StopPlaces DEF Stops
<1> QED
  BY <1>1, <1>2, <1>3, LaunchKeeps

LEMMA NotificationStopKeeps ==
    ASSUME SessionInv, NEW t \in Threads, NEW m \in Modes, NotificationStop(t, m)
    PROVE  SessionInv'
<1> PICK p : p = StopPlaceOf(m)
  OBVIOUS
<1>1. /\ shown \in [Modes -> {"no", "yes", "stopping"}] /\ shown[m] = "yes"
      /\ shown' = [shown EXCEPT ![m] = "stopping"]
  BY DEF SessionInv, Types, AppTypes, NotificationStop
<1>2. Launch(t, m, "hookStop", p)
  BY DEF NotificationStop
<1>3. /\ p \in Places /\ p \in {"gStop", "fStop"} /\ "hookStop" \in Doings
      /\ Fits(p, StartOf(m, "hookStop"))
  BY StopPlaces DEF Stops
<1> QED
  BY <1>1, <1>2, <1>3, LaunchKeeps

-----------------------------------------------------------------------------
\* A thread has its result, and its mode is registered accordingly.
LEMMA FinishKeeps ==
    ASSUME SessionInv, NEW t \in Threads, Finish(t)
    PROVE  SessionInv'
<1>1. /\ Types /\ OneAtATime /\ ThreadInv /\ ModeInv /\ AloneInv
      /\ doing \in [Threads -> Places] /\ loc \in [Threads -> Locals]
      /\ shown \in [Modes -> {"no", "yes", "stopping"}]
      /\ doing[t] = "done" /\ Busy(t)
  BY DEF SessionInv, Types, AppTypes, Finish, Busy
<1> PICK l : l = loc[t]
  OBVIOUS
<1> PICK m : m = l.mode
  OBVIOUS
<1>2. l \in Locals /\ m \in Modes /\ l.kind \in Doings /\ l.ok \in BOOLEAN /\ l.mode = m
  BY <1>1 DEF ThreadInv, Fits, Locals
<1>3. /\ doing'[t] = "idle" /\ loc'[t] = NoLocals
      /\ \A u \in Threads \ {t} : doing'[u] = doing[u] /\ loc'[u] = loc[u]
      /\ doing' \in [Threads -> Places] /\ loc' \in [Threads -> Locals]
  BY <1>1 DEF Finish, Places, Locals, NoLocals
<1>4. /\ shown'[m] = ShownAfter(l) /\ \A n \in Modes \ {m} : shown'[n] = shown[n]
      /\ shown' \in [Modes -> {"no", "yes", "stopping"}]
  <2>1. ShownAfter(l) \in {"no", "yes", "stopping"}
    BY <1>1, <1>2 DEF ShownAfter
  <2>2. shown' = [shown EXCEPT ![m] = ShownAfter(l)]
    BY DEF Finish
  <2> QED
    BY <2>1, <2>2, <1>1, <1>2
<1>5. /\ UNCHANGED <<udc, faults, gLink, lun, files, gSess, gDisk, fDir, fLink, mounted, native,
                     fSess, fDisk, overlap, crashes>>
      /\ \A n \in Modes : (Active(n))' <=> Active(n)
  BY DEF Finish, Kernel, gadgetVars, ffsVars, Active
<1>6. Types'
  <2>1. KernelTypes' /\ SessionTypes' /\ CountTypes'
    BY <1>1, <1>5 DEF Types, KernelTypes, SessionTypes, CountTypes
  <2>2. AppTypes'
    BY <1>1, <1>3, <1>4, <1>5 DEF Types, AppTypes, Alone
  <2> QED
    BY <2>1, <2>2 DEF Types
<1>7. ~(Busy(t))' /\ \A u \in Threads \ {t} : (Busy(u) <=> (Busy(u))')
  BY <1>3 DEF Busy
<1>8. \A n : ~(AtWork(t, n))' /\ \A u \in Threads \ {t} : AtWork(u, n) <=> (AtWork(u, n))'
  BY <1>3, <1>7 DEF AtWork
<1>9. OneAtATime'
  BY <1>1, <1>5, <1>7, <1>8 DEF OneAtATime, Alone
<1>10. ThreadInv'
  <2>1. Fits("idle", NoLocals)
    BY DEF Fits, NoLocals, GStarts, GEnds, FStarts, FEnds
  <2> QED
    BY <2>1, <1>1, <1>3 DEF ThreadInv
<1>11. ASSUME OfMode(m, "done", l), m \notin overlap PROVE (OfMode(m, "idle", NoLocals))'
  <2>1. (Saved(m, "idle", NoLocals))'
    BY DEF Saved, GStarts, GEnds, FStarts, FEnds
  <2>2. Modest' => Modest
    BY <1>5 DEF Modest, Alone
  <2>3. /\ l.kind = "start" /\ l.ok => Active(m)
        /\ l.kind = "start" /\ ~l.ok => ~Active(m) \/ faults >= 1
        /\ l.kind \in Stops => (Active(m) <=> ~l.ok)
    BY <1>11 DEF OfMode, Saved
  <2>4. /\ l.kind = "start" /\ l.ok => shown'[m] = shown[m]
        /\ l.kind = "start" /\ ~l.ok => shown'[m] = "no"
        /\ l.kind = "uiStop" /\ ~l.ok => shown'[m] = shown[m]
        /\ l.kind = "hookStop" /\ ~l.ok => shown'[m] = "yes"
        /\ l.kind \in Stops /\ l.ok => shown'[m] = "no"
    BY <1>4 DEF ShownAfter, Stops
  <2>5. shown'[m] # "no" => Active(m)
    BY <2>3, <2>4, <1>2 DEF Stops, Doings
  <2>6. ASSUME crashes = 0, Modest, Active(m) PROVE shown'[m] = "yes"
    <3>1. l.kind = "start" => l.ok
      <4>1. SUFFICES ASSUME l.kind = "start", ~l.ok PROVE FALSE
        BY DEF Fits
      <4>2. faults >= 1 /\ faults \in Nat
        BY <2>3, <2>6, <4>1, <1>1 DEF Types, CountTypes
      <4>3. Alone /\ faults <= 1
        BY <2>6, <4>2 DEF Modest
      <4>4. OfAll("done", l)
        BY <4>3, <1>1 DEF AloneInv
      <4> QED
        BY <4>1, <4>3, <4>4, <2>6 DEF OfAll, StartsWell
    <3> QED
      BY <3>1, <2>3, <2>4, <2>6, <1>2, <1>11 DEF OfMode, Shows, Stops, Doings
  <2>7. (Shows(m, "idle", NoLocals))'
    BY <2>2, <2>5, <2>6, <1>2, <1>5 DEF Shows, NoLocals
  <2> QED
    BY <2>1, <2>7 DEF OfMode
<1>12. ASSUME NEW n \in Modes \ overlap
       PROVE  /\ \A u \in Threads : (AtWork(u, n) => OfMode(n, doing[u], loc[u]))'
              /\ (\A u \in Threads : ~(AtWork(u, n))') => (OfMode(n, "idle", NoLocals))'
  <2>1. CASE n = m
    <3>1. AtWork(t, m) /\ OfMode(m, "done", l)
      BY <1>1, <1>2, <1>12, <2>1 DEF AtWork, ModeInv
    <3>2. \A u \in Threads : ~(AtWork(u, m))'
      BY <3>1, <1>1, <1>8, <1>12, <2>1 DEF OneAtATime
    <3> QED
      BY <3>1, <3>2, <1>11, <1>12, <2>1
  <2>2. CASE n # m
    <3>1. shown'[n] = shown[n] /\ faults <= faults' /\ ~AtWork(t, n)
      BY <1>1, <1>2, <1>4, <1>5, <1>12, <2>2 DEF Types, CountTypes, AtWork
    <3>2. ASSUME NEW u \in Threads, (AtWork(u, n))' PROVE (OfMode(n, doing[u], loc[u]))'
      <4>1. AtWork(u, n) /\ doing'[u] = doing[u] /\ loc'[u] = loc[u]
        BY <3>2, <1>3, <1>8
      <4>2. OfMode(n, doing[u], loc[u])
        BY <4>1, <1>1, <1>12 DEF ModeInv
      <4> PICK p2, l2 : p2 = doing[u] /\ l2 = loc[u]
        OBVIOUS
      <4>3. (OfMode(n, p2, l2))'
        BY <4>2, <3>1, <1>1, <1>5, <1>6, <1>12, ModeAlone
      <4> QED
        BY <4>1, <4>3
    <3>3. ASSUME \A u \in Threads : ~(AtWork(u, n))' PROVE (OfMode(n, "idle", NoLocals))'
      <4>1. OfMode(n, "idle", NoLocals)
        BY <3>1, <3>3, <1>1, <1>8, <1>12 DEF ModeInv
      <4> QED
        BY <4>1, <3>1, <1>1, <1>5, <1>6, <1>12, ModeAlone
    <3> QED
      BY <3>2, <3>3
  <2> QED
    BY <2>1, <2>2
<1>13. ModeInv'
  BY <1>5, <1>12 DEF ModeInv
<1>14. AloneInv'
  <2>1. SUFFICES ASSUME Alone
                 PROVE  /\ \A u \in Threads : (Busy(u))' => (OfAll(doing[u], loc[u]))'
                        /\ Quiet' => (OfAll("idle", NoLocals))'
    BY <1>5 DEF AloneInv, Alone
  <2>2. \A u \in Threads : ~(Busy(u))'
    BY <2>1, <1>1, <1>7 DEF OneAtATime
  <2>3. OfAll("done", l) /\ (m \notin overlap => OfMode(m, "done", l))
    BY <2>1, <1>1, <1>2 DEF AloneInv, ModeInv, AtWork
  <2>4. m \notin overlap
    BY <2>1, <1>1 DEF Types, AppTypes
  <2>5. (OfAll("idle", NoLocals))'
    <3>1. (StopsWell("idle", NoLocals))'
      BY DEF StopsWell, NoLocals, Stops
    <3>2. (faults <= 1 => StartsWell("idle", NoLocals))'
      BY DEF StartsWell, NoLocals
    <3>3. (faults <= 1 /\ crashes = 0 => LinkedRight("idle"))'
      BY <2>3, <1>5 DEF OfAll, LinkedRight
    <3>4. (faults = 0 /\ crashes = 0 => Exported("idle", NoLocals))'
      <4>1. NoLocals.hit = FALSE /\ NoLocals.orig = FALSE
        BY DEF NoLocals
      <4> QED
        BY <4>1, <2>3, <1>5 DEF OfAll, Exported, UnboundAt, GEnds, FEnds
    <3> QED
      BY <3>1, <3>2, <3>3, <3>4 DEF OfAll
  <2> QED
    BY <2>2, <2>5
<1> QED
  BY <1>6, <1>9, <1>10, <1>13, <1>14 DEF SessionInv

\* A screen shows a mode again that has a session.
LEMMA ReopenKeeps ==
    ASSUME SessionInv, NEW m \in Modes, Reopen(m)
    PROVE  SessionInv'
<1>1. /\ Types /\ OneAtATime /\ ThreadInv /\ ModeInv /\ AloneInv
      /\ shown \in [Modes -> {"no", "yes", "stopping"}]
  BY DEF SessionInv, Types, AppTypes
<1>2. /\ UNCHANGED <<udc, faults, gLink, lun, files, gSess, gDisk, fDir, fLink, mounted, native,
                     fSess, fDisk, overlap, crashes, doing, loc>>
      /\ shown' \in [Modes -> {"no", "yes", "stopping"}] /\ Active(m) /\ shown'[m] = "yes"
      /\ \A n \in Modes \ {m} : shown'[n] = shown[n]
      /\ \A n : (Active(n))' <=> Active(n)
  BY <1>1 DEF Reopen, Kernel, gadgetVars, ffsVars, Active
<1>3. Types'
  BY <1>1, <1>2 DEF Types, KernelTypes, SessionTypes, CountTypes, AppTypes, Alone
<1>4. OneAtATime' /\ ThreadInv'
  BY <1>1, <1>2 DEF OneAtATime, ThreadInv, Alone, Busy, AtWork
<1>5. ASSUME NEW n \in Modes, NEW p, NEW l, OfMode(n, p, l) PROVE OfMode(n, p, l)'
  <2>1. CASE n = m
    <3>1. Modest' => Modest
      BY <1>2 DEF Modest, Alone
    <3>2. Saved(n, p, l)'
      BY <1>2, <1>5 DEF OfMode, Saved
    <3>3. Shows(n, p, l)'
      BY <1>2, <1>5, <2>1 DEF Shows
    <3> QED
      BY <3>2, <3>3 DEF OfMode
  <2>2. CASE n # m
    BY <1>1, <1>2, <1>3, <1>5, <2>2, ModeAlone DEF Types, CountTypes
  <2> QED
    BY <2>1, <2>2
<1>6. ModeInv'
  <2>1. \A n : \A u \in Threads : (AtWork(u, n))' <=> AtWork(u, n)
    BY <1>2 DEF AtWork, Busy
  <2>2. ASSUME NEW n \in Modes \ overlap, NEW u \in Threads, (AtWork(u, n))'
        PROVE  (OfMode(n, doing[u], loc[u]))'
    <3> PICK p, l : p = doing[u] /\ l = loc[u]
      OBVIOUS
    <3>1. (OfMode(n, p, l))'
      BY <1>1, <1>5, <2>1, <2>2 DEF ModeInv
    <3> QED
      BY <3>1, <1>2
  <2>3. ASSUME NEW n \in Modes \ overlap, \A u \in Threads : ~(AtWork(u, n))'
        PROVE  (OfMode(n, "idle", NoLocals))'
    BY <1>1, <1>5, <2>1, <2>3 DEF ModeInv
  <2> QED
    BY <1>2, <2>2, <2>3 DEF ModeInv
<1>7. AloneInv'
  <2>1. ASSUME NEW p, NEW l, OfAll(p, l) PROVE OfAll(p, l)'
    <3>1. StopsWell(p, l)'
      BY <1>2, <2>1 DEF OfAll, StopsWell, Gone, Left
    <3>2. (faults <= 1 => StartsWell(p, l))'
      BY <1>2, <2>1 DEF OfAll, StartsWell, IsLinked
    <3>3. (faults <= 1 /\ crashes = 0 => LinkedRight(p))'
      BY <1>2, <2>1 DEF OfAll, LinkedRight
    <3>4. (faults = 0 /\ crashes = 0 => Exported(p, l))'
      BY <1>2, <2>1 DEF OfAll, Exported
    <3> QED
      BY <3>1, <3>2, <3>3, <3>4 DEF OfAll
  <2>2. ASSUME Alone, NEW u \in Threads, Busy(u) PROVE (OfAll(doing[u], loc[u]))'
    <3> PICK p, l : p = doing[u] /\ l = loc[u]
      OBVIOUS
    <3>1. (OfAll(p, l))'
      BY <1>1, <2>1, <2>2 DEF AloneInv
    <3> QED
      BY <3>1, <1>2
  <2>3. ASSUME Alone, Quiet PROVE (OfAll("idle", NoLocals))'
    BY <1>1, <2>1, <2>3 DEF AloneInv
  <2> QED
    BY <1>2, <2>2, <2>3 DEF AloneInv, Alone, Quiet, Busy
<1> QED
  BY <1>3, <1>4, <1>6, <1>7 DEF SessionInv

\* A step of nobody, after which what was known of any thread is known.
LEMMA ElsewhereKeeps ==
    ASSUME SessionInv, Types', UNCHANGED <<doing, loc, shown, overlap, crashes>>,
           \A m, p, l : OfMode(m, p, l) => (OfMode(m, p, l))',
           \A p, l : OfAll(p, l) => (OfAll(p, l))'
    PROVE  SessionInv'
<1>1. Types /\ OneAtATime /\ ThreadInv /\ ModeInv /\ AloneInv
  BY DEF SessionInv
<1>2. OneAtATime' /\ ThreadInv'
  BY <1>1 DEF OneAtATime, ThreadInv, Alone, Busy, AtWork
<1>3. ModeInv'
  <2>1. \A n : \A u \in Threads : (AtWork(u, n))' <=> AtWork(u, n)
    BY DEF AtWork, Busy
  <2>2. ASSUME NEW n \in Modes \ overlap, NEW u \in Threads, (AtWork(u, n))'
        PROVE  (OfMode(n, doing[u], loc[u]))'
    <3> PICK p, l : p = doing[u] /\ l = loc[u]
      OBVIOUS
    <3>1. (OfMode(n, p, l))'
      BY <1>1, <2>1, <2>2 DEF ModeInv
    <3> QED
      BY <3>1
  <2>3. ASSUME NEW n \in Modes \ overlap, \A u \in Threads : ~(AtWork(u, n))'
        PROVE  (OfMode(n, "idle", NoLocals))'
    BY <1>1, <2>1, <2>3 DEF ModeInv
  <2> QED
    BY <2>2, <2>3 DEF ModeInv
<1>4. AloneInv'
  <2>1. ASSUME Alone, NEW u \in Threads, Busy(u) PROVE (OfAll(doing[u], loc[u]))'
    <3> PICK p, l : p = doing[u] /\ l = loc[u]
      OBVIOUS
    <3>1. (OfAll(p, l))'
      BY <1>1, <2>1 DEF AloneInv
    <3> QED
      BY <3>1
  <2>2. ASSUME Alone, Quiet PROVE (OfAll("idle", NoLocals))'
    BY <1>1, <2>2 DEF AloneInv
  <2> QED
    BY <2>1, <2>2 DEF AloneInv, Alone, Quiet, Busy
<1> QED
  BY <1>2, <1>3, <1>4 DEF SessionInv

\* Only the disk copies of the sessions change, or nothing does.
LEMMA PersistKeeps ==
    ASSUME SessionInv,
           UNCHANGED <<udc, faults, gLink, lun, files, gSess, fDir, fLink, mounted, native,
                             fSess, doing, loc, shown, overlap, crashes>>,
           gDisk' \in {gDisk, gSess}, fDisk' \in {fDisk, fSess}
    PROVE  SessionInv'
<1>1. Types'
  BY DEF SessionInv, Types, KernelTypes, SessionTypes, CountTypes, AppTypes, Alone
<1>2. ASSUME NEW m, NEW p, NEW l, OfMode(m, p, l) PROVE OfMode(m, p, l)'
  BY <1>2 DEF OfMode, Saved, Shows, Active, Modest, Alone
<1>3. ASSUME NEW p, NEW l, OfAll(p, l) PROVE OfAll(p, l)'
  BY <1>3 DEF OfAll, StopsWell, StartsWell, LinkedRight, Exported, IsLinked, Gone, Left, Active
<1> QED
  BY <1>1, <1>2, <1>3, ElsewhereKeeps

LEMMA NativeDiesKeeps ==
    ASSUME SessionInv,
           NativeDies, UNCHANGED <<udc, gadgetVars, fDir, fLink, mounted, fSess, fDisk>>,
           UNCHANGED <<doing, loc, shown, overlap, crashes, taps>>
    PROVE  SessionInv'
<1>1. /\ ~native' /\ native' \in BOOLEAN /\ faults \in Nat /\ faults' = faults + 1
         /\ faults < MaxFaults
      /\ MaxFaults \in Nat
      /\ UNCHANGED <<udc, gLink, lun, files, gSess, gDisk, fDir, fLink, mounted, fSess, fDisk,
                     doing, loc, shown, overlap, crashes>>
  BY FaultsAssumption DEF SessionInv, Types, KernelTypes, CountTypes, NativeDies, gadgetVars
<1>2. Types'
  <2>1. KernelTypes' /\ SessionTypes'
    BY <1>1 DEF SessionInv, Types, KernelTypes, SessionTypes
  <2>2. CountTypes'
    BY <1>1 DEF SessionInv, Types, CountTypes
  <2>3. AppTypes'
    BY <1>1 DEF SessionInv, Types, AppTypes, Alone
  <2> QED
    BY <2>1, <2>2, <2>3 DEF Types
<1>3. ASSUME NEW m, NEW p, NEW l, OfMode(m, p, l) PROVE OfMode(m, p, l)'
  <2>1. Modest' => Modest
    BY <1>1 DEF Modest, Alone
  <2>2. Saved(m, p, l)'
    BY <1>1, <1>3 DEF OfMode, Saved, Active
  <2>3. Shows(m, p, l)'
    BY <1>1, <1>3, <2>1 DEF OfMode, Shows, Active
  <2> QED
    BY <2>2, <2>3 DEF OfMode
<1>4. ASSUME NEW p, NEW l, OfAll(p, l) PROVE OfAll(p, l)'
  <2>1. StopsWell(p, l)'
    BY <1>1, <1>4 DEF OfAll, StopsWell, Gone, Left
  <2>2. (faults <= 1 => StartsWell(p, l))'
    BY <1>1, <1>4 DEF OfAll, StartsWell, IsLinked, Active
  <2>3. (faults <= 1 /\ crashes = 0 => LinkedRight(p))'
    BY <1>1, <1>4 DEF OfAll, LinkedRight
  <2>4. faults' # 0
    BY <1>1
  <2> QED
    BY <2>1, <2>2, <2>3, <2>4 DEF OfAll
<1> QED
  BY <1>1, <1>2, <1>3, <1>4, ElsewhereKeeps

\* No thread is left, and nothing is shown.
Nobody ==
    /\ Types /\ doing = [t \in Threads |-> "idle"] /\ loc = [t \in Threads |-> NoLocals]
    /\ shown = [m \in Modes |-> "no"]
    /\ crashes # 0 \/ ~(gLink \/ fLink \/ gSess.active \/ fSess.active)

LEMMA NobodyIsThere == Nobody => SessionInv
<1> SUFFICES ASSUME Nobody PROVE SessionInv
  OBVIOUS
<1>1. \A t \in Threads : doing[t] = "idle" /\ loc[t] = NoLocals
  BY Zenon DEF Nobody
<1>2. \A m \in Modes : shown[m] = "no"
  BY DEF Nobody
<1>3. Types /\ (crashes # 0 \/ ~(gLink \/ fLink \/ gSess.active \/ fSess.active))
  BY DEF Nobody
<1>4. /\ ~NoLocals.orig /\ ~NoLocals.bad /\ ~NoLocals.hit /\ ~NoLocals.ok
      /\ NoLocals.kind = "none"
  BY DEF NoLocals
<1>5. Fits("idle", NoLocals)
  BY <1>4 DEF Fits, GStarts, GEnds, FStarts, FEnds
<1>6. ASSUME NEW m \in Modes PROVE OfMode(m, "idle", NoLocals)
  BY <1>3, <1>2 DEF OfMode, Saved, Shows, Active, GStarts, GEnds, FStarts, FEnds
<1>7. OfAll("idle", NoLocals)
  <2>1. StopsWell("idle", NoLocals)
    BY <1>4 DEF StopsWell
  <2>2. StartsWell("idle", NoLocals)
    BY <1>4 DEF StartsWell
  <2>3. crashes = 0 => LinkedRight("idle")
    BY <1>3 DEF LinkedRight
  <2>4. crashes = 0 => Exported("idle", NoLocals)
    BY <1>3, <1>4 DEF Exported, UnboundAt, GEnds, FEnds
  <2> QED
    BY <2>1, <2>2, <2>3, <2>4 DEF OfAll
<1> QED
  BY <1>3, <1>1, <1>5, <1>6, <1>7
     DEF SessionInv, OneAtATime, ThreadInv, ModeInv, AloneInv, Busy, AtWork

LEMMA DeathKeeps ==
    ASSUME SessionInv, Kill \/ Reboot
    PROVE  SessionInv'
<1>1. Types /\ MaxCrashes \in Nat
  BY CrashesAssumption DEF SessionInv
<1>2. /\ ProcessDies
      /\ udc' \in BOOLEAN /\ gLink' \in BOOLEAN /\ lun' \in {lun, None} /\ fDir' \in BOOLEAN
      /\ fLink' \in BOOLEAN /\ mounted' \in BOOLEAN /\ (fLink' => fDir')
  <2>1. CASE Kill
    <3>1. udc' = TRUE \/ udc' = FALSE
      BY <1>1, <2>1 DEF Kill, Types, KernelTypes
    <3>2. UNCHANGED <<gLink, lun, fDir, fLink, mounted>> /\ ProcessDies
      BY <2>1 DEF Kill
    <3> QED
      BY <1>1, <3>1, <3>2 DEF Types, KernelTypes
  <2>2. CASE Reboot
    BY <2>2 DEF Reboot
  <2> QED
    BY <2>1, <2>2
<1>3. "idle" \in Places /\ NoLocals \in Locals
  BY DEF Places, NoLocals, Locals
<1>4. KernelTypes' /\ SessionTypes'
  BY <1>1, <1>2 DEF ProcessDies, Types, KernelTypes, SessionTypes
<1>5. CountTypes' /\ crashes' # 0
  BY <1>1, <1>2 DEF ProcessDies, Types, CountTypes
<1>6. AppTypes'
  BY <1>1, <1>2, <1>3 DEF ProcessDies, Types, AppTypes, Alone
<1>7. /\ doing' = [t \in Threads |-> "idle"] /\ loc' = [t \in Threads |-> NoLocals]
      /\ shown' = [m \in Modes |-> "no"]
  BY <1>2 DEF ProcessDies
<1>8. Types'
  BY <1>4, <1>5, <1>6 DEF Types
<1>9. Nobody'
  BY <1>5, <1>7, <1>8 DEF Nobody
<1>10. (Nobody => SessionInv)'
  BY NobodyIsThere, PTL
<1> QED
  BY <1>9, <1>10

-----------------------------------------------------------------------------
LEMMA ControlStarts == ControlInit => SessionInv
<1>1. SUFFICES ASSUME ControlInit PROVE SessionInv
  OBVIOUS
<1>2. KernelTypes /\ SessionTypes
  BY <1>1 DEF ControlInit, GadgetInit, FfsInit, KernelTypes, SessionTypes, GSessions, FSessions,
              GadgetNoSession, FfsNoSession
<1>3. CountTypes /\ AppTypes
  BY <1>1, FaultsAssumption, CrashesAssumption
     DEF ControlInit, CountTypes, AppTypes, Places, Locals, NoLocals
<1>4. ~(gLink \/ fLink \/ gSess.active \/ fSess.active)
  BY <1>1 DEF ControlInit, GadgetInit, FfsInit, GadgetNoSession, FfsNoSession
<1> QED
  BY <1>1, <1>2, <1>3, <1>4, NobodyIsThere DEF ControlInit, Types, Nobody

LEMMA ControlKeeps == SessionInv /\ [ControlNext]_controlVars => SessionInv'
<1>1. SUFFICES ASSUME SessionInv, [ControlNext]_controlVars PROVE SessionInv'
  OBVIOUS
<1>2. CASE UNCHANGED controlVars
  BY <1>1, <1>2, PersistKeeps DEF controlVars, gadgetVars, ffsVars
<1>3. CASE \E t \in Threads, m \in Modes :
             TapStart(t, m) \/ TapStop(t, m) \/ NotificationStop(t, m)
  BY <1>1, <1>3, TapStartKeeps, TapStopKeeps, NotificationStopKeeps
<1>4. CASE \E t \in Threads : Drivers(t) \/ Finish(t)
  BY <1>1, <1>4, DriversKeep, FinishKeeps
<1>5. CASE \E m \in Modes : Reopen(m)
  BY <1>1, <1>5, ReopenKeeps
<1>6. CASE Background
  <2>1. CASE GPersist /\ UNCHANGED <<udc, faults, gLink, lun, files, gSess, ffsVars>>
    BY <1>1, <1>6, <2>1, PersistKeeps DEF Background, GPersist, ffsVars
  <2>2. CASE FPersist
         /\ UNCHANGED <<udc, faults, gadgetVars, fDir, fLink, mounted, native, fSess>>
    BY <1>1, <1>6, <2>2, PersistKeeps DEF Background, FPersist, gadgetVars
  <2>3. CASE NativeDies /\ UNCHANGED <<udc, gadgetVars, fDir, fLink, mounted, fSess, fDisk>>
    BY <1>1, <1>6, <2>3, NativeDiesKeeps DEF Background
  <2> QED
    BY <1>6, <2>1, <2>2, <2>3 DEF Background
<1>7. CASE Kill \/ Reboot
  BY <1>1, <1>7, DeathKeeps
<1> QED
  BY <1>1, <1>2, <1>3, <1>4, <1>5, <1>6, <1>7 DEF ControlNext

LEMMA ControlIsInvariant == ControlSpec => []SessionInv
<1>1. ControlInit => SessionInv
  BY ControlStarts
<1>2. SessionInv /\ [ControlNext]_controlVars => SessionInv'
  BY ControlKeeps
<1> QED
  BY <1>1, <1>2, PTL DEF ControlSpec

LEMMA ResultsFollow == SessionInv => ResultsHonest
<1>1. SUFFICES ASSUME SessionInv, Alone, NEW t \in Threads, doing[t] = "done"
               PROVE  /\ loc[t].kind \in Stops /\ loc[t].ok /\ loc[t].orig =>
                           /\ udc /\ ~IsLinked(loc[t].mode)
                           /\ IF loc[t].mode = "gadget" THEN lun = None ELSE ~fDir /\ ~native
                      /\ loc[t].kind \in Stops /\ ~loc[t].ok => loc[t].hit
                      /\ faults <= 1 /\ loc[t].kind = "start" /\ ~loc[t].ok =>
                           /\ loc[t].orig => udc
                           /\ crashes = 0 => ~IsLinked(loc[t].mode)
  <2>1. ASSUME NEW u \in Threads
        PROVE  /\ Ended(u, Stops, TRUE) =>
                    Alone /\ doing[u] = "done" /\ loc[u].kind \in Stops /\ loc[u].ok
               /\ Ended(u, Stops, FALSE) =>
                    Alone /\ doing[u] = "done" /\ loc[u].kind \in Stops /\ ~loc[u].ok
               /\ Ended(u, {"start"}, FALSE) =>
                    Alone /\ doing[u] = "done" /\ loc[u].kind = "start" /\ ~loc[u].ok
    BY DEF Ended
  <2> QED
    BY <2>1 DEF ResultsHonest, StopClean, StopRetries, FailedStartUndone
<1>2. OfAll("done", loc[t])
  BY <1>1 DEF SessionInv, AloneInv, Busy
<1>3. loc[t].mode \in Modes
  BY <1>1 DEF SessionInv, ThreadInv, Fits
<1>4. StopsWell("done", loc[t]) /\ (faults <= 1 => StartsWell("done", loc[t]))
  BY <1>2 DEF OfAll
<1>5. loc[t].kind \in Stops /\ loc[t].ok /\ loc[t].orig =>
         udc /\ (loc[t].mode = "gadget" => Gone) /\ (loc[t].mode # "gadget" => Left)
  BY <1>4 DEF StopsWell
<1>6. loc[t].kind \in Stops /\ ~loc[t].ok => loc[t].hit
  BY <1>4 DEF StopsWell
<1>7. faults <= 1 /\ loc[t].kind = "start" /\ ~loc[t].ok =>
         (loc[t].orig => udc) /\ (crashes = 0 => ~IsLinked(loc[t].mode))
  BY <1>4 DEF StartsWell
<1> QED
  BY <1>3, <1>5, <1>6, <1>7 DEF Gone, Left, IsLinked, Modes

LEMMA SessionsFollow == SessionInv => SessionsKept
<1>1. SUFFICES ASSUME SessionInv, Quiet PROVE SessionExported /\ ShownWhenActive
  BY DEF SessionsKept, SessionExported, ShownWhenActive
<1>2. SessionExported
  BY <1>1 DEF SessionInv, AloneInv, OfAll, Exported, SessionExported, UnboundAt, FEnds
<1>3. ShownWhenActive
  <2>1. ASSUME NEW m \in Modes \ overlap
        PROVE  Shows(m, "idle", NoLocals)
    BY <1>1, <2>1 DEF SessionInv, ModeInv, OfMode, AtWork, Busy, Quiet
  <2> QED
    BY <2>1 DEF ShownWhenActive, Shows, Modest
<1> QED
  BY <1>2, <1>3

LEMMA TypesFollow == SessionInv => TypeOK
<1> SUFFICES ASSUME SessionInv PROVE TypeOK
  OBVIOUS
<1>1. Types
  BY DEF SessionInv
<1>2. {udc, gLink, fDir, fLink, mounted, native} \subseteq BOOLEAN
  BY <1>1 DEF Types, KernelTypes
<1>3. faults \in 0..MaxFaults /\ crashes \in 0..MaxCrashes
  BY <1>1, FaultsAssumption, CrashesAssumption DEF Types, CountTypes
<1> QED
  BY <1>1, <1>2, <1>3 DEF TypeOK, Types, KernelTypes, SessionTypes, AppTypes, GSessions, FSessions

\* What a start or a stop tells the user is so, a stop can be tried again, and one fault is undone:
\* in every interleaving of the screens, the notification, the saved sessions and process deaths.
THEOREM ResultsAlwaysHonest == ControlSpec => []ResultsHonest
<1>1. SessionInv => ResultsHonest
  BY ResultsFollow
<1> QED
  BY <1>1, ControlIsInvariant, PTL

\* A saved session is exported, and the screens show it.
THEOREM SessionsAlwaysKept == ControlSpec => []SessionsKept
<1>1. SessionInv => SessionsKept
  BY SessionsFollow
<1> QED
  BY <1>1, ControlIsInvariant, PTL

\* The variables have their types.
THEOREM ControlTypes == ControlSpec => []TypeOK
<1>1. SessionInv => TypeOK
  BY TypesFollow
<1> QED
  BY <1>1, ControlIsInvariant, PTL
=============================================================================
