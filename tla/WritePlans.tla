----------------------------- MODULE WritePlans -----------------------------
(***************************************************************************)
(* What VentoyInstaller.install, VentoyInstaller.update and                *)
(* IsoWriterActivity.writeIsoToUsb do to the drive, in their order: each   *)
(* plan is the sequence of the steps that write, flush, read, check for a  *)
(* stop request or may fail.                                               *)
(***************************************************************************)
EXTENDS Naturals, Sequences

CONSTANT Chunks  \* bound: writes an asset is split into
ASSUME ChunksAssumption == Chunks \in Nat \ {0}

Step(op, area, n) == [op |-> op, area |-> area, n |-> n]

Enter(limit) == Step("enter", "none", limit)    \* resets cancelRequested
Show(percent) == Step("show", "none", percent)  \* progress()
Open == Step("open", "none", 0)                 \* UsbVentoy.open
Look == Step("look", "none", 0)                 \* anything else that may fail
Detect == Step("detect", "none", 0)             \* VentoyDetector.detect
Commit == Step("commit", "none", 0)             \* cancelLimit = 0
Part(area) == Step("write", area, 0)            \* not yet all of the area
Put(area) == Step("write", area, 1)             \* its last or only write
Sync == Step("sync", "none", 0)                 \* synchronizeCache
Poll == Step("poll", "none", 0)                 \* if (sCancelRequested)

\* writeAssetExact: chunk after chunk, progress after each, and the test that
\* the asset ends where it should.
Asset(area, from, to) ==
    [i \in 1..2 * Chunks + 1 |->
        IF i = 2 * Chunks + 1 THEN Look
        ELSE IF i % 2 = 0 THEN Show(from + ((to - from) * (i \div 2)) \div Chunks)
        ELSE IF i = 2 * Chunks - 1 THEN Put(area) ELSE Part(area)]

\* formatExfat: many writes, and the native formatter flushes at the end.
Format == <<Part("data"), Put("data"), Sync>>

\* In GPT mode stage 1 is patched and written at once.
Stage1(style) == IF style = "gpt" THEN <<Look, Put("core"), Show(55)>>
                 ELSE Asset("core", 40, 55)

\* install(): the gap behind VTOYEFI is cleared so that no old backup GPT
\* survives in it.
InstallPlan(style) ==
    <<Enter(97), Show(2), Open, Look, Show(5), Look, Show(10), Put("table"), Show(18)>>
      \o Format \o <<Show(40)>> \o Stage1(style)
      \o <<Show(56)>> \o Asset("efi", 56, 96) \o <<Put("trail")>>
      \o (IF style = "gpt" THEN <<Show(96), Put("backup")>> ELSE <<>>)
      \o <<Show(97), Sync, Show(100)>>

\* Mutant: the limit of install() and no point of no return.
UpdatePlan_NoCommit ==
    <<Enter(97), Show(2), Open, Look, Show(6), Detect, Look, Show(10), Show(11)>>
      \o Asset("efi", 12, 90)
      \o <<Show(97), Put("core"), Put("table"), Show(98), Sync, Show(100)>>

\* Mutant: the boot area from sector 0 on.
UpdatePlan_Upwards ==
    <<Enter(11), Show(2), Open, Look, Show(6), Detect, Look, Show(10), Show(11), Commit>>
      \o Asset("efi", 12, 90)
      \o <<Show(97), Put("table"), Put("core"), Show(98), Sync, Show(100)>>

\* update(): VTOYEFI, then the boot area from its last write to sector 0.
UpdatePlan ==
    <<Enter(11), Show(2), Open, Look, Show(6), Detect, Look, Show(10), Show(11), Commit>>
      \o Asset("efi", 12, 90)
      \o <<Show(97), Put("core"), Put("table"), Show(98), Sync, Show(100)>>

\* Areas an image written from LBA 0 covers, and those UsbVerifier.select picks.
Image == <<"table", "core", "data">>
Selected(level) == CASE level = "off" -> <<>>
                     [] level = "partial" -> <<"table", "data">>
                     [] level = "full" -> Image

\* The test for a stop request comes before every block, written or read back
\* and compared.
Polled(op, areas) ==
    [i \in 1..2 * Len(areas) |-> IF i % 2 = 1 THEN Poll ELSE Step(op, areas[i \div 2], 1)]

\* Mutant: the last block written counts as the end of the job.
IsoPlan_NoSync(level) ==
    <<Open, Look>> \o Polled("write", Image) \o <<Poll, Look>>
      \o Polled("read", Selected(level))

\* writeIsoToUsb and verifyWrittenData.
IsoPlan(level) ==
    <<Open, Look>> \o Polled("write", Image) \o <<Poll, Look, Sync>>
      \o Polled("read", Selected(level))

Kinds == {"mbr", "gpt", "update", "isoOff", "isoPartial", "isoFull"}
Installs == {"mbr", "gpt"}
VentoyKinds == Installs \cup {"update"}

Plan == [k \in Kinds |-> CASE k \in Installs -> InstallPlan(k)
                           [] k = "update" -> UpdatePlan
                           [] k = "isoOff" -> IsoPlan("off")
                           [] k = "isoPartial" -> IsoPlan("partial")
                           [] k = "isoFull" -> IsoPlan("full")]

Ops(k, op) == {i \in DOMAIN Plan[k] : Plan[k][i].op = op}

\* The areas a job of this kind writes, and those it reads back.
AreasWritten(k) == {Plan[k][i].area : i \in Ops(k, "write")}
Checked(k) == {Plan[k][i].area : i \in Ops(k, "read")}
=============================================================================
