------------------------------ MODULE UsbDrive ------------------------------
(***************************************************************************)
(* The USB drive as the jobs that write it see it through UsbVentoy: areas *)
(* of sectors, a write cache in front of the medium, one interface that    *)
(* one connection can claim, and a user who can pull the plug.             *)
(***************************************************************************)
EXTENDS Naturals

CONSTANTS
    MaxJobs,   \* bound: jobs the user starts
    HadVentoy  \* drives to look at: with or without an earlier Ventoy
ASSUME JobsAssumption == MaxJobs \in Nat \ {0} /\ HadVentoy \subseteq BOOLEAN

VARIABLES
    cache,    \* what a read returns: for each area the job that wrote it
    media,    \* what is left when power goes
    plugged,  \* the drive is connected
    holder    \* job whose connection claims the interface, 0: nobody

driveVars == <<cache, media, plugged, holder>>

Jobs == 1..MaxJobs

\* In the order of the LBAs: partition table and boot code, GRUB stage 1, the
\* exFAT volume, VTOYEFI, the gap behind it, the backup GPT.
Areas == {"table", "core", "data", "efi", "trail", "backup"}

\* An area holds what job g wrote (g), what was there before (Blank, or Ventoy
\* if an earlier Ventoy left it), or part of a write (Torn).
Blank == 0
Ventoy == MaxJobs + 1
Torn == MaxJobs + 2
Contents == 0..Torn

DriveInit ==
    /\ \E had \in HadVentoy : cache = [a \in Areas |-> IF had THEN Ventoy ELSE Blank]
    /\ media = cache /\ plugged = TRUE /\ holder = 0

\* writeBlocks, writeData: accepted blocks are in the drive's cache.
Accept(a, c) == cache' = [cache EXCEPT ![a] = c] /\ UNCHANGED <<media, plugged, holder>>

\* synchronizeCache.
FlushCache == plugged /\ media' = cache /\ UNCHANGED <<cache, plugged, holder>>

\* open: claimInterface fails while another connection holds the interface.
Claim(g) ==
    /\ plugged /\ holder = 0 /\ holder' = g
    /\ UNCHANGED <<cache, media, plugged>>

\* close: releaseInterface.
Release(g) == holder' = IF holder = g THEN 0 ELSE holder

\* The drive is pulled out: of the areas not yet flushed, some made it.
Unplug ==
    /\ plugged /\ plugged' = FALSE /\ UNCHANGED holder
    /\ \E S \in SUBSET {a \in Areas : cache[a] # media[a]} :
          cache' = [a \in Areas |-> IF a \in S THEN cache[a] ELSE media[a]]
    /\ media' = cache'

Replug == ~plugged /\ plugged' = TRUE /\ UNCHANGED <<cache, media, holder>>
=============================================================================
