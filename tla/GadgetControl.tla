---------------------------- MODULE GadgetControl ----------------------------
(***************************************************************************)
(* The two root modes on one USB gadget: the screens and notification      *)
(* hooks of GadgetActivity, VirtualUsbActivity and FunctionFsActivity run  *)
(* UsbGadget and FunctionFileSystem on threads of their own, with no lock, *)
(* and keep the registry of ModeService (here only whether a mode is       *)
(* shown; its own behaviour is the subject of ModeService).  The process   *)
(* can be killed and the phone rebooted at any step.                       *)
(***************************************************************************)
EXTENDS UsbGadget, FfsSession

CONSTANTS
    MaxCrashes,  \* bound: process deaths and reboots
    MaxTaps      \* bound: starts and stops the user asks for
ASSUME CrashesAssumption == MaxCrashes \in Nat /\ MaxTaps \in Nat

VARIABLES
    shown,    \* registry entry of each mode: no, yes, stopping
    overlap,  \* history: modes whose starts and stops overlapped; "any"
    crashes,  \* history: process deaths and reboots
    taps      \* history: starts and stops asked for

controlVars == <<udc, faults, doing, loc, gadgetVars, ffsVars, shown, overlap, crashes,
          taps>>

Modes == {"gadget", "functionfs"}
Stops == {"uiStop", "hookStop"}

Active(m) == IF m = "gadget" THEN gSess.active ELSE fSess.active

ControlInit ==
    /\ udc \in BOOLEAN /\ faults = 0 /\ crashes = 0 /\ taps = 0
    /\ doing = [t \in Threads |-> "idle"] /\ loc = [t \in Threads |-> NoLocals]
    /\ GadgetInit /\ FfsInit
    /\ shown = [m \in Modes |-> "no"] /\ overlap = {}

-----------------------------------------------------------------------------
(* Screens and notification                                                *)

Kernel == <<udc, faults, gadgetVars, ffsVars>>

\* A thread for mode m starts at a place.
Launch(t, m, kind, place) ==
    LET Busy == {u \in Threads \ {t} : doing[u] # "idle"} IN
    /\ doing[t] = "idle" /\ taps < MaxTaps /\ taps' = taps + 1
    /\ doing' = [doing EXCEPT ![t] = place]
    /\ loc' = [loc EXCEPT ![t] = [NoLocals EXCEPT !.mode = m, !.kind = kind]]
    /\ overlap' = overlap \cup (IF Busy = {} THEN {} ELSE {"any"})
                          \cup {loc[u].mode : u \in {x \in Busy : loc[x].mode = m}}
    /\ UNCHANGED <<Kernel, crashes>>

\* performStart, share: begin(), then a thread enables the mode.  The setup
\* page is there as long as no session is saved.
TapStart(t, m) ==
    /\ ~Active(m)
    /\ shown' = [shown EXCEPT ![m] = "yes"]
    /\ \E place \in IF m = "gadget" THEN {"gDocument", "gProbe"} ELSE {"fCheck"} :
          Launch(t, m, "start", place)

StopPlaceOf(m) == IF m = "gadget" THEN "gStop" ELSE "fStop"

\* stopGadget, stopSharing, stopFunctionFs: Stop on the active page.
TapStop(t, m) ==
    /\ Active(m)
    /\ Launch(t, m, "uiStop", StopPlaceOf(m)) /\ UNCHANGED shown

\* requestStop: Stop of the notification runs the hook once per begin().
NotificationStop(t, m) ==
    /\ shown[m] = "yes"
    /\ shown' = [shown EXCEPT ![m] = "stopping"]
    /\ Launch(t, m, "hookStop", StopPlaceOf(m))

\* onCreate shows a mode again that has a saved session.
Reopen(m) ==
    /\ Active(m) /\ shown[m] = "no"
    /\ shown' = [shown EXCEPT ![m] = "yes"]
    /\ UNCHANGED <<Kernel, doing, loc, overlap, crashes, taps>>

\* Mutant: a hook that could not stop the mode leaves it unregistered.
ShownAfter_Ends(l) ==
    CASE l.kind = "start" /\ l.ok -> shown[l.mode]
      [] l.kind = "uiStop" /\ ~l.ok -> shown[l.mode]
      [] OTHER -> "no"

\* Registry once a thread has its result: progress(), which does not bring an
\* ended mode back, end(), or begin() again from a hook that failed.
ShownAfter(l) ==
    CASE l.kind = "start" /\ l.ok -> shown[l.mode]
      [] l.kind = "uiStop" /\ ~l.ok -> shown[l.mode]
      [] l.kind = "hookStop" /\ ~l.ok -> "yes"
      [] OTHER -> "no"

Finish(t) ==
    /\ doing[t] = "done"
    /\ shown' = [shown EXCEPT ![loc[t].mode] = ShownAfter(loc[t])]
    /\ doing' = [doing EXCEPT ![t] = "idle"]
    /\ loc' = [loc EXCEPT ![t] = NoLocals]
    /\ UNCHANGED <<Kernel, overlap, crashes, taps>>

-----------------------------------------------------------------------------
(* Crashes                                                                 *)

\* The process and all its threads are gone; what apply() had not written is
\* lost.
ProcessDies ==
    /\ crashes < MaxCrashes /\ crashes' = crashes + 1
    /\ doing' = [t \in Threads |-> "idle"] /\ loc' = [t \in Threads |-> NoLocals]
    /\ shown' = [m \in Modes |-> "no"]
    /\ native' = FALSE
    /\ gSess' = gDisk /\ fSess' = fDisk
    /\ UNCHANGED <<faults, files, gDisk, fDisk, overlap, taps>>

\* Closing ep0 makes FunctionFS unbind the gadget it is bound in.
Kill ==
    /\ ProcessDies
    /\ udc' = udc \/ (native /\ fLink /\ udc' = FALSE)
    /\ UNCHANGED <<gLink, lun, fDir, fLink, mounted>>

\* ConfigFS starts empty; Android may have bound the UDC or not.
Reboot ==
    /\ ProcessDies
    /\ udc' \in BOOLEAN
    /\ gLink' = FALSE /\ lun' = None
    /\ fDir' = FALSE /\ fLink' = FALSE /\ mounted' = FALSE

-----------------------------------------------------------------------------

Drivers(t) ==
    /\ \/ GadgetStep(t) /\ UNCHANGED ffsVars
       \/ FfsStep(t) /\ UNCHANGED gadgetVars
    /\ UNCHANGED <<shown, overlap, crashes, taps>>

Background ==
    /\ \/ GPersist /\ UNCHANGED <<udc, faults, gLink, lun, files, gSess, ffsVars>>
       \/ FPersist /\ UNCHANGED <<udc, faults, gadgetVars, fDir, fLink, mounted,
                                  native, fSess>>
       \/ NativeDies /\ UNCHANGED <<udc, gadgetVars, fDir, fLink, mounted, fSess,
                                    fDisk>>
    /\ UNCHANGED <<doing, loc, shown, overlap, crashes, taps>>

ControlNext ==
    \/ \E t \in Threads, m \in Modes :
          TapStart(t, m) \/ TapStop(t, m) \/ NotificationStop(t, m)
    \/ \E t \in Threads : Drivers(t) \/ Finish(t)
    \/ \E m \in Modes : Reopen(m)
    \/ Background \/ Kill \/ Reboot

ControlSpec == ControlInit /\ [][ControlNext]_controlVars

-----------------------------------------------------------------------------
(* Properties                                                              *)

TypeOK ==
    /\ {udc, gLink, fDir, fLink, mounted, native} \subseteq BOOLEAN
    /\ fLink => fDir
    /\ faults \in 0..MaxFaults /\ crashes \in 0..MaxCrashes
    /\ lun \in Images \cup {0, None} /\ files \subseteq Images
    /\ {gSess, gDisk} \subseteq
          [active : BOOLEAN, image : Images \cup {0}, orig : BOOLEAN]
    /\ {fSess, fDisk} \subseteq
          [active : BOOLEAN, orig : BOOLEAN, mounts : BOOLEAN]
    /\ shown \in [Modes -> {"no", "yes", "stopping"}]

Alone == "any" \notin overlap
Quiet == \A t \in Threads : doing[t] = "idle"

IsLinked(m) == IF m = "gadget" THEN gLink ELSE fLink

\* Results of the threads, unless starts and stops overlapped.
Ended(t, kinds, ok) ==
    Alone /\ doing[t] = "done" /\ loc[t].kind \in kinds /\ loc[t].ok = ok

\* A stop that reports success has removed the function from the gadget, left
\* no medium behind and bound the UDC that was bound before the start, also
\* for a session another process or an earlier boot has left.
StopClean ==
    \A t \in Threads : Ended(t, Stops, TRUE) /\ loc[t].orig =>
        /\ udc /\ ~IsLinked(loc[t].mode)
        /\ IF loc[t].mode = "gadget" THEN lun = None ELSE ~fDir /\ ~native

\* A stop can be repeated: whatever faults, process deaths and reboots have
\* left, one whose own commands work succeeds.
StopRetries ==
    \A t \in Threads : Ended(t, Stops, FALSE) => loc[t].hit

\* A start that fails leaves the UDC bound if it was, and its function
\* unlinked, wherever its fault occurred (cleanupFailedEnable,
\* restoreAfterStartFailure).  A second fault, in the clean-up, is beyond it.
FailedStartUndone ==
    \A t \in Threads : faults <= 1 /\ Ended(t, {"start"}, FALSE) =>
        /\ loc[t].orig => udc
        /\ crashes = 0 => ~IsLinked(loc[t].mode)

\* As long as nothing fails, each saved session is exported, whatever the
\* other mode is started and stopped for meanwhile.
SessionExported ==
    Quiet /\ Alone /\ faults = 0 /\ crashes = 0 =>
        /\ gSess.active => udc /\ gLink /\ lun = gSess.image
        /\ fSess.active => udc /\ fLink /\ mounted /\ native

\* No copy of a document is forgotten on the storage: each one belongs to the
\* saved session or to a thread at work.
NoStagedLeak ==
    "gadget" \notin overlap /\ crashes = 0 =>
        files \subseteq {gSess.image} \cup {loc[t].image : t \in Threads}

\* Once nothing is at work a mode is shown, with a way to stop it, exactly
\* when it has a session, unless its own starts and stops overlapped; after a
\* process death, once its screen is opened.  (A start that fails while the
\* other mode takes the UDC may leave a session that is not shown, and so may
\* two faults: the backend dies and the stop of the start that failed fails.)
ShownWhenActive ==
    Quiet => \A m \in Modes \ overlap :
        /\ shown[m] # "no" => Active(m)
        /\ crashes = 0 /\ ((Alone /\ faults <= 1) \/ faults = 0) /\ Active(m) => shown[m] = "yes"

\* What a start or a stop tells the user is so, and a stop can be tried again
\* (enableMassStorage, disableMassStorage, FunctionFileSystem.start and stop).
ResultsHonest == StopClean /\ StopRetries /\ FailedStartUndone

\* A saved session is exported and the screens show it.
SessionsKept == SessionExported /\ ShownWhenActive
=============================================================================
