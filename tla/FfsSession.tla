----------------------------- MODULE FfsSession -----------------------------
(***************************************************************************)
(* The FunctionFS mode as FunctionFileSystem.java runs it: the function    *)
(* ffs.multiboot, its mount, the native backend (only whether it runs; its *)
(* threads are the subject of FfsBackend), the UDC and the saved session.  *)
(***************************************************************************)
EXTENDS GadgetUdc

VARIABLES
    fDir, fLink,  \* function directory, and its link in the configuration
    mounted,      \* FunctionFS is mounted
    native,       \* g_running of the native backend
    fSess, fDisk  \* saved session: in the process, on the disk

ffsVars == <<fDir, fLink, mounted, native, fSess, fDisk>>

FfsNoSession == [active |-> FALSE, orig |-> FALSE, mounts |-> FALSE]

FfsInit ==
    /\ fDir = FALSE /\ fLink = FALSE /\ mounted = FALSE /\ native = FALSE
    /\ fSess = FfsNoSession /\ fDisk = FfsNoSession

-----------------------------------------------------------------------------
(* startWithFd                                                             *)

FCheck(t) ==
    /\ doing[t] = "fCheck" /\ UNCHANGED <<udc, ffsVars>>
    /\ IF native THEN Works(t, "done", Returns(t, FALSE))
       ELSE \/ Works(t, "fConfig", [loc[t] EXCEPT !.orig = udc, !.mounts = ~mounted])
            \/ Fails(t, "done", Returns(t, FALSE))

\* After a failure the mount is undone only from prepare() on.
NoMount(t) == [loc[t] EXCEPT !.mounts = FALSE]

\* The script unbinds and makes the function anew; it stops at exit 30 to 34.
FConfig(t) ==
    /\ doing[t] = "fConfig"
    /\ \/ /\ udc /\ udc' = FALSE /\ fDir' = TRUE /\ fLink' = TRUE
          /\ Works(t, "fPrepare", loc[t])
       \/ /\ ~udc /\ UNCHANGED <<udc, fDir, fLink>>
          /\ Works(t, "fUndo", NoMount(t))
       \/ /\ \/ UNCHANGED <<udc, fDir, fLink>>
             \/ udc' = FALSE /\ fDir' = fDir /\ fLink' \in {fLink, FALSE}
             \/ udc' = FALSE /\ fDir' \in BOOLEAN /\ fLink' = FALSE
          /\ Fails(t, "fUndo", NoMount(t))
    /\ UNCHANGED <<mounted, native, fSess, fDisk>>

\* prepare(): mount FunctionFS unless it is mounted.
FPrepare(t) ==
    /\ doing[t] = "fPrepare"
    /\ \/ mounted' = TRUE /\ Works(t, "fNative", loc[t])
       \/ mounted' = mounted /\ Fails(t, "fUndo", loc[t])
    /\ UNCHANGED <<udc, fDir, fLink, native, fSess, fDisk>>

\* startNativeWithFd refuses a backend that runs already.
FNative(t) ==
    /\ doing[t] = "fNative"
    /\ \/ ~native /\ native' = TRUE /\ Works(t, "fBind", loc[t])
       \/ native /\ native' = native /\ Works(t, "fUndo", loc[t])
       \/ native' = native /\ Fails(t, "fUndo", loc[t])
    /\ UNCHANGED <<udc, fDir, fLink, mounted, fSess, fDisk>>

FBind(t) ==
    /\ doing[t] = "fBind"
    /\ Bind(t, "fSave", "fUndo")
    /\ UNCHANGED ffsVars

FSave(t) ==
    /\ doing[t] = "fSave"
    /\ fSess' = [active |-> TRUE, orig |-> loc[t].orig, mounts |-> loc[t].mounts]
    /\ Works(t, "fVerify", loc[t])
    /\ UNCHANGED <<udc, fDir, fLink, mounted, native, fDisk>>

\* A backend that has died meanwhile is stopped; the start failed anyway.
FVerify(t) ==
    /\ doing[t] = "fVerify" /\ UNCHANGED <<udc, ffsVars>>
    /\ IF native THEN Works(t, "done", Returns(t, TRUE))
       ELSE Works(t, "fStop", loc[t])

\* restoreAfterStartFailure: native stop, then commands it does not check.
FUndo(t) ==
    /\ doing[t] = "fUndo"
    /\ native' = FALSE
    /\ \/ /\ udc' = FALSE /\ fDir' = FALSE /\ fLink' = FALSE
          /\ Works(t, "fUndoMount", loc[t])
       \/ /\ fLink' \in {fLink, FALSE} /\ fDir' \in {fDir, fLink'}
          /\ udc' \in {udc, FALSE} /\ (fLink' = fLink \/ ~udc')
          /\ Fails(t, "fUndoMount", loc[t])
    /\ UNCHANGED <<mounted, fSess, fDisk>>

\* umount and rmdir of the mount point, never checked.
Unmounts(t, place) ==
    \/ /\ Works(t, place, loc[t])
       /\ mounted' = IF loc[t].mounts THEN FALSE ELSE mounted
    \/ Fails(t, place, loc[t]) /\ mounted' = mounted

FUndoMount(t) ==
    /\ doing[t] = "fUndoMount"
    /\ Unmounts(t, "fUndoBind")
    /\ UNCHANGED <<udc, fDir, fLink, native, fSess, fDisk>>

FUndoBind(t) ==
    /\ doing[t] = "fUndoBind"
    /\ Restore(t, "done", loc[t])
    /\ UNCHANGED ffsVars

-----------------------------------------------------------------------------
(* stop(context)                                                           *)

\* A stop that was asked for, not one that a failed start runs.
Asked(t) == IF loc[t].kind = "start" THEN FALSE ELSE TRUE

FStop(t) ==
    /\ doing[t] = "fStop"
    /\ IF fSess.active
       THEN /\ Works(t, "fStopUnbind",
                     [loc[t] EXCEPT !.orig = fSess.orig, !.mounts = fSess.mounts])
            /\ UNCHANGED native
       ELSE Works(t, "done", Returns(t, Asked(t))) /\ native' = FALSE
    /\ UNCHANGED <<udc, fDir, fLink, mounted, fSess, fDisk>>

FStopUnbind(t) ==
    /\ doing[t] = "fStopUnbind"
    /\ UnbindAnyway(t, "fStopNative")
    /\ UNCHANGED ffsVars

FStopNative(t) ==
    /\ doing[t] = "fStopNative"
    /\ native' = FALSE /\ Works(t, "fRemove", loc[t])
    /\ UNCHANGED <<udc, fDir, fLink, mounted, fSess, fDisk>>

\* Mutant: the script goes on after a link it could not remove.
FRemove_GoesOn(t) ==
    /\ doing[t] = "fRemove"
    /\ \/ /\ Works(t, "fStopMount", loc[t])
          /\ udc' = UdcWithout(fLink) /\ fLink' = FALSE /\ fDir' = FALSE
       \/ /\ Fails(t, "fStopMount", Bad(t))
          /\ fDir' = FALSE /\ UNCHANGED <<udc, fLink>>
    /\ UNCHANGED <<mounted, native, fSess, fDisk>>

\* exit 50: the link stays; exit 51: the directory stays.
FRemove(t) ==
    /\ doing[t] = "fRemove"
    /\ \/ /\ Works(t, "fStopMount", loc[t])
          /\ udc' = UdcWithout(fLink) /\ fLink' = FALSE /\ fDir' = FALSE
       \/ /\ Fails(t, "fStopMount", Bad(t))
          /\ \/ UNCHANGED <<udc, fLink>>
             \/ udc' = UdcWithout(fLink) /\ fLink' = FALSE
          /\ UNCHANGED fDir
    /\ UNCHANGED <<mounted, native, fSess, fDisk>>

FStopMount(t) ==
    /\ doing[t] = "fStopMount"
    /\ Unmounts(t, "fStopBind")
    /\ UNCHANGED <<udc, fDir, fLink, native, fSess, fDisk>>

FStopBind(t) ==
    /\ doing[t] = "fStopBind"
    /\ Restore(t, "fClear", Bad(t))
    /\ UNCHANGED ffsVars

FClear(t) ==
    /\ doing[t] = "fClear"
    /\ IF loc[t].bad THEN UNCHANGED fSess ELSE fSess' = FfsNoSession
    /\ Works(t, "done", Returns(t, IF loc[t].bad THEN FALSE ELSE Asked(t)))
    /\ UNCHANGED <<udc, fDir, fLink, mounted, native, fDisk>>

FPersist == fDisk # fSess /\ fDisk' = fSess

\* The event thread of the backend cannot start its SCSI worker and ends.
NativeDies ==
    /\ native /\ faults < MaxFaults
    /\ native' = FALSE /\ faults' = faults + 1

FfsStep(t) ==
    FCheck(t) \/ FConfig(t) \/ FPrepare(t) \/ FNative(t) \/ FBind(t) \/ FSave(t)
    \/ FVerify(t) \/ FUndo(t) \/ FUndoMount(t) \/ FUndoBind(t) \/ FStop(t)
    \/ FStopUnbind(t) \/ FStopNative(t) \/ FRemove(t) \/ FStopMount(t)
    \/ FStopBind(t) \/ FClear(t)
=============================================================================
