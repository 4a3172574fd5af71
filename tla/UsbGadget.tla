------------------------------ MODULE UsbGadget ------------------------------
(***************************************************************************)
(* The mass-storage mode (UsbGadget.java): enabling and disabling an image *)
(* as the LUN of functions/mass_storage.multibooter.  The function, once   *)
(* made, stays for the boot; the model keeps its link and its LUN file.    *)
(* SharedPreferences.apply() reaches the disk some time later.             *)
(***************************************************************************)
EXTENDS GadgetUdc

CONSTANT Images  \* staged backing files; 0 is a file of the user
ASSUME ImagesAssumption == Images \subseteq Nat \ {0}

VARIABLES
    gLink,   \* the function is linked into the configuration
    lun,     \* image in lun.0/file, or None
    files,   \* staged backing files on the storage
    gSess,   \* saved session, as the process sees it
    gDisk    \* saved session, as the next process will find it

gadgetVars == <<gLink, lun, files, gSess, gDisk>>

None == 1000
GadgetNoSession == [active |-> FALSE, image |-> 0, orig |-> FALSE]

GadgetInit ==
    /\ gLink = FALSE /\ lun = None /\ files = {}
    /\ gSess = GadgetNoSession /\ gDisk = GadgetNoSession

-----------------------------------------------------------------------------
(* enableMassStorage                                                       *)

\* A picked document is copied, unless a session is saved or there is no room.
GCheck(t) ==
    /\ doing[t] = "gDocument" /\ UNCHANGED <<udc, gLink, lun, gSess>>
    /\ \/ /\ gSess.active \/ files = Images
          /\ Works(t, "done", Returns(t, FALSE)) /\ UNCHANGED files
       \/ /\ ~gSess.active
          /\ \E n \in Images \ files :
                /\ files' = files \cup {n}
                /\ Works(t, "gCopy", [loc[t] EXCEPT !.image = n])

GCopy(t) ==
    /\ doing[t] = "gCopy" /\ UNCHANGED <<udc, gLink, lun, gSess>>
    /\ \/ Works(t, "gProbe", loc[t]) /\ UNCHANGED files
       \/ Fails(t, "gFailed", loc[t]) /\ UNCHANGED files

\* probe(), and the image is checked as root.
GProbe(t) ==
    /\ doing[t] = "gProbe"
    /\ \/ Works(t, "gUnbind", [loc[t] EXCEPT !.orig = udc])
       \/ Fails(t, "gFailed", loc[t])
    /\ UNCHANGED <<udc, gLink, lun, files, gSess>>

GUnbind(t) ==
    /\ doing[t] = "gUnbind"
    /\ Unbind(t, "gConfigure", "gFailed")
    /\ UNCHANGED <<gLink, lun, files, gSess>>

\* Mutant: a failed configuration is left as it is.
GConfigureFails_NoCleanup(t) ==
    /\ Fails(t, "gFailed", loc[t])
    /\ \/ UNCHANGED <<udc, gLink, lun>>
       \/ udc' = UdcWithout(gLink) /\ gLink' = FALSE /\ lun' \in {lun, None, loc[t].image}

\* The script stops at its first failing command (exit 31, 32-36 or 37).
GConfigureFails(t) ==
    /\ Fails(t, "gCleanup", loc[t])
    /\ \/ UNCHANGED <<udc, gLink, lun>>
       \/ udc' = UdcWithout(gLink) /\ gLink' = FALSE /\ lun' \in {lun, None, loc[t].image}

\* Replace the old link and medium by the new ones.
GConfigure(t) ==
    /\ doing[t] = "gConfigure"
    /\ \/ /\ Works(t, "gBind", loc[t])
          /\ udc' = UdcWithout(gLink) /\ gLink' = TRUE /\ lun' = loc[t].image
       \/ GConfigureFails(t)
    /\ UNCHANGED <<files, gSess>>

GBind(t) ==
    /\ doing[t] = "gBind"
    /\ Bind(t, "gSave", "gCleanup")
    /\ UNCHANGED <<gLink, lun, files, gSess>>

GSave(t) ==
    /\ doing[t] = "gSave"
    /\ gSess' = [active |-> TRUE, image |-> loc[t].image, orig |-> loc[t].orig]
    /\ Works(t, "done", Returns(t, TRUE))
    /\ UNCHANGED <<udc, gLink, lun, files>>

\* cleanupFailedEnable: no command of it is checked.
GCleanup(t) ==
    /\ doing[t] = "gCleanup"
    /\ \/ /\ udc' = FALSE /\ gLink' = FALSE /\ lun' = None
          /\ Works(t, "gRestore", loc[t])
       \/ /\ gLink' \in {gLink, FALSE} /\ lun' \in {lun, None}
          /\ udc' \in {udc, FALSE} /\ (gLink' = gLink \/ ~udc')
          /\ Fails(t, "gRestore", loc[t])
    /\ UNCHANGED <<files, gSess>>

GRestore(t) ==
    /\ doing[t] = "gRestore"
    /\ Restore(t, "gFailed", loc[t])
    /\ UNCHANGED <<gLink, lun, files, gSess>>

\* Mutant: the copy of a document that could not be exported is kept.
GFailed_KeepsCopy(t) ==
    /\ doing[t] = "gFailed"
    /\ Works(t, "done", Returns(t, FALSE))
    /\ UNCHANGED <<udc, gLink, lun, files, gSess>>

GFailed(t) ==
    /\ doing[t] = "gFailed"
    /\ files' = files \ {loc[t].image}
    /\ Works(t, "done", Returns(t, FALSE))
    /\ UNCHANGED <<udc, gLink, lun, gSess>>

-----------------------------------------------------------------------------
(* disableMassStorage                                                      *)

GStop(t) ==
    /\ doing[t] = "gStop" /\ UNCHANGED <<udc, gLink, lun, files, gSess>>
    /\ IF gSess.active
       THEN Works(t, "gStopUnbind",
                  [loc[t] EXCEPT !.image = gSess.image, !.orig = gSess.orig])
       ELSE Works(t, "done", Returns(t, TRUE))

\* Mutant: the medium is detached from the bound gadget.
GStopUnbind_Not(t) ==
    /\ doing[t] = "gStopUnbind" /\ Works(t, "gDetach", loc[t])
    /\ UNCHANGED <<udc, gLink, lun, files, gSess>>

GStopUnbind(t) ==
    /\ doing[t] = "gStopUnbind"
    /\ UnbindAnyway(t, "gDetach")
    /\ UNCHANGED <<gLink, lun, files, gSess>>

\* Mutant: a failing command does not count.
GDetachFails_Silent(t) ==
    /\ Fails(t, "gStopRestore", loc[t])
    /\ \/ UNCHANGED <<udc, gLink>>
       \/ udc' = UdcWithout(gLink) /\ gLink' = FALSE
    /\ UNCHANGED lun

\* exit 50: the link stays; exit 53: the medium stays.
GDetachFails(t) ==
    /\ Fails(t, "gStopRestore", Bad(t))
    /\ \/ UNCHANGED <<udc, gLink>>
       \/ udc' = UdcWithout(gLink) /\ gLink' = FALSE
    /\ UNCHANGED lun

GDetach(t) ==
    /\ doing[t] = "gDetach"
    /\ \/ /\ Works(t, "gStopRestore", loc[t])
          /\ udc' = UdcWithout(gLink) /\ gLink' = FALSE /\ lun' = None
       \/ GDetachFails(t)
    /\ UNCHANGED <<files, gSess>>

GStopRestore(t) ==
    /\ doing[t] = "gStopRestore"
    /\ Restore(t, "gClear", Bad(t))
    /\ UNCHANGED <<gLink, lun, files, gSess>>

\* The session is cleared only if everything worked.
GClear(t) ==
    /\ doing[t] = "gClear"
    /\ IF loc[t].bad
       THEN Works(t, "done", Returns(t, FALSE)) /\ UNCHANGED gSess
       ELSE Works(t, "gUnstage", loc[t]) /\ gSess' = GadgetNoSession
    /\ UNCHANGED <<udc, gLink, lun, files>>

GUnstage(t) ==
    /\ doing[t] = "gUnstage"
    /\ files' = files \ {loc[t].image}
    /\ Works(t, "done", Returns(t, TRUE))
    /\ UNCHANGED <<udc, gLink, lun, gSess>>

\* The queued write of apply() reaches the disk.
GPersist == gDisk # gSess /\ gDisk' = gSess

GadgetStep(t) ==
    /\ \/ GCheck(t) \/ GCopy(t) \/ GProbe(t) \/ GUnbind(t) \/ GConfigure(t)
       \/ GBind(t) \/ GSave(t) \/ GCleanup(t) \/ GRestore(t) \/ GFailed(t)
       \/ GStop(t) \/ GStopUnbind(t) \/ GDetach(t) \/ GStopRestore(t)
       \/ GClear(t) \/ GUnstage(t)
    /\ UNCHANGED gDisk
=============================================================================
