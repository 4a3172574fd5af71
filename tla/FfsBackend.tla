----------------------------- MODULE FfsBackend -----------------------------
(***************************************************************************)
(* The threads of the FunctionFS CD-ROM backend (jni/libfunctionfs.c): the *)
(* Java callers of start and stop, one event thread per session, and one   *)
(* SCSI worker per ENABLE that found none.  Everything between a lock and  *)
(* an unlock of g_lock is one step; pthread_join, close, open and each     *)
(* endpoint transfer are steps of their own.                               *)
(*                                                                         *)
(* The kernel side (UDC, FunctionFS endpoints and ep0 events) is external: *)
(*   - a lifecycle event replaces the pending one, so at most one waits;   *)
(*   - disabling the function ends every transfer in flight with an error; *)
(*   - closing a descriptor does not end a transfer in flight on it;       *)
(*   - a transfer begun while the function is disabled blocks until it is  *)
(*     enabled when WaitsForEnable, and fails at once otherwise.           *)
(* What travels inside one command is the subject of FfsBot.               *)
(***************************************************************************)
EXTENDS Naturals

CONSTANTS
    Callers,        \* Java threads that call stop
    Starters,       \* those of them that also call start (the screens)
    MaxSessions,    \* bound: event threads ever created
    MaxEnables,     \* bound: SET_CONFIGURATIONs of the host
    MayFail,        \* TRUE: opens, thread creations and UDC writes can fail
    WaitsForEnable  \* what a transfer on a disabled endpoint does

ASSUME BoundsAssumption == MaxSessions \in Nat /\ MaxEnables \in Nat
ASSUME CallersAssumption == Starters \subseteq Callers
ASSUME KernelAssumption == MayFail \in BOOLEAN /\ WaitsForEnable \in BOOLEAN

VARIABLES
    \* globals of libfunctionfs.c (g_...); 0 stands for "not created" or -1
    stopRequested, running, scsiRunning,
    eventThread, scsiThread,    \* thread behind g_event_thread / g_scsi_thread
    ep0, ep,                    \* session of g_ep0, worker of g_ep_in/g_ep_out
    iso,                        \* g_iso_fd >= 0
    \* threads
    ev, evJoin,                 \* event threads: place, worker being joined
    wk,                         \* SCSI workers: place
    pc, local,                  \* callers: place, locals of functionfs_stop
    joined,                     \* threads pthread_join has returned for
    overlap, kept,              \* history: two callers were at work at once;
                                \* the last unbind has failed
    \* descriptors open in the process
    openEp0, openEp,
    \* kernel and host
    bound, enabled, event, enables,
    \* saved Java session (SharedPreferences)
    session

globals == <<stopRequested, running, scsiRunning, eventThread, scsiThread,
             ep0, ep, iso>>
history == <<overlap, kept>>
threads == <<ev, evJoin, wk, pc, local, joined, history>>
files   == <<openEp0, openEp>>
kernel  == <<bound, enabled, event, enables>>
backendVars    == <<globals, threads, files, kernel, session>>

Sessions == 1..MaxSessions
Workers  == 1..MaxEnables

\* Threads are named by the pair <<kind, number>> in `joined`.
EventId(s)  == <<"event", s>>
WorkerId(w) == <<"scsi", w>>

StopPlaces == {"unbind", "stop", "closeEps", "closeEp0", "joinEvent",
               "takeScsi", "joinScsi", "reset"}
StartPlaces == {"open", "commit", "bind", "save", "verify"}
WorkerPlaces == {"open", "publish", "loop", "waiting", "reading", "close",
                 "final"}

NoLocals == [ev |-> 0, scsi |-> 0, ep0 |-> 0]

BackendInit ==
    /\ stopRequested = FALSE /\ running = FALSE /\ scsiRunning = FALSE
    /\ eventThread = 0 /\ scsiThread = 0 /\ ep0 = 0 /\ ep = 0 /\ iso = FALSE
    /\ ev = [s \in Sessions |-> "none"]
    /\ evJoin = [s \in Sessions |-> 0]
    /\ wk = [w \in Workers |-> "none"]
    /\ pc = [c \in Callers |-> "idle"]
    /\ local = [c \in Callers |-> NoLocals]
    /\ joined = {} /\ overlap = FALSE /\ kept = FALSE
    /\ openEp0 = {} /\ openEp = {}
    /\ bound = FALSE /\ enabled = FALSE /\ event = "none" /\ enables = 0
    /\ session = FALSE

-----------------------------------------------------------------------------
(* Shared helpers                                                          *)

\* close_data_endpoints(): under the lock, whatever pair is published.
CloseDataEndpoints == openEp' = openEp \ {ep} /\ ep' = 0

\* Event threads and workers are numbered in the order they are created.
FreshSession == {s \in Sessions : /\ ev[s] = "none"
                                  /\ \A t \in Sessions : t < s => ev[t] # "none"}
FreshWorker  == {w \in Workers : /\ wk[w] = "none"
                                 /\ \A v \in Workers : v < w => wk[v] # "none"}

\* The files of w stay open while a descriptor or a transfer refers to them.
FilesOf == openEp \cup {w \in Workers : wk[w] \in {"waiting", "reading"}}

\* Disabling the function: transfers in flight return ESHUTDOWN.
ShutDown == [w \in Workers |-> IF wk[w] = "reading" THEN "close" ELSE wk[w]]

-----------------------------------------------------------------------------
(* Kernel and host                                                         *)

\* SET_CONFIGURATION: transfers that waited on a disabled endpoint go on.
HostEnable ==
    /\ bound /\ ~enabled /\ enables < MaxEnables
    /\ enabled' = TRUE /\ event' = "ENABLE" /\ enables' = enables + 1
    /\ wk' = [w \in Workers |-> IF wk[w] = "waiting" THEN "reading" ELSE wk[w]]
    /\ UNCHANGED <<globals, ev, evJoin, pc, local, joined, history, files,
                   bound, session>>

\* Bus reset, cable pulled, configuration 0.
HostDisable ==
    /\ enabled
    /\ enabled' = FALSE /\ event' = "DISABLE"
    /\ wk' = ShutDown
    /\ UNCHANGED <<globals, ev, evJoin, pc, local, joined, history, files,
                   bound, enables, session>>

-----------------------------------------------------------------------------
(* SCSI worker: scsi_thread_main                                           *)

WorkerUnchanged == UNCHANGED <<ev, evJoin, pc, local, joined, history, openEp0,
                               kernel, session>>

\* open_data_endpoints_with_retry: gives up on a stop or after 150 attempts.
WorkerOpen(w) ==
    /\ wk[w] = "open"
    /\ \/ /\ ~stopRequested
          /\ openEp' = openEp \cup {w}
          /\ wk' = [wk EXCEPT ![w] = "publish"]
       \/ /\ stopRequested \/ MayFail
          /\ wk' = [wk EXCEPT ![w] = "final"]
          /\ UNCHANGED openEp
    /\ WorkerUnchanged /\ UNCHANGED globals

\* Publish the pair; an empty ISO or an unreadable size ends the worker.
WorkerPublish(w) ==
    /\ wk[w] = "publish"
    /\ ep' = w
    /\ \/ wk' = [wk EXCEPT ![w] = "loop"]
       \/ MayFail /\ wk' = [wk EXCEPT ![w] = "close"]
    /\ WorkerUnchanged
    /\ UNCHANGED <<stopRequested, running, scsiRunning, eventThread,
                   scsiThread, ep0, iso, openEp>>

\* Top of the command loop: test the flag, then begin the CBW read.
WorkerLoop(w) ==
    /\ wk[w] = "loop"
    /\ wk' = [wk EXCEPT ![w] =
                CASE stopRequested \/ w \notin openEp -> "close"
                  [] ~stopRequested /\ w \in openEp /\ enabled -> "reading"
                  [] OTHER -> IF WaitsForEnable THEN "waiting" ELSE "close"]
    /\ WorkerUnchanged /\ UNCHANGED <<globals, openEp>>

\* A transfer completes.  The next one of the command, or the next CBW read,
\* fails with EBADF if the descriptors were closed meanwhile.
WorkerServe(w) ==
    /\ wk[w] = "reading"
    /\ wk' = [wk EXCEPT ![w] = IF w \in openEp THEN "loop" ELSE "close"]
    /\ WorkerUnchanged /\ UNCHANGED <<globals, openEp>>

WorkerClose(w) ==
    /\ wk[w] = "close"
    /\ CloseDataEndpoints
    /\ wk' = [wk EXCEPT ![w] = "final"]
    /\ WorkerUnchanged
    /\ UNCHANGED <<stopRequested, running, scsiRunning, eventThread,
                   scsiThread, ep0, iso>>

WorkerFinal(w) ==
    /\ wk[w] = "final"
    /\ scsiRunning' = FALSE
    /\ wk' = [wk EXCEPT ![w] = "done"]
    /\ WorkerUnchanged
    /\ UNCHANGED <<stopRequested, running, eventThread, scsiThread, ep0, ep,
                   iso, openEp>>

WorkerStep(w) == WorkerOpen(w) \/ WorkerPublish(w) \/ WorkerLoop(w)
                 \/ WorkerClose(w) \/ WorkerFinal(w)

-----------------------------------------------------------------------------
(* Event thread: event_thread_main                                         *)

EventUnchanged == UNCHANGED <<pc, local, history, openEp0, bound, enabled,
                              enables, session>>

\* poll() and read(): BIND is only logged, UNBIND and DISABLE close the
\* endpoints, ENABLE goes through join_finished_scsi_thread.
EventTake(s) ==
    /\ ev[s] = "poll" /\ s \in openEp0 /\ event # "none"
    /\ event' = "none"
    /\ ev' = [ev EXCEPT ![s] = CASE event = "BIND" -> "poll"
                                 [] event = "ENABLE" -> "join"
                                 [] OTHER -> "disable"]
    /\ EventUnchanged /\ UNCHANGED <<globals, evJoin, wk, joined, openEp>>

EventDisable(s) ==
    /\ ev[s] = "disable"
    /\ CloseDataEndpoints
    /\ ev' = [ev EXCEPT ![s] = "poll"]
    /\ EventUnchanged
    /\ UNCHANGED <<stopRequested, running, scsiRunning, eventThread,
                   scsiThread, ep0, iso, evJoin, wk, joined, event>>

\* join_finished_scsi_thread, locked part: claim a worker that has ended.
EventClaim(s) ==
    /\ ev[s] = "join"
    /\ IF scsiThread # 0 /\ ~scsiRunning
       THEN /\ evJoin' = [evJoin EXCEPT ![s] = scsiThread]
            /\ scsiThread' = 0
            /\ ev' = [ev EXCEPT ![s] = "joining"]
       ELSE /\ ev' = [ev EXCEPT ![s] = "start"]
            /\ UNCHANGED <<evJoin, scsiThread>>
    /\ EventUnchanged
    /\ UNCHANGED <<stopRequested, running, scsiRunning, eventThread, ep0, ep,
                   iso, wk, joined, openEp, event>>

EventJoin(s) ==
    /\ ev[s] = "joining" /\ wk[evJoin[s]] = "done"
    /\ joined' = joined \cup {WorkerId(evJoin[s])}
    /\ evJoin' = [evJoin EXCEPT ![s] = 0]
    /\ ev' = [ev EXCEPT ![s] = "start"]
    /\ EventUnchanged /\ UNCHANGED <<globals, wk, openEp, event>>

\* Mutant: neither test for an earlier worker.
MayStartScsi_Again == ~stopRequested /\ iso

\* Guard of start_scsi_thread_if_needed.
MayStartScsi == ~stopRequested /\ ~scsiRunning /\ scsiThread = 0 /\ iso

\* Mutant: the thread is recorded as created before the creation is checked.
StartScsi_Early(s) ==
    \E w \in FreshWorker :
        /\ ev[s] = "start" /\ MayStartScsi
        /\ scsiThread' = w
        /\ \/ /\ scsiRunning' = TRUE
              /\ wk' = [wk EXCEPT ![w] = "open"]
              /\ UNCHANGED stopRequested
           \/ MayFail /\ stopRequested' = TRUE /\ UNCHANGED <<scsiRunning, wk>>

\* start_scsi_thread_if_needed; on a failure the caller ends the session.
StartScsi(s) ==
    \E w \in FreshWorker :
        /\ ev[s] = "start" /\ MayStartScsi
        /\ \/ /\ scsiRunning' = TRUE /\ scsiThread' = w
              /\ wk' = [wk EXCEPT ![w] = "open"]
              /\ UNCHANGED stopRequested
           \/ /\ MayFail
              /\ stopRequested' = TRUE
              /\ UNCHANGED <<scsiRunning, scsiThread, wk>>

NoStartScsi(s) ==
    /\ ev[s] = "start" /\ ~MayStartScsi
    /\ UNCHANGED <<scsiRunning, scsiThread, wk, stopRequested>>

EventStart(s) ==
    /\ StartScsi(s) \/ NoStartScsi(s)
    /\ ev' = [ev EXCEPT ![s] = "poll"]
    /\ EventUnchanged
    /\ UNCHANGED <<running, eventThread, ep0, ep, iso, evJoin, joined, openEp,
                   event>>

\* The loop ends: flag, or poll() reports the closed ep0.
EventLeave(s) ==
    /\ ev[s] = "poll" /\ (stopRequested \/ s \notin openEp0)
    /\ ev' = [ev EXCEPT ![s] = "closing"]
    /\ EventUnchanged /\ UNCHANGED <<globals, evJoin, wk, joined, openEp,
                                     event>>

EventClosing(s) ==
    /\ ev[s] = "closing"
    /\ CloseDataEndpoints
    /\ ev' = [ev EXCEPT ![s] = "final"]
    /\ EventUnchanged
    /\ UNCHANGED <<stopRequested, running, scsiRunning, eventThread,
                   scsiThread, ep0, iso, evJoin, wk, joined, event>>

EventFinal(s) ==
    /\ ev[s] = "final"
    /\ running' = FALSE
    /\ ev' = [ev EXCEPT ![s] = "done"]
    /\ EventUnchanged
    /\ UNCHANGED <<stopRequested, scsiRunning, eventThread, scsiThread, ep0,
                   ep, iso, evJoin, wk, joined, openEp, event>>

EventStep(s) == EventTake(s) \/ EventDisable(s) \/ EventClaim(s) \/ EventJoin(s)
                \/ EventStart(s) \/ EventLeave(s) \/ EventClosing(s)
                \/ EventFinal(s)

-----------------------------------------------------------------------------
(* Callers: FunctionFileSystem.startWithFd and functionfs_start_source     *)

\* c begins to work; another caller may be at it already.
Overlap(c) == overlap' = (overlap \/ \E d \in Callers \ {c} : pc[d] # "idle")

\* prepare and the locked test for a backend that is already there.
StartCheck(c) ==
    /\ pc[c] = "idle" /\ ~running /\ eventThread = 0
    /\ FreshSession # {}
    /\ pc' = [pc EXCEPT ![c] = "open"]
    /\ Overlap(c)
    /\ UNCHANGED <<globals, ev, evJoin, wk, local, joined, kept, files, kernel,
                   session>>

\* ep0 takes descriptors only when no file of the mount is open any more.
StartOpen(c) ==
    /\ pc[c] = "open"
    /\ \/ \E n \in FreshSession :
             /\ openEp0 = {} /\ FilesOf = {}
             /\ openEp0' = {n}
             /\ local' = [local EXCEPT ![c] = [ev |-> 0, scsi |-> 0, ep0 |-> n]]
             /\ pc' = [pc EXCEPT ![c] = "commit"]
       \/ /\ MayFail \/ openEp0 \cup FilesOf # {} \/ FreshSession = {}
          /\ pc' = [pc EXCEPT ![c] = "idle"]
          /\ UNCHANGED <<openEp0, local>>
    /\ UNCHANGED <<globals, ev, evJoin, wk, joined, history, openEp, kernel,
                   session>>

\* The globals of the session, and its event thread, under the lock.
StartCommitted(c) ==
    /\ stopRequested' = FALSE /\ running' = TRUE /\ scsiRunning' = FALSE
    /\ ep0' = local[c].ep0 /\ ep' = 0 /\ iso' = TRUE
    /\ eventThread' = local[c].ep0
    /\ ev' = [ev EXCEPT ![local[c].ep0] = "poll"]
    /\ pc' = [pc EXCEPT ![c] = "bind"]
    /\ UNCHANGED openEp0

\* pthread_create failed: running, g_ep0 and the ISO are taken back.
StartAborted(c) ==
    /\ MayFail
    /\ stopRequested' = FALSE /\ running' = FALSE /\ scsiRunning' = FALSE
    /\ ep0' = 0 /\ ep' = 0 /\ iso' = FALSE
    /\ openEp0' = openEp0 \ {local[c].ep0}
    /\ pc' = [pc EXCEPT ![c] = "idle"]
    /\ UNCHANGED <<eventThread, ev>>

StartCommit(c) ==
    /\ pc[c] = "commit"
    /\ StartCommitted(c) \/ StartAborted(c)
    /\ local' = [local EXCEPT ![c] = NoLocals]
    /\ UNCHANGED <<scsiThread, evJoin, wk, joined, history, openEp, kernel,
                   session>>

\* Write the UDC name; on failure the native backend is stopped again.
StartBind(c) ==
    /\ pc[c] = "bind"
    /\ \/ /\ bound' = TRUE /\ event' = "BIND"
          /\ pc' = [pc EXCEPT ![c] = "save"]
       \/ /\ MayFail
          /\ pc' = [pc EXCEPT ![c] = "stop"]
          /\ UNCHANGED <<bound, event>>
    /\ UNCHANGED <<globals, ev, evJoin, wk, local, joined, history, files,
                   enabled, enables, session>>

StartSave(c) ==
    /\ pc[c] = "save"
    /\ session' = TRUE
    /\ pc' = [pc EXCEPT ![c] = "verify"]
    /\ UNCHANGED <<globals, ev, evJoin, wk, local, joined, history, files,
                   kernel>>

\* isRunning() after the bind: a backend that died is stopped at once.
StartVerify(c) ==
    /\ pc[c] = "verify"
    /\ pc' = [pc EXCEPT ![c] = IF running THEN "idle"
                               ELSE IF session THEN "unbind" ELSE "stop"]
    /\ UNCHANGED <<globals, ev, evJoin, wk, local, joined, history, files,
                   kernel, session>>

-----------------------------------------------------------------------------
(* Callers: FunctionFileSystem.stop and functionfs_stop                    *)

\* Mutant: the native backend is stopped while the UDC is still bound.
StopPlace_NoUnbind == "stop"

\* stop(context) unbinds first, but only for a session it finds saved.
StopPlace == IF session THEN "unbind" ELSE "stop"

StopBegin(c) ==
    /\ pc[c] = "idle" /\ (session \/ running \/ eventThread # 0)
    /\ pc' = [pc EXCEPT ![c] = StopPlace]
    /\ Overlap(c)
    /\ UNCHANGED <<globals, ev, evJoin, wk, local, joined, kept, files, kernel,
                   session>>

StopUnbind(c) ==
    /\ pc[c] = "unbind"
    /\ \/ /\ bound' = FALSE /\ enabled' = FALSE
          /\ event' = IF bound THEN "UNBIND" ELSE event
          /\ wk' = ShutDown /\ kept' = FALSE
       \/ MayFail /\ kept' = TRUE /\ UNCHANGED <<bound, enabled, event, wk>>
    /\ pc' = [pc EXCEPT ![c] = "stop"]
    /\ UNCHANGED <<globals, ev, evJoin, local, joined, overlap, files, enables,
                   session>>

\* Mutant: the event thread is joined but stays recorded as created.
StopClaimEvent_Keeps(c) ==
    /\ local' = [local EXCEPT ![c] = [ev |-> eventThread, scsi |-> 0, ep0 |-> ep0]]
    /\ UNCHANGED eventThread

\* First locked section of functionfs_stop: claim the event thread and ep0.
StopClaimEvent(c) ==
    /\ local' = [local EXCEPT ![c] = [ev |-> eventThread, scsi |-> 0, ep0 |-> ep0]]
    /\ eventThread' = 0

NothingToStop == ~running /\ eventThread = 0 /\ scsiThread = 0 /\ ~iso

StopFlag(c) ==
    /\ pc[c] = "stop" /\ ~NothingToStop
    /\ stopRequested' = TRUE
    /\ StopClaimEvent(c)
    /\ ep0' = 0
    /\ pc' = [pc EXCEPT ![c] = "closeEps"]
    /\ UNCHANGED <<running, scsiRunning, scsiThread, ep, iso, ev, evJoin, wk,
                   joined, history, files, kernel, session>>

\* functionfs_stop returns at once; stop(context) ends the session.
StopNothing(c) ==
    /\ pc[c] = "stop" /\ NothingToStop
    /\ session' = (session /\ bound)
    /\ pc' = [pc EXCEPT ![c] = "idle"]
    /\ UNCHANGED <<globals, ev, evJoin, wk, local, joined, history, files,
                   kernel>>

StopCloseEps(c) ==
    /\ pc[c] = "closeEps"
    /\ CloseDataEndpoints
    /\ pc' = [pc EXCEPT ![c] = "closeEp0"]
    /\ UNCHANGED <<stopRequested, running, scsiRunning, eventThread,
                   scsiThread, ep0, iso, ev, evJoin, wk, local, joined,
                   history, openEp0, kernel, session>>

StopCloseEp0(c) ==
    /\ pc[c] = "closeEp0"
    /\ openEp0' = openEp0 \ {local[c].ep0}
    /\ pc' = [pc EXCEPT ![c] = IF local[c].ev # 0 THEN "joinEvent" ELSE "takeScsi"]
    /\ UNCHANGED <<globals, ev, evJoin, wk, local, joined, history, openEp,
                   kernel, session>>

StopJoinEvent(c) ==
    /\ pc[c] = "joinEvent" /\ ev[local[c].ev] = "done"
    /\ joined' = joined \cup {EventId(local[c].ev)}
    /\ local' = [local EXCEPT ![c] = NoLocals]
    /\ pc' = [pc EXCEPT ![c] = "takeScsi"]
    /\ UNCHANGED <<globals, ev, evJoin, wk, history, files, kernel, session>>

\* Mutant: the worker is left to end by itself.
StopTakeScsi_NoJoin(c) ==
    /\ pc[c] = "takeScsi"
    /\ scsiThread' = 0
    /\ pc' = [pc EXCEPT ![c] = "reset"]
    /\ UNCHANGED <<stopRequested, running, scsiRunning, eventThread, ep0, ep,
                   iso, ev, evJoin, wk, local, joined, history, files, kernel,
                   session>>

\* Second locked section: claim the worker.
StopTakeScsi(c) ==
    /\ pc[c] = "takeScsi"
    /\ local' = [local EXCEPT ![c] = [ev |-> 0, ep0 |-> 0, scsi |-> scsiThread]]
    /\ scsiThread' = 0
    /\ pc' = [pc EXCEPT ![c] = IF scsiThread # 0 THEN "joinScsi" ELSE "reset"]
    /\ UNCHANGED <<stopRequested, running, scsiRunning, eventThread, ep0, ep,
                   iso, ev, evJoin, wk, joined, history, files, kernel,
                   session>>

StopJoinScsi(c) ==
    /\ pc[c] = "joinScsi" /\ wk[local[c].scsi] = "done"
    /\ joined' = joined \cup {WorkerId(local[c].scsi)}
    /\ local' = [local EXCEPT ![c] = NoLocals]
    /\ pc' = [pc EXCEPT ![c] = "reset"]
    /\ UNCHANGED <<globals, ev, evJoin, wk, history, files, kernel, session>>

\* Last locked section, then the Java session: cleared once nothing is bound.
StopReset(c) ==
    /\ pc[c] = "reset"
    /\ stopRequested' = FALSE /\ running' = FALSE /\ scsiRunning' = FALSE
    /\ ep' = 0 /\ iso' = FALSE
    /\ session' = (session /\ bound)
    /\ pc' = [pc EXCEPT ![c] = "idle"]
    /\ UNCHANGED <<eventThread, scsiThread, ep0, ev, evJoin, wk, local, joined,
                   history, files, kernel>>

StartStep(c) == StartOpen(c) \/ StartCommit(c) \/ StartBind(c) \/ StartSave(c)
                \/ StartVerify(c)
StopStep(c) == StopUnbind(c) \/ StopFlag(c) \/ StopNothing(c) \/ StopCloseEps(c)
               \/ StopCloseEp0(c) \/ StopJoinEvent(c) \/ StopTakeScsi(c)
               \/ StopJoinScsi(c) \/ StopReset(c)

-----------------------------------------------------------------------------

BackendNext ==
    \/ HostEnable \/ HostDisable
    \/ \E w \in Workers : WorkerStep(w) \/ WorkerServe(w)
    \/ \E s \in Sessions : EventStep(s)
    \/ \E c \in Starters : StartCheck(c)
    \/ \E c \in Callers : StopBegin(c) \/ StartStep(c) \/ StopStep(c)

BackendSpec == BackendInit /\ [][BackendNext]_backendVars

\* Threads that are ready run.  The host, and the user who starts and stops,
\* owe nothing; a transfer completes only if the host takes part in it.
BackendFairness ==
    /\ \A w \in Workers : WF_backendVars(WorkerStep(w))
    /\ \A s \in Sessions : WF_backendVars(EventStep(s))
    /\ \A c \in Callers : WF_backendVars(StartStep(c) \/ StopStep(c))

FairBackendSpec == BackendSpec /\ BackendFairness

-----------------------------------------------------------------------------
(* Properties                                                              *)

BackendTypeOK ==
    /\ {stopRequested, running, scsiRunning, iso, bound, enabled, session}
          \subseteq BOOLEAN
    /\ eventThread \in {0} \cup {s \in Sessions : ev[s] # "none"}
    /\ scsiThread \in {0} \cup {w \in Workers : wk[w] # "none"}
    /\ ep0 \in Sessions \cup {0} /\ ep \in Workers \cup {0}
    /\ ev \in [Sessions -> {"none", "poll", "disable", "join", "joining",
                            "start", "closing", "final", "done"}]
    /\ evJoin \in [Sessions -> Workers \cup {0}]
    /\ wk \in [Workers -> WorkerPlaces \cup {"none", "done"}]
    /\ pc \in [Callers -> StartPlaces \cup StopPlaces \cup {"idle"}]
    /\ local \in [Callers -> [ev : Sessions \cup {0}, scsi : Workers \cup {0},
                              ep0 : Sessions \cup {0}]]
    /\ openEp0 \subseteq Sessions /\ openEp \subseteq Workers
    /\ event \in {"none", "BIND", "UNBIND", "ENABLE", "DISABLE"}
    /\ enables \in 0..MaxEnables

Alive(w) == wk[w] \in WorkerPlaces

\* Unless calls of start and stop overlapped, two SCSI workers never live
\* together: each ENABLE starts one only when the previous one has been
\* joined, whatever fails in between (start_scsi_thread_if_needed).
WorkerExclusive ==
    ~overlap => \A v, w \in Workers : Alive(v) /\ Alive(w) => v = w

\* Threads about to be joined, with the thread that joins them.
Claims == {<<c, EventId(local[c].ev)>> : c \in {x \in Callers : local[x].ev # 0}}
          \cup {<<c, WorkerId(local[c].scsi)>> :
                    c \in {x \in Callers : local[x].scsi # 0}}
          \cup {<<s, WorkerId(evJoin[s])>> :
                    s \in {x \in Sessions : evJoin[x] # 0}}

\* pthread_join is called at most once for a thread, however many stops run
\* at the same time and whichever of them and ENABLE reaches a worker first.
JoinedOnce ==
    \A p, q \in Claims : /\ p[2] \notin joined
                         /\ p[2] = q[2] => p[1] = q[1]

\* Unless calls of start and stop overlapped, a stop that has returned leaves
\* no thread, no open file of the mount and no ISO behind, so that the next
\* start can open ep0 again.
StoppedClean ==
    ~overlap /\ (\A c \in Callers : pc[c] = "idle") /\ eventThread = 0 =>
        /\ openEp0 = {} /\ FilesOf = {} /\ ~iso /\ scsiThread = 0
        /\ \A w \in Workers : ~Alive(w)
        /\ \A s \in Sessions : ev[s] \in {"none", "done"}

\* functionfs_stop returns: the joins it waits for come to an end, unless the
\* function stays bound (the unbind failed, or overlapping calls missed it)
\* or a worker began a transfer on the disabled function
\* (FunctionFileSystem.stop: "Unbind first. This wakes/tears down FunctionFS
\* endpoints before pthread_join() waits").
StopReturns ==
    \A c \in Callers :
        pc[c] \in StopPlaces ~>
            pc[c] = "idle" \/ (bound /\ (kept \/ overlap))
                           \/ (\E w \in Workers : wk[w] = "waiting")

\* A host that configured the device is served: while it stays enabled and
\* the session runs, a worker ends up waiting for its commands
\* (FunctionFileSystem.startWithFd: "The event thread then waits for
\* FunctionFS BIND/ENABLE and starts the SCSI thread on ENABLE").
EnableServed ==
    enabled /\ running ~> \/ \E w \in Workers : wk[w] = "reading"
                          \/ ~enabled \/ ~running

\* What no step of a screen, a hook, an event thread, a worker or the host may
\* break (libfunctionfs.c: the sections under g_lock keep it).
ThreadsSound == WorkerExclusive /\ StoppedClean /\ JoinedOnce
=============================================================================
