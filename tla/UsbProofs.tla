------------------------------ MODULE UsbProofs ------------------------------
(***************************************************************************)
(* Both ends of Bulk-Only Transport.                                       *)
(*                                                                         *)
(* Part one, the threads of the backend: for any number of callers,        *)
(* sessions and ENABLEs of the host, whatever fails and however the calls  *)
(* overlap, no thread is joined twice; and as long as calls of start and   *)
(* stop have not overlapped there is one SCSI worker, and a stop leaves    *)
(* nothing behind (ThreadsAreSound).  The argument has two layers.  Owned  *)
(* says who may join a thread: each one that was created is in one place   *)
(* only, a global or the locals of one thread, until it has been joined.   *)
(* InTurn says what holds while the calls have come one after the other:   *)
(* a thread that lives is in one of these places, so that a stop finds it. *)
(*                                                                         *)
(* Part two, the target: for every host that announces the data phase its  *)
(* commands ask for, of whatever length, worker and host never disagree on *)
(* the next transfer (PhasesCorrect), and the transport implements         *)
(* ScsiTarget (Implements).                                                *)
(*                                                                         *)
(* Part three, the host: for any number of calls, blocks, tries and tags,  *)
(* SYNCHRONIZE CACHE is skipped only on a drive that refuses it, whatever  *)
(* the drive answers and however late, and whichever drives are connected  *)
(* one after the other (NoOpAlwaysEarned).                                 *)
(***************************************************************************)
EXTENDS FfsBackend, FfsBot, UsbBot, SequenceTheorems, TLAPS

-----------------------------------------------------------------------------
(* Part one: the threads of the backend                                    *)

\* A caller that has claimed the session, and one on its way to the joins.
Stopping == {"closeEps", "closeEp0", "joinEvent", "takeScsi", "joinScsi", "reset"}
Claiming == {"closeEps", "closeEp0", "joinEvent"}
LiveEvent(s) == ev[s] \notin {"none", "done"}

-----------------------------------------------------------------------------
(* Who may join a thread                                                   *)

EventOwned ==
    /\ \A c \in Callers : local[c].ev # 0 =>
          /\ pc[c] \in Claiming
          /\ ev[local[c].ev] # "none"
          /\ local[c].ev # eventThread
          /\ EventId(local[c].ev) \notin joined
          /\ \A d \in Callers : local[d].ev = local[c].ev => c = d
    /\ eventThread # 0 => EventId(eventThread) \notin joined
    /\ \A s \in Sessions : EventId(s) \in joined => ev[s] # "none"

\* The next session's ep0 is one caller's alone until it has its thread.
Ep0Owned ==
    /\ \A c \in Callers : pc[c] = "commit" =>
          /\ local[c].ep0 \in Sessions /\ ev[local[c].ep0] = "none"
          /\ openEp0 = {local[c].ep0}
          /\ \A d \in Callers : pc[d] = "commit" => c = d
    /\ \A c \in Callers : pc[c] # "commit" /\ local[c].ep0 # 0 => ev[local[c].ep0] # "none"
    /\ ep0 # 0 => ev[ep0] # "none"

WorkerOwned ==
    /\ \A c \in Callers : local[c].scsi # 0 =>
          /\ pc[c] = "joinScsi"
          /\ wk[local[c].scsi] # "none"
          /\ local[c].scsi # scsiThread
          /\ WorkerId(local[c].scsi) \notin joined
          /\ \A d \in Callers : local[d].scsi = local[c].scsi => c = d
          /\ \A s \in Sessions : evJoin[s] # local[c].scsi
    /\ \A s \in Sessions : evJoin[s] # 0 =>
          /\ ev[s] = "joining"
          /\ wk[evJoin[s]] # "none"
          /\ evJoin[s] # scsiThread
          /\ WorkerId(evJoin[s]) \notin joined
          /\ \A r \in Sessions : evJoin[r] = evJoin[s] => r = s
    /\ scsiThread # 0 => WorkerId(scsiThread) \notin joined
    /\ \A w \in Workers : WorkerId(w) \in joined => wk[w] # "none"

Owned == EventOwned /\ Ep0Owned /\ WorkerOwned

-----------------------------------------------------------------------------
(* What holds while calls have not overlapped                              *)

OneCaller == \A c, d \in Callers : pc[c] # "idle" /\ pc[d] # "idle" => c = d

CallInTurn ==
    \A c \in Callers :
        /\ pc[c] \in Stopping => stopRequested /\ eventThread = 0
        /\ pc[c] \in {"open", "commit"} => eventThread = 0

\* The event thread that lives, what is open and the ISO belong to a session
\* that a caller is at, or a global names.
EventInTurn ==
    /\ \A s \in Sessions : LiveEvent(s) =>
          s = eventThread \/ \E c \in Callers : local[c].ev = s
    /\ ep0 # 0 => ep0 = eventThread
    /\ \A s \in openEp0 : \/ s = ep0
                          \/ \E c \in Callers : /\ pc[c] \in {"commit", "closeEps", "closeEp0"}
                                                /\ local[c].ep0 = s
    /\ iso => eventThread # 0 \/ \E c \in Callers : pc[c] \in Stopping

\* The worker that lives is the one to be joined.
WorkerInTurn ==
    /\ \A w \in Workers : Alive(w) =>
          w = scsiThread \/ \E c \in Callers : local[c].scsi = w
    /\ scsiThread # 0 =>
          \/ eventThread # 0
          \/ \E c \in Callers : pc[c] \in Claiming \cup {"takeScsi"}
    /\ scsiThread # 0 /\ ~scsiRunning => wk[scsiThread] = "done"
    /\ \A s \in Sessions : evJoin[s] # 0 => wk[evJoin[s]] = "done"
    /\ \A w \in openEp : \/ wk[w] = "publish"
                         \/ wk[w] \in {"loop", "waiting", "reading", "close"} /\ ep = w

InTurn == OneCaller /\ CallInTurn /\ EventInTurn /\ WorkerInTurn

Types == BackendTypeOK /\ overlap \in BOOLEAN
IInv == Types /\ Owned /\ (~overlap => InTurn)

-----------------------------------------------------------------------------
(* The initial state, and types                                            *)

\* At the start nothing is open, no thread is there and no call is at work.
LEMMA IInvInit == BackendInit => IInv
<1> SUFFICES ASSUME BackendInit PROVE IInv
  OBVIOUS
<1> USE DEF BackendInit, NoLocals
<1>1. Types
  <2>1. /\ {stopRequested, running, scsiRunning, iso, bound, enabled, session} \subseteq BOOLEAN
        /\ eventThread = 0 /\ scsiThread = 0 /\ ep0 = 0 /\ ep = 0 /\ overlap \in BOOLEAN
    OBVIOUS
  <2>2. local \in [Callers -> [ev : Sessions \cup {0}, scsi : Workers \cup {0},
                               ep0 : Sessions \cup {0}]]
    OBVIOUS
  <2>3. /\ ev \in [Sessions -> {"none"}] /\ wk \in [Workers -> {"none"}]
        /\ evJoin \in [Sessions -> {0}] /\ pc \in [Callers -> {"idle"}]
    OBVIOUS
  <2>4. openEp0 = {} /\ openEp = {} /\ event = "none" /\ enables \in 0 .. MaxEnables
    BY BoundsAssumption
  <2> QED
    BY <2>1, <2>2, <2>3, <2>4 DEF Types, BackendTypeOK
<1>2. Owned
  BY DEF Owned, EventOwned, Ep0Owned, WorkerOwned, Sessions, Workers
<1>3. OneCaller /\ CallInTurn
  BY DEF OneCaller, CallInTurn, Stopping
<1>4. EventInTurn
  BY DEF EventInTurn, LiveEvent
<1>5. WorkerInTurn
  BY DEF WorkerInTurn, Alive, WorkerPlaces
<1> QED
  BY <1>1, <1>2, <1>3, <1>4, <1>5 DEF IInv, InTurn

\* Every step keeps the types.
LEMMA TypesStep ==
    ASSUME Types, Owned, [BackendNext]_backendVars PROVE Types'
<1> USE DEF Types, BackendTypeOK, Sessions, Workers, WorkerPlaces, StartPlaces, StopPlaces
<1>1. ASSUME HostEnable PROVE Types'
  BY <1>1, BoundsAssumption DEF HostEnable, globals, history, files, kernel
<1>2. ASSUME HostDisable PROVE Types'
  BY <1>2, BoundsAssumption
     DEF HostDisable, ShutDown, globals, history, files, kernel
<1>3. ASSUME NEW w \in Workers, WorkerOpen(w) PROVE Types'
  BY ZenonT(60), <1>3, BoundsAssumption
     DEF WorkerOpen, WorkerUnchanged, globals, history, files, kernel
<1>4. ASSUME NEW w \in Workers, WorkerPublish(w) PROVE Types'
  BY <1>4, BoundsAssumption
     DEF WorkerPublish, WorkerUnchanged, globals, history, files, kernel
<1>5. ASSUME NEW w \in Workers, WorkerLoop(w) PROVE Types'
  BY <1>5, BoundsAssumption
     DEF WorkerLoop, WorkerUnchanged, globals, history, files, kernel
<1>6. ASSUME NEW w \in Workers, WorkerServe(w) PROVE Types'
  BY <1>6, BoundsAssumption
     DEF WorkerServe, WorkerUnchanged, globals, history, files, kernel
<1>7. ASSUME NEW w \in Workers, WorkerClose(w) PROVE Types'
  BY <1>7, BoundsAssumption
     DEF WorkerClose, CloseDataEndpoints, WorkerUnchanged, globals, history,
         files, kernel
<1>8. ASSUME NEW w \in Workers, WorkerFinal(w) PROVE Types'
  BY <1>8, BoundsAssumption
     DEF WorkerFinal, WorkerUnchanged, globals, history, files, kernel
<1>9. ASSUME NEW s \in Sessions, EventTake(s) PROVE Types'
  BY <1>9, BoundsAssumption
     DEF EventTake, EventUnchanged, globals, history, files, kernel
<1>10. ASSUME NEW s \in Sessions, EventDisable(s) PROVE Types'
  BY <1>10, BoundsAssumption
     DEF EventDisable, CloseDataEndpoints, EventUnchanged, globals, history,
         files, kernel
<1>11. ASSUME NEW s \in Sessions, EventClaim(s) PROVE Types'
  BY <1>11, BoundsAssumption
     DEF EventClaim, EventUnchanged, globals, history, files, kernel
<1>12. ASSUME NEW s \in Sessions, EventJoin(s) PROVE Types'
  BY <1>12, BoundsAssumption
     DEF EventJoin, WorkerId, EventUnchanged, globals, history, files, kernel
<1>13. ASSUME NEW s \in Sessions, EventStart(s) PROVE Types'
  BY ZenonT(60), <1>13, BoundsAssumption
     DEF EventStart, StartScsi, NoStartScsi, MayStartScsi, FreshWorker,
         EventUnchanged, globals, history, files, kernel
<1>14. ASSUME NEW s \in Sessions, EventLeave(s) PROVE Types'
  BY <1>14, BoundsAssumption
     DEF EventLeave, EventUnchanged, globals, history, files, kernel
<1>15. ASSUME NEW s \in Sessions, EventClosing(s) PROVE Types'
  BY <1>15, BoundsAssumption
     DEF EventClosing, CloseDataEndpoints, EventUnchanged, globals, history,
         files, kernel
<1>16. ASSUME NEW s \in Sessions, EventFinal(s) PROVE Types'
  BY <1>16, BoundsAssumption
     DEF EventFinal, EventUnchanged, globals, history, files, kernel
<1>17. ASSUME NEW c \in Callers, StartCheck(c) PROVE Types'
  BY <1>17, BoundsAssumption
     DEF StartCheck, Overlap, globals, history, files, kernel
<1>18. ASSUME NEW c \in Callers, StopBegin(c) PROVE Types'
  BY <1>18, BoundsAssumption
     DEF StopBegin, Overlap, StopPlace, globals, history, files, kernel
<1>19. ASSUME NEW c \in Callers, StartOpen(c) PROVE Types'
  <2>1. openEp0' \subseteq Sessions
    BY <1>19 DEF StartOpen, FreshSession, Types, BackendTypeOK
  <2>2. local' \in [Callers -> [ev : Sessions \cup {0}, scsi : Workers \cup {0},
                                 ep0 : Sessions \cup {0}]]
    <3>1. local \in [Callers -> [ev : Sessions \cup {0}, scsi : Workers \cup {0},
                                 ep0 : Sessions \cup {0}]]
      BY DEF Types, BackendTypeOK
    <3>2. CASE local' = local
      BY <3>1, <3>2
    <3>3. CASE \E n \in Sessions :
                   local' = [local EXCEPT ![c] = [ev |-> 0, scsi |-> 0, ep0 |-> n]]
      BY <3>1, <3>3
    <3> QED
      BY <1>19, <3>2, <3>3 DEF StartOpen, FreshSession
  <2>3. pc' \in [Callers -> StartPlaces \cup StopPlaces \cup {"idle"}]
    BY <1>19 DEF StartOpen, Types, BackendTypeOK, StartPlaces
  <2>4. UNCHANGED <<globals, ev, evJoin, wk, joined, history, openEp, kernel, session>>
    BY <1>19 DEF StartOpen
  <2> QED
    BY <2>1, <2>2, <2>3, <2>4 DEF Types, BackendTypeOK, Sessions, Workers,
       globals, history, kernel
<1>20. ASSUME NEW c \in Callers, StartCommit(c) PROVE Types'
  BY ZenonT(60), <1>20, BoundsAssumption
     DEF StartCommit, StartCommitted, StartAborted, NoLocals, globals,
         history, files, kernel
<1>21. ASSUME NEW c \in Callers, StartBind(c) PROVE Types'
  BY <1>21, BoundsAssumption DEF StartBind, globals, history, files, kernel
<1>22. ASSUME NEW c \in Callers, StartSave(c) PROVE Types'
  BY <1>22, BoundsAssumption DEF StartSave, globals, history, files, kernel
<1>23. ASSUME NEW c \in Callers, StartVerify(c) PROVE Types'
  BY <1>23, BoundsAssumption DEF StartVerify, globals, history, files, kernel
<1>24. ASSUME NEW c \in Callers, StopUnbind(c) PROVE Types'
  BY ZenonT(60), <1>24, BoundsAssumption
     DEF StopUnbind, ShutDown, globals, history, files, kernel
<1>25. ASSUME NEW c \in Callers, StopFlag(c) PROVE Types'
  BY <1>25, BoundsAssumption
     DEF StopFlag, StopClaimEvent, NothingToStop, globals, history, files,
         kernel
<1>26. ASSUME NEW c \in Callers, StopNothing(c) PROVE Types'
  BY <1>26, BoundsAssumption
     DEF StopNothing, NothingToStop, globals, history, files, kernel
<1>27. ASSUME NEW c \in Callers, StopCloseEps(c) PROVE Types'
  BY <1>27, BoundsAssumption
     DEF StopCloseEps, CloseDataEndpoints, globals, history, files, kernel
<1>28. ASSUME NEW c \in Callers, StopCloseEp0(c) PROVE Types'
  BY <1>28, BoundsAssumption DEF StopCloseEp0, globals, history, files, kernel
<1>29. ASSUME NEW c \in Callers, StopJoinEvent(c) PROVE Types'
  BY <1>29, BoundsAssumption
     DEF StopJoinEvent, NoLocals, EventId, globals, history, files, kernel
<1>30. ASSUME NEW c \in Callers, StopTakeScsi(c) PROVE Types'
  BY <1>30, BoundsAssumption DEF StopTakeScsi, globals, history, files, kernel
<1>31. ASSUME NEW c \in Callers, StopJoinScsi(c) PROVE Types'
  BY <1>31, BoundsAssumption
     DEF StopJoinScsi, NoLocals, WorkerId, globals, history, files, kernel
<1>32. ASSUME NEW c \in Callers, StopReset(c) PROVE Types'
  BY <1>32, BoundsAssumption DEF StopReset, globals, history, files, kernel
<1>33. CASE UNCHANGED backendVars
  BY <1>33 DEF backendVars, threads, globals, history, files, kernel
<1> QED
  BY <1>1, <1>2, <1>3, <1>4, <1>5, <1>6, <1>7, <1>8, <1>9, <1>10, <1>11,
      <1>12, <1>13, <1>14, <1>15, <1>16, <1>17, <1>18, <1>19, <1>20, <1>21,
      <1>22, <1>23, <1>24, <1>25, <1>26, <1>27, <1>28, <1>29, <1>30, <1>31,
      <1>32, <1>33, CallersAssumption
     DEF BackendNext, WorkerStep, EventStep, StartStep, StopStep

-----------------------------------------------------------------------------
(* Every step keeps the ownership of threads                               *)

\* A step that creates or claims no event thread keeps their ownership.
LEMMA EventsKept ==
    ASSUME Types, EventOwned, UNCHANGED <<eventThread, joined>>,
           \A d \in Callers : /\ local'[d].ev = local[d].ev
                              /\ local[d].ev # 0 => pc'[d] \in Claiming,
           \A s \in Sessions : ev[s] # "none" => ev'[s] # "none"
    PROVE  EventOwned'
<1>1. \A d \in Callers : local[d].ev \in Sessions \cup {0}
  BY DEF Types, BackendTypeOK
<1>2. \A d \in Callers : local'[d].ev # 0 =>
          /\ pc'[d] \in Claiming /\ ev'[local'[d].ev] # "none"
          /\ local'[d].ev # eventThread' /\ EventId(local'[d].ev) \notin joined'
          /\ \A e \in Callers : local'[e].ev = local'[d].ev => d = e
  BY <1>1 DEF EventOwned
<1>3. /\ eventThread' # 0 => EventId(eventThread') \notin joined'
      /\ \A s \in Sessions : EventId(s) \in joined' => ev'[s] # "none"
  BY DEF EventOwned, EventId
<1> QED
  BY <1>2, <1>3 DEF EventOwned, EventId

\* The same for a step that creates, claims or joins no worker.
LEMMA WorkersKept ==
    ASSUME Types, WorkerOwned, UNCHANGED <<scsiThread, joined>>,
           \A d \in Callers : /\ local'[d].scsi = local[d].scsi
                              /\ local[d].scsi # 0 => pc'[d] = "joinScsi",
           \A s \in Sessions : /\ evJoin'[s] = evJoin[s]
                               /\ evJoin[s] # 0 => ev'[s] = "joining",
           \A w \in Workers : wk[w] # "none" => wk'[w] # "none"
    PROVE  WorkerOwned'
<1>1. /\ \A d \in Callers : local[d].scsi \in Workers \cup {0}
      /\ \A s \in Sessions : evJoin[s] \in Workers \cup {0}
  BY DEF Types, BackendTypeOK
<1>2. \A d \in Callers : local'[d].scsi # 0 =>
          /\ pc'[d] = "joinScsi" /\ wk'[local'[d].scsi] # "none"
          /\ local'[d].scsi # scsiThread' /\ WorkerId(local'[d].scsi) \notin joined'
          /\ \A e \in Callers : local'[e].scsi = local'[d].scsi => d = e
          /\ \A s \in Sessions : evJoin'[s] # local'[d].scsi
  BY <1>1 DEF WorkerOwned
<1>3. \A s \in Sessions : evJoin'[s] # 0 =>
          /\ ev'[s] = "joining" /\ wk'[evJoin'[s]] # "none"
          /\ evJoin'[s] # scsiThread' /\ WorkerId(evJoin'[s]) \notin joined'
          /\ \A r \in Sessions : evJoin'[r] = evJoin'[s] => r = s
  BY <1>1 DEF WorkerOwned
<1>4. /\ scsiThread' # 0 => WorkerId(scsiThread') \notin joined'
      /\ \A w \in Workers : WorkerId(w) \in joined' => wk'[w] # "none"
  BY DEF WorkerOwned, WorkerId
<1> QED
  BY <1>2, <1>3, <1>4 DEF WorkerOwned, WorkerId

\* The event thread that claims a worker is nobody's to join.
LEMMA EventClaimEvents ==
    ASSUME Types, Owned, NEW s \in Sessions, EventClaim(s)
    PROVE  EventOwned'
<1>1. UNCHANGED <<eventThread, joined, local, pc>>
  BY DEF EventClaim, EventUnchanged
<1>2. \A r \in Sessions : ev[r] # "none" => ev'[r] # "none"
  BY DEF EventClaim, Types, BackendTypeOK
<1> QED
  BY <1>1, <1>2, EventsKept DEF Owned, EventOwned

\* The thread of a new session is a new one: no stop has claimed it.
LEMMA StartCommitEvents ==
    ASSUME Types, Owned, NEW c \in Callers, StartCommit(c)
    PROVE  EventOwned'
<1> DEFINE n == local[c].ep0
<1>1. n \in Sessions /\ ev[n] = "none" /\ EventId(n) \notin joined
  BY DEF StartCommit, Owned, Ep0Owned, EventOwned
<1>2. \A d \in Callers : /\ d # c => local'[d] = local[d] /\ pc'[d] = pc[d]
                         /\ d = c => local'[d].ev = 0
  BY
     DEF StartCommit, StartCommitted, StartAborted, NoLocals, Types,
         BackendTypeOK
<1>3. \A s \in Sessions : ev[s] # "none" => ev'[s] # "none"
  BY <1>1 DEF StartCommit, StartCommitted, StartAborted, Types, BackendTypeOK
<1>4. joined' = joined /\ eventThread' \in {eventThread, n}
  BY DEF StartCommit, StartCommitted, StartAborted
<1>5. \A d \in Callers : local[d].ev \in Sessions \cup {0}
  BY DEF Types, BackendTypeOK
<1>6. \A d \in Callers : local'[d].ev # 0 =>
          /\ pc'[d] \in Claiming /\ ev'[local'[d].ev] # "none"
          /\ local'[d].ev # eventThread' /\ EventId(local'[d].ev) \notin joined'
          /\ \A e \in Callers : local'[e].ev = local'[d].ev => d = e
  BY <1>1, <1>2, <1>3, <1>4, <1>5 DEF Owned, EventOwned
<1>7. /\ eventThread' # 0 => EventId(eventThread') \notin joined'
      /\ \A s \in Sessions : EventId(s) \in joined' => ev'[s] # "none"
  BY <1>1, <1>3, <1>4 DEF Owned, EventOwned, EventId
<1> QED
  BY <1>6, <1>7 DEF EventOwned, EventId

\* A stop takes the event thread out of the global: no other can claim it.
LEMMA StopFlagEvents ==
    ASSUME Types, Owned, NEW c \in Callers, StopFlag(c)
    PROVE  EventOwned'
<1>1. local[c].ev = 0
  BY DEF StopFlag, Owned, EventOwned, Claiming
<1>2. \A d \in Callers : /\ d # c => local'[d] = local[d] /\ pc'[d] = pc[d]
                         /\ d = c => local'[d].ev = eventThread /\ pc'[d] \in Claiming
  BY DEF StopFlag, StopClaimEvent, Claiming, Types, BackendTypeOK
<1>3. UNCHANGED <<ev, joined>> /\ eventThread' = 0
  BY DEF StopFlag, StopClaimEvent
<1>4. eventThread # 0 => ev[eventThread] # "none" /\ EventId(eventThread) \notin joined
  BY DEF Types, BackendTypeOK, Owned, EventOwned
<1>5. \A d \in Callers : local'[d].ev # 0 =>
          /\ pc'[d] \in Claiming /\ ev'[local'[d].ev] # "none"
          /\ local'[d].ev # eventThread' /\ EventId(local'[d].ev) \notin joined'
          /\ \A e \in Callers : local'[e].ev = local'[d].ev => d = e
  BY <1>1, <1>2, <1>3, <1>4 DEF Owned, EventOwned
<1>6. /\ eventThread' # 0 => EventId(eventThread') \notin joined'
      /\ \A s \in Sessions : EventId(s) \in joined' => ev'[s] # "none"
  BY <1>3 DEF Owned, EventOwned
<1> QED
  BY <1>5, <1>6 DEF EventOwned, EventId

\* A start that binds the function has claimed no event thread.
LEMMA StartBindEvents ==
    ASSUME Types, Owned, NEW c \in Callers, StartBind(c)
    PROVE  EventOwned'
<1>1. UNCHANGED <<eventThread, joined, local, ev>>
  BY DEF StartBind, globals, history
<1>2. local[c].ev = 0
  BY DEF StartBind, Owned, EventOwned, Claiming
<1>3. \A d \in Callers \ {c} : pc'[d] = pc[d]
  BY DEF StartBind, Types, BackendTypeOK
<1> QED
  BY <1>1, <1>2, <1>3 DEF Owned, EventOwned

\* Every step keeps the ownership of event threads.
LEMMA EventOwnedStep ==
    ASSUME Types, Owned, [BackendNext]_backendVars PROVE EventOwned'
<1> USE DEF Types, BackendTypeOK, Sessions, Workers, Owned, EventOwned, Ep0Owned, Claiming, EventId, WorkerId
<1>1. ASSUME HostEnable PROVE EventOwned'
  BY <1>1 DEF HostEnable, globals, history, files, kernel
<1>2. ASSUME HostDisable PROVE EventOwned'
  BY <1>2 DEF HostDisable, ShutDown, globals, history, files, kernel
<1>3. ASSUME NEW w \in Workers, WorkerOpen(w) PROVE EventOwned'
  BY <1>3 DEF WorkerOpen, WorkerUnchanged, globals, history, files, kernel
<1>4. ASSUME NEW w \in Workers, WorkerPublish(w) PROVE EventOwned'
  BY <1>4 DEF WorkerPublish, WorkerUnchanged, globals, history, files, kernel
<1>5. ASSUME NEW w \in Workers, WorkerLoop(w) PROVE EventOwned'
  BY <1>5 DEF WorkerLoop, WorkerUnchanged, globals, history, files, kernel
<1>6. ASSUME NEW w \in Workers, WorkerServe(w) PROVE EventOwned'
  BY <1>6 DEF WorkerServe, WorkerUnchanged, globals, history, files, kernel
<1>7. ASSUME NEW w \in Workers, WorkerClose(w) PROVE EventOwned'
  BY <1>7
     DEF WorkerClose, CloseDataEndpoints, WorkerUnchanged, globals, history,
         files, kernel
<1>8. ASSUME NEW w \in Workers, WorkerFinal(w) PROVE EventOwned'
  BY <1>8 DEF WorkerFinal, WorkerUnchanged, globals, history, files, kernel
<1>9. ASSUME NEW s \in Sessions, EventTake(s) PROVE EventOwned'
  BY <1>9 DEF EventTake, EventUnchanged, globals, history, files, kernel
<1>10. ASSUME NEW s \in Sessions, EventDisable(s) PROVE EventOwned'
  BY <1>10
     DEF EventDisable, CloseDataEndpoints, EventUnchanged, globals, history,
         files, kernel
<1>11. ASSUME NEW s \in Sessions, EventClaim(s) PROVE EventOwned'
  BY <1>11, EventClaimEvents
<1>12. ASSUME NEW s \in Sessions, EventJoin(s) PROVE EventOwned'
  BY <1>12
     DEF EventJoin, WorkerId, EventUnchanged, globals, history, files, kernel
<1>13. ASSUME NEW s \in Sessions, EventStart(s) PROVE EventOwned'
  BY <1>13
     DEF EventStart, StartScsi, NoStartScsi, MayStartScsi, FreshWorker,
         EventUnchanged, globals, history, files, kernel
<1>14. ASSUME NEW s \in Sessions, EventLeave(s) PROVE EventOwned'
  BY <1>14 DEF EventLeave, EventUnchanged, globals, history, files, kernel
<1>15. ASSUME NEW s \in Sessions, EventClosing(s) PROVE EventOwned'
  BY <1>15
     DEF EventClosing, CloseDataEndpoints, EventUnchanged, globals, history,
         files, kernel
<1>16. ASSUME NEW s \in Sessions, EventFinal(s) PROVE EventOwned'
  BY <1>16 DEF EventFinal, EventUnchanged, globals, history, files, kernel
<1>17. ASSUME NEW c \in Callers, StartCheck(c) PROVE EventOwned'
  BY <1>17 DEF StartCheck, Overlap, globals, history, files, kernel
<1>18. ASSUME NEW c \in Callers, StopBegin(c) PROVE EventOwned'
  BY <1>18 DEF StopBegin, Overlap, StopPlace, globals, history, files, kernel
<1>19. ASSUME NEW c \in Callers, StartOpen(c) PROVE EventOwned'
  BY <1>19
     DEF StartOpen, FreshSession, FilesOf, NoLocals, globals, history, files,
         kernel
<1>20. ASSUME NEW c \in Callers, StartCommit(c) PROVE EventOwned'
  BY <1>20, StartCommitEvents
<1>21. ASSUME NEW c \in Callers, StartBind(c) PROVE EventOwned'
  BY <1>21, StartBindEvents
<1>22. ASSUME NEW c \in Callers, StartSave(c) PROVE EventOwned'
  BY <1>22 DEF StartSave, globals, history, files, kernel
<1>23. ASSUME NEW c \in Callers, StartVerify(c) PROVE EventOwned'
  BY <1>23 DEF StartVerify, globals, history, files, kernel
<1>24. ASSUME NEW c \in Callers, StopUnbind(c) PROVE EventOwned'
  BY <1>24 DEF StopUnbind, ShutDown, globals, history, files, kernel
<1>25. ASSUME NEW c \in Callers, StopFlag(c) PROVE EventOwned'
  BY <1>25, StopFlagEvents
<1>26. ASSUME NEW c \in Callers, StopNothing(c) PROVE EventOwned'
  BY <1>26 DEF StopNothing, NothingToStop, globals, history, files, kernel
<1>27. ASSUME NEW c \in Callers, StopCloseEps(c) PROVE EventOwned'
  BY <1>27
     DEF StopCloseEps, CloseDataEndpoints, globals, history, files, kernel
<1>28. ASSUME NEW c \in Callers, StopCloseEp0(c) PROVE EventOwned'
  BY <1>28 DEF StopCloseEp0, globals, history, files, kernel
<1>29. ASSUME NEW c \in Callers, StopJoinEvent(c) PROVE EventOwned'
  BY <1>29
     DEF StopJoinEvent, NoLocals, EventId, globals, history, files, kernel
<1>30. ASSUME NEW c \in Callers, StopTakeScsi(c) PROVE EventOwned'
  BY <1>30 DEF StopTakeScsi, globals, history, files, kernel
<1>31. ASSUME NEW c \in Callers, StopJoinScsi(c) PROVE EventOwned'
  BY <1>31
     DEF StopJoinScsi, NoLocals, WorkerId, globals, history, files, kernel
<1>32. ASSUME NEW c \in Callers, StopReset(c) PROVE EventOwned'
  BY <1>32 DEF StopReset, globals, history, files, kernel
<1>33. CASE UNCHANGED backendVars
  BY <1>33 DEF backendVars, threads, globals, history, files, kernel
<1> QED
  BY <1>1, <1>2, <1>3, <1>4, <1>5, <1>6, <1>7, <1>8, <1>9, <1>10, <1>11,
      <1>12, <1>13, <1>14, <1>15, <1>16, <1>17, <1>18, <1>19, <1>20, <1>21,
      <1>22, <1>23, <1>24, <1>25, <1>26, <1>27, <1>28, <1>29, <1>30, <1>31,
      <1>32, <1>33, CallersAssumption
     DEF BackendNext, WorkerStep, EventStep, StartStep, StopStep

\* Claiming a worker changes nothing about ep0.
LEMMA EventClaimEp0 ==
    ASSUME Types, Owned, NEW s \in Sessions, EventClaim(s)
    PROVE  Ep0Owned'
<1>1. UNCHANGED <<pc, local, openEp0, ep0>>
  BY DEF EventClaim, EventUnchanged
<1>2. \A r \in Sessions : (ev[r] # "none") = (ev'[r] # "none")
  BY DEF EventClaim, Types, BackendTypeOK
<1>3. ep0 \in Sessions \cup {0} /\ \A d \in Callers : local[d].ep0 \in Sessions \cup {0}
  BY DEF Types, BackendTypeOK
<1> QED
  BY <1>1, <1>2, <1>3 DEF Owned, Ep0Owned

\* A start that has created its event thread no longer has ep0 for itself.
LEMMA StartCommitEp0 ==
    ASSUME Types, Owned, NEW c \in Callers, StartCommit(c)
    PROVE  Ep0Owned'
<1> DEFINE n == local[c].ep0
<1>1. n \in Sessions /\ \A d \in Callers \ {c} : pc[d] # "commit"
  BY DEF StartCommit, Owned, Ep0Owned
<1>2. \A d \in Callers : /\ d # c => local'[d] = local[d] /\ pc'[d] = pc[d]
                         /\ d = c => local'[d].ep0 = 0 /\ pc'[d] # "commit"
  BY
     DEF StartCommit, StartCommitted, StartAborted, NoLocals, Types,
         BackendTypeOK
<1>3. \A s \in Sessions : ev[s] # "none" => ev'[s] # "none"
  BY <1>1 DEF StartCommit, StartCommitted, StartAborted, Types, BackendTypeOK
<1>4. ep0' # 0 => ev'[ep0'] # "none"
  BY <1>1 DEF StartCommit, StartCommitted, StartAborted, Types, BackendTypeOK
<1>5. \A d \in Callers : local[d].ep0 \in Sessions \cup {0}
  BY DEF Types, BackendTypeOK
<1> QED
  BY <1>1, <1>2, <1>3, <1>4, <1>5 DEF Owned, Ep0Owned

\* Every step keeps the ownership of ep0.
LEMMA Ep0OwnedStep ==
    ASSUME Types, Owned, [BackendNext]_backendVars PROVE Ep0Owned'
<1> USE DEF Types, BackendTypeOK, Sessions, Workers, Owned, EventOwned, Ep0Owned, EventId, WorkerId
<1>1. ASSUME HostEnable PROVE Ep0Owned'
  BY <1>1 DEF HostEnable, globals, history, files, kernel
<1>2. ASSUME HostDisable PROVE Ep0Owned'
  BY <1>2 DEF HostDisable, ShutDown, globals, history, files, kernel
<1>3. ASSUME NEW w \in Workers, WorkerOpen(w) PROVE Ep0Owned'
  BY <1>3 DEF WorkerOpen, WorkerUnchanged, globals, history, files, kernel
<1>4. ASSUME NEW w \in Workers, WorkerPublish(w) PROVE Ep0Owned'
  BY <1>4 DEF WorkerPublish, WorkerUnchanged, globals, history, files, kernel
<1>5. ASSUME NEW w \in Workers, WorkerLoop(w) PROVE Ep0Owned'
  BY <1>5 DEF WorkerLoop, WorkerUnchanged, globals, history, files, kernel
<1>6. ASSUME NEW w \in Workers, WorkerServe(w) PROVE Ep0Owned'
  BY <1>6 DEF WorkerServe, WorkerUnchanged, globals, history, files, kernel
<1>7. ASSUME NEW w \in Workers, WorkerClose(w) PROVE Ep0Owned'
  BY <1>7
     DEF WorkerClose, CloseDataEndpoints, WorkerUnchanged, globals, history,
         files, kernel
<1>8. ASSUME NEW w \in Workers, WorkerFinal(w) PROVE Ep0Owned'
  BY <1>8 DEF WorkerFinal, WorkerUnchanged, globals, history, files, kernel
<1>9. ASSUME NEW s \in Sessions, EventTake(s) PROVE Ep0Owned'
  BY <1>9 DEF EventTake, EventUnchanged, globals, history, files, kernel
<1>10. ASSUME NEW s \in Sessions, EventDisable(s) PROVE Ep0Owned'
  BY <1>10
     DEF EventDisable, CloseDataEndpoints, EventUnchanged, globals, history,
         files, kernel
<1>11. ASSUME NEW s \in Sessions, EventClaim(s) PROVE Ep0Owned'
  BY <1>11, EventClaimEp0
<1>12. ASSUME NEW s \in Sessions, EventJoin(s) PROVE Ep0Owned'
  BY <1>12
     DEF EventJoin, WorkerId, EventUnchanged, globals, history, files, kernel
<1>13. ASSUME NEW s \in Sessions, EventStart(s) PROVE Ep0Owned'
  BY <1>13
     DEF EventStart, StartScsi, NoStartScsi, MayStartScsi, FreshWorker,
         EventUnchanged, globals, history, files, kernel
<1>14. ASSUME NEW s \in Sessions, EventLeave(s) PROVE Ep0Owned'
  BY <1>14 DEF EventLeave, EventUnchanged, globals, history, files, kernel
<1>15. ASSUME NEW s \in Sessions, EventClosing(s) PROVE Ep0Owned'
  BY <1>15
     DEF EventClosing, CloseDataEndpoints, EventUnchanged, globals, history,
         files, kernel
<1>16. ASSUME NEW s \in Sessions, EventFinal(s) PROVE Ep0Owned'
  BY <1>16 DEF EventFinal, EventUnchanged, globals, history, files, kernel
<1>17. ASSUME NEW c \in Callers, StartCheck(c) PROVE Ep0Owned'
  BY <1>17 DEF StartCheck, Overlap, globals, history, files, kernel
<1>18. ASSUME NEW c \in Callers, StopBegin(c) PROVE Ep0Owned'
  BY <1>18 DEF StopBegin, Overlap, StopPlace, globals, history, files, kernel
<1>19. ASSUME NEW c \in Callers, StartOpen(c) PROVE Ep0Owned'
  BY <1>19
     DEF StartOpen, FreshSession, FilesOf, NoLocals, globals, history, files,
         kernel
<1>20. ASSUME NEW c \in Callers, StartCommit(c) PROVE Ep0Owned'
  BY <1>20, StartCommitEp0
<1>21. ASSUME NEW c \in Callers, StartBind(c) PROVE Ep0Owned'
  BY <1>21 DEF StartBind, globals, history, files, kernel
<1>22. ASSUME NEW c \in Callers, StartSave(c) PROVE Ep0Owned'
  BY <1>22 DEF StartSave, globals, history, files, kernel
<1>23. ASSUME NEW c \in Callers, StartVerify(c) PROVE Ep0Owned'
  BY <1>23 DEF StartVerify, globals, history, files, kernel
<1>24. ASSUME NEW c \in Callers, StopUnbind(c) PROVE Ep0Owned'
  BY <1>24 DEF StopUnbind, ShutDown, globals, history, files, kernel
<1>25. ASSUME NEW c \in Callers, StopFlag(c) PROVE Ep0Owned'
  BY <1>25
     DEF StopFlag, StopClaimEvent, NothingToStop, globals, history, files,
         kernel
<1>26. ASSUME NEW c \in Callers, StopNothing(c) PROVE Ep0Owned'
  BY <1>26 DEF StopNothing, NothingToStop, globals, history, files, kernel
<1>27. ASSUME NEW c \in Callers, StopCloseEps(c) PROVE Ep0Owned'
  BY <1>27
     DEF StopCloseEps, CloseDataEndpoints, globals, history, files, kernel
<1>28. ASSUME NEW c \in Callers, StopCloseEp0(c) PROVE Ep0Owned'
  BY <1>28 DEF StopCloseEp0, globals, history, files, kernel
<1>29. ASSUME NEW c \in Callers, StopJoinEvent(c) PROVE Ep0Owned'
  BY <1>29
     DEF StopJoinEvent, NoLocals, EventId, globals, history, files, kernel
<1>30. ASSUME NEW c \in Callers, StopTakeScsi(c) PROVE Ep0Owned'
  BY <1>30 DEF StopTakeScsi, globals, history, files, kernel
<1>31. ASSUME NEW c \in Callers, StopJoinScsi(c) PROVE Ep0Owned'
  BY <1>31
     DEF StopJoinScsi, NoLocals, WorkerId, globals, history, files, kernel
<1>32. ASSUME NEW c \in Callers, StopReset(c) PROVE Ep0Owned'
  BY <1>32 DEF StopReset, globals, history, files, kernel
<1>33. CASE UNCHANGED backendVars
  BY <1>33 DEF backendVars, threads, globals, history, files, kernel
<1> QED
  BY <1>1, <1>2, <1>3, <1>4, <1>5, <1>6, <1>7, <1>8, <1>9, <1>10, <1>11,
      <1>12, <1>13, <1>14, <1>15, <1>16, <1>17, <1>18, <1>19, <1>20, <1>21,
      <1>22, <1>23, <1>24, <1>25, <1>26, <1>27, <1>28, <1>29, <1>30, <1>31,
      <1>32, <1>33, CallersAssumption
     DEF BackendNext, WorkerStep, EventStep, StartStep, StopStep

\* A worker does not change who may join it.
LEMMA WorkerStepWorkers ==
    ASSUME Types, Owned, NEW w \in Workers, WorkerStep(w) \/ WorkerServe(w)
    PROVE  WorkerOwned'
<1>1. UNCHANGED <<scsiThread, joined, local, pc, evJoin, ev>>
  BY
     DEF WorkerStep, WorkerServe, WorkerOpen, WorkerPublish, WorkerLoop,
         WorkerClose, WorkerFinal, WorkerUnchanged, history, globals
<1>2. \A v \in Workers : wk[v] # "none" => wk'[v] # "none"
  BY
     DEF WorkerStep, WorkerServe, WorkerOpen, WorkerPublish, WorkerLoop,
         WorkerClose, WorkerFinal, Types, BackendTypeOK
<1> QED
  BY <1>1, <1>2, WorkersKept DEF Owned, WorkerOwned

\* ENABLE takes a finished worker out of the global, and then has it alone.
LEMMA EventClaimWorkers ==
    ASSUME Types, Owned, NEW s \in Sessions, EventClaim(s)
    PROVE  WorkerOwned'
<1>1. UNCHANGED <<joined, local, pc, wk>>
  BY DEF EventClaim, EventUnchanged
<1>2. evJoin[s] = 0
  BY DEF EventClaim, Owned, WorkerOwned
<1>3. CASE scsiThread # 0 /\ ~scsiRunning
  <2>1. /\ scsiThread' = 0 /\ evJoin'[s] = scsiThread /\ ev'[s] = "joining"
        /\ \A r \in Sessions \ {s} : evJoin'[r] = evJoin[r] /\ ev'[r] = ev[r]
    BY <1>3 DEF EventClaim, Types, BackendTypeOK
  <2>2. scsiThread \in Workers /\ wk[scsiThread] # "none" /\ WorkerId(scsiThread) \notin joined
    BY <1>3 DEF Types, BackendTypeOK, Owned, WorkerOwned
  <2>3. \A d \in Callers : local'[d].scsi # 0 =>
          /\ pc'[d] = "joinScsi" /\ wk'[local'[d].scsi] # "none"
          /\ local'[d].scsi # scsiThread' /\ WorkerId(local'[d].scsi) \notin joined'
          /\ \A e \in Callers : local'[e].scsi = local'[d].scsi => d = e
          /\ \A r \in Sessions : evJoin'[r] # local'[d].scsi
    BY <1>1, <2>1 DEF Owned, WorkerOwned
  <2>4. \A r \in Sessions : evJoin'[r] # 0 =>
          /\ ev'[r] = "joining" /\ wk'[evJoin'[r]] # "none"
          /\ evJoin'[r] # scsiThread' /\ WorkerId(evJoin'[r]) \notin joined'
          /\ \A t \in Sessions : evJoin'[t] = evJoin'[r] => t = r
    BY <1>1, <2>1, <2>2 DEF Owned, WorkerOwned
  <2> QED
    BY <1>1, <2>1, <2>3, <2>4 DEF Owned, WorkerOwned, WorkerId
<1>4. CASE ~(scsiThread # 0 /\ ~scsiRunning)
  <2>1. UNCHANGED <<scsiThread, evJoin>> /\ \A r \in Sessions \ {s} : ev'[r] = ev[r]
    BY <1>4 DEF EventClaim, Types, BackendTypeOK
  <2> QED
    BY <1>1, <1>2, <2>1, WorkersKept DEF Owned, WorkerOwned
<1> QED
  BY <1>3, <1>4

\* A new worker has not been joined, and nobody has claimed it.
LEMMA EventStartWorkers ==
    ASSUME Types, Owned, NEW s \in Sessions, EventStart(s)
    PROVE  WorkerOwned'
<1>1. UNCHANGED <<joined, local, pc, evJoin>>
  BY DEF EventStart, EventUnchanged
<1>2. evJoin[s] = 0 /\ \A r \in Sessions \ {s} : ev'[r] = ev[r]
  BY
     DEF EventStart, StartScsi, NoStartScsi, Owned, WorkerOwned, Types,
         BackendTypeOK
<1>3. CASE UNCHANGED <<scsiThread, wk>>
  BY <1>1, <1>2, <1>3, WorkersKept DEF Owned, WorkerOwned
<1>4. CASE ~UNCHANGED <<scsiThread, wk>>
  <2>1. PICK w \in Workers : wk[w] = "none" /\ scsiThread' = w /\ wk' = [wk EXCEPT ![w] = "open"]
    BY <1>4 DEF EventStart, StartScsi, NoStartScsi, FreshWorker
  <2>2. /\ WorkerId(w) \notin joined
        /\ \A v \in Workers : wk[v] # "none" => wk'[v] # "none" /\ v # w
    BY <2>1 DEF Owned, WorkerOwned, Types, BackendTypeOK
  <2>3. /\ \A d \in Callers : local[d].scsi \in Workers \cup {0}
        /\ \A r \in Sessions : evJoin[r] \in Workers \cup {0}
    BY DEF Types, BackendTypeOK
  <2>4. \A d \in Callers : local'[d].scsi # 0 =>
          /\ pc'[d] = "joinScsi" /\ wk'[local'[d].scsi] # "none"
          /\ local'[d].scsi # scsiThread' /\ WorkerId(local'[d].scsi) \notin joined'
          /\ \A e \in Callers : local'[e].scsi = local'[d].scsi => d = e
          /\ \A r \in Sessions : evJoin'[r] # local'[d].scsi
    BY <1>1, <2>1, <2>2, <2>3 DEF Owned, WorkerOwned
  <2>5. \A r \in Sessions : evJoin'[r] # 0 =>
          /\ ev'[r] = "joining" /\ wk'[evJoin'[r]] # "none"
          /\ evJoin'[r] # scsiThread' /\ WorkerId(evJoin'[r]) \notin joined'
          /\ \A t \in Sessions : evJoin'[t] = evJoin'[r] => t = r
    BY <1>1, <1>2, <2>1, <2>2, <2>3 DEF Owned, WorkerOwned
  <2>6. /\ scsiThread' # 0 => WorkerId(scsiThread') \notin joined'
        /\ \A v \in Workers : WorkerId(v) \in joined' => wk'[v] # "none"
    BY <1>1, <2>1, <2>2 DEF Owned, WorkerOwned
  <2> QED
    BY <2>4, <2>5, <2>6 DEF WorkerOwned, WorkerId
<1> QED
  BY <1>3, <1>4

\* A start leaves the workers alone.
LEMMA StartCommitWorkers ==
    ASSUME Types, Owned, NEW c \in Callers, StartCommit(c)
    PROVE  WorkerOwned'
<1>1. UNCHANGED <<scsiThread, joined, evJoin, wk>>
  BY DEF StartCommit
<1>2. local[c].scsi = 0
  BY DEF StartCommit, Owned, WorkerOwned
<1>3. \A d \in Callers : local'[d].scsi = local[d].scsi /\ (d # c => pc'[d] = pc[d])
  BY <1>2
     DEF StartCommit, StartCommitted, StartAborted, NoLocals, Types,
         BackendTypeOK
<1>4. \A s \in Sessions : ev[s] = "joining" => ev'[s] = "joining"
  BY
     DEF StartCommit, StartCommitted, StartAborted, Types, BackendTypeOK,
         Owned, Ep0Owned
<1> QED
  BY <1>1, <1>2, <1>3, <1>4, WorkersKept DEF Owned, WorkerOwned

\* The unbind ends transfers, not threads.
LEMMA StopUnbindWorkers ==
    ASSUME Types, Owned, NEW c \in Callers, StopUnbind(c)
    PROVE  WorkerOwned'
<1>1. UNCHANGED <<scsiThread, joined, evJoin, ev, local>>
  BY DEF StopUnbind, globals
<1>2. local[c].scsi = 0 /\ \A d \in Callers \ {c} : pc'[d] = pc[d]
  BY DEF StopUnbind, Owned, WorkerOwned, Types, BackendTypeOK
<1>3. \A v \in Workers : wk[v] # "none" => wk'[v] # "none"
  BY DEF StopUnbind, ShutDown
<1> QED
  BY <1>1, <1>2, <1>3, WorkersKept DEF Owned, WorkerOwned

\* Every step keeps the ownership of workers.
LEMMA WorkerOwnedStep ==
    ASSUME Types, Owned, [BackendNext]_backendVars PROVE WorkerOwned'
<1> USE DEF Types, BackendTypeOK, Sessions, Workers, Owned, WorkerOwned, EventId, WorkerId
<1>1. ASSUME HostEnable PROVE WorkerOwned'
  BY <1>1, SMTT(60) DEF HostEnable, globals, history, files, kernel
<1>2. ASSUME HostDisable PROVE WorkerOwned'
  BY <1>2 DEF HostDisable, ShutDown, globals, history, files, kernel
<1>3. ASSUME NEW w \in Workers, WorkerOpen(w) PROVE WorkerOwned'
  BY <1>3, WorkerStepWorkers DEF WorkerStep
<1>4. ASSUME NEW w \in Workers, WorkerPublish(w) PROVE WorkerOwned'
  BY <1>4, WorkerStepWorkers DEF WorkerStep
<1>5. ASSUME NEW w \in Workers, WorkerLoop(w) PROVE WorkerOwned'
  BY <1>5, WorkerStepWorkers DEF WorkerStep
<1>6. ASSUME NEW w \in Workers, WorkerServe(w) PROVE WorkerOwned'
  BY <1>6, WorkerStepWorkers DEF WorkerStep
<1>7. ASSUME NEW w \in Workers, WorkerClose(w) PROVE WorkerOwned'
  BY <1>7, WorkerStepWorkers DEF WorkerStep
<1>8. ASSUME NEW w \in Workers, WorkerFinal(w) PROVE WorkerOwned'
  BY <1>8, WorkerStepWorkers DEF WorkerStep
<1>9. ASSUME NEW s \in Sessions, EventTake(s) PROVE WorkerOwned'
  BY <1>9 DEF EventTake, EventUnchanged, globals, history, files, kernel
<1>10. ASSUME NEW s \in Sessions, EventDisable(s) PROVE WorkerOwned'
  BY <1>10
     DEF EventDisable, CloseDataEndpoints, EventUnchanged, globals, history,
         files, kernel
<1>11. ASSUME NEW s \in Sessions, EventClaim(s) PROVE WorkerOwned'
  BY <1>11, EventClaimWorkers
<1>12. ASSUME NEW s \in Sessions, EventJoin(s) PROVE WorkerOwned'
  BY SMTT(60), <1>12
     DEF EventJoin, WorkerId, EventUnchanged, globals, history, files, kernel
<1>13. ASSUME NEW s \in Sessions, EventStart(s) PROVE WorkerOwned'
  BY <1>13, EventStartWorkers
<1>14. ASSUME NEW s \in Sessions, EventLeave(s) PROVE WorkerOwned'
  BY <1>14 DEF EventLeave, EventUnchanged, globals, history, files, kernel
<1>15. ASSUME NEW s \in Sessions, EventClosing(s) PROVE WorkerOwned'
  BY <1>15
     DEF EventClosing, CloseDataEndpoints, EventUnchanged, globals, history,
         files, kernel
<1>16. ASSUME NEW s \in Sessions, EventFinal(s) PROVE WorkerOwned'
  BY <1>16 DEF EventFinal, EventUnchanged, globals, history, files, kernel
<1>17. ASSUME NEW c \in Callers, StartCheck(c) PROVE WorkerOwned'
  BY <1>17 DEF StartCheck, Overlap, globals, history, files, kernel
<1>18. ASSUME NEW c \in Callers, StopBegin(c) PROVE WorkerOwned'
  BY <1>18 DEF StopBegin, Overlap, StopPlace, globals, history, files, kernel
<1>19. ASSUME NEW c \in Callers, StartOpen(c) PROVE WorkerOwned'
  BY <1>19, SMTT(60)
     DEF StartOpen, FreshSession, FilesOf, NoLocals, globals, history, files,
         kernel
<1>20. ASSUME NEW c \in Callers, StartCommit(c) PROVE WorkerOwned'
  BY <1>20, StartCommitWorkers
<1>21. ASSUME NEW c \in Callers, StartBind(c) PROVE WorkerOwned'
  BY <1>21 DEF StartBind, globals, history, files, kernel
<1>22. ASSUME NEW c \in Callers, StartSave(c) PROVE WorkerOwned'
  BY <1>22 DEF StartSave, globals, history, files, kernel
<1>23. ASSUME NEW c \in Callers, StartVerify(c) PROVE WorkerOwned'
  BY <1>23 DEF StartVerify, globals, history, files, kernel
<1>24. ASSUME NEW c \in Callers, StopUnbind(c) PROVE WorkerOwned'
  BY <1>24, StopUnbindWorkers
<1>25. ASSUME NEW c \in Callers, StopFlag(c) PROVE WorkerOwned'
  BY <1>25
     DEF StopFlag, StopClaimEvent, NothingToStop, globals, history, files,
         kernel
<1>26. ASSUME NEW c \in Callers, StopNothing(c) PROVE WorkerOwned'
  BY <1>26 DEF StopNothing, NothingToStop, globals, history, files, kernel
<1>27. ASSUME NEW c \in Callers, StopCloseEps(c) PROVE WorkerOwned'
  BY <1>27
     DEF StopCloseEps, CloseDataEndpoints, globals, history, files, kernel
<1>28. ASSUME NEW c \in Callers, StopCloseEp0(c) PROVE WorkerOwned'
  BY <1>28 DEF StopCloseEp0, globals, history, files, kernel
<1>29. ASSUME NEW c \in Callers, StopJoinEvent(c) PROVE WorkerOwned'
  BY <1>29
     DEF StopJoinEvent, NoLocals, EventId, globals, history, files, kernel
<1>30. ASSUME NEW c \in Callers, StopTakeScsi(c) PROVE WorkerOwned'
  BY SMTT(60), <1>30 DEF StopTakeScsi, globals, history, files, kernel
<1>31. ASSUME NEW c \in Callers, StopJoinScsi(c) PROVE WorkerOwned'
  BY <1>31
     DEF StopJoinScsi, NoLocals, WorkerId, globals, history, files, kernel
<1>32. ASSUME NEW c \in Callers, StopReset(c) PROVE WorkerOwned'
  BY <1>32 DEF StopReset, globals, history, files, kernel
<1>33. CASE UNCHANGED backendVars
  BY <1>33 DEF backendVars, threads, globals, history, files, kernel
<1> QED
  BY <1>1, <1>2, <1>3, <1>4, <1>5, <1>6, <1>7, <1>8, <1>9, <1>10, <1>11,
      <1>12, <1>13, <1>14, <1>15, <1>16, <1>17, <1>18, <1>19, <1>20, <1>21,
      <1>22, <1>23, <1>24, <1>25, <1>26, <1>27, <1>28, <1>29, <1>30, <1>31,
      <1>32, <1>33, CallersAssumption
     DEF BackendNext, WorkerStep, EventStep, StartStep, StopStep

-----------------------------------------------------------------------------
(* Every step keeps what holds while calls have not overlapped             *)

\* Overlap is never forgotten.
LEMMA OverlapStays ==
    ASSUME Types, [BackendNext]_backendVars PROVE ~overlap' => ~overlap
<1> USE DEF Types
<1>1. ASSUME HostEnable PROVE ~overlap' => ~overlap
  BY <1>1 DEF HostEnable, globals, history, files, kernel
<1>2. ASSUME HostDisable PROVE ~overlap' => ~overlap
  BY <1>2 DEF HostDisable, ShutDown, globals, history, files, kernel
<1>3. ASSUME NEW w \in Workers, WorkerOpen(w) PROVE ~overlap' => ~overlap
  BY <1>3 DEF WorkerOpen, WorkerUnchanged, globals, history, files, kernel
<1>4. ASSUME NEW w \in Workers, WorkerPublish(w) PROVE ~overlap' => ~overlap
  BY <1>4 DEF WorkerPublish, WorkerUnchanged, globals, history, files, kernel
<1>5. ASSUME NEW w \in Workers, WorkerLoop(w) PROVE ~overlap' => ~overlap
  BY <1>5 DEF WorkerLoop, WorkerUnchanged, globals, history, files, kernel
<1>6. ASSUME NEW w \in Workers, WorkerServe(w) PROVE ~overlap' => ~overlap
  BY <1>6 DEF WorkerServe, WorkerUnchanged, globals, history, files, kernel
<1>7. ASSUME NEW w \in Workers, WorkerClose(w) PROVE ~overlap' => ~overlap
  BY <1>7
     DEF WorkerClose, CloseDataEndpoints, WorkerUnchanged, globals, history,
         files, kernel
<1>8. ASSUME NEW w \in Workers, WorkerFinal(w) PROVE ~overlap' => ~overlap
  BY <1>8 DEF WorkerFinal, WorkerUnchanged, globals, history, files, kernel
<1>9. ASSUME NEW s \in Sessions, EventTake(s) PROVE ~overlap' => ~overlap
  BY <1>9 DEF EventTake, EventUnchanged, globals, history, files, kernel
<1>10. ASSUME NEW s \in Sessions, EventDisable(s) PROVE ~overlap' => ~overlap
  BY <1>10
     DEF EventDisable, CloseDataEndpoints, EventUnchanged, globals, history,
         files, kernel
<1>11. ASSUME NEW s \in Sessions, EventClaim(s) PROVE ~overlap' => ~overlap
  BY <1>11 DEF EventClaim, EventUnchanged, globals, history, files, kernel
<1>12. ASSUME NEW s \in Sessions, EventJoin(s) PROVE ~overlap' => ~overlap
  BY <1>12
     DEF EventJoin, WorkerId, EventUnchanged, globals, history, files, kernel
<1>13. ASSUME NEW s \in Sessions, EventStart(s) PROVE ~overlap' => ~overlap
  BY <1>13
     DEF EventStart, StartScsi, NoStartScsi, MayStartScsi, FreshWorker,
         EventUnchanged, globals, history, files, kernel
<1>14. ASSUME NEW s \in Sessions, EventLeave(s) PROVE ~overlap' => ~overlap
  BY <1>14 DEF EventLeave, EventUnchanged, globals, history, files, kernel
<1>15. ASSUME NEW s \in Sessions, EventClosing(s) PROVE ~overlap' => ~overlap
  BY <1>15
     DEF EventClosing, CloseDataEndpoints, EventUnchanged, globals, history,
         files, kernel
<1>16. ASSUME NEW s \in Sessions, EventFinal(s) PROVE ~overlap' => ~overlap
  BY <1>16 DEF EventFinal, EventUnchanged, globals, history, files, kernel
<1>17. ASSUME NEW c \in Callers, StartCheck(c) PROVE ~overlap' => ~overlap
  BY <1>17 DEF StartCheck, Overlap, globals, history, files, kernel
<1>18. ASSUME NEW c \in Callers, StopBegin(c) PROVE ~overlap' => ~overlap
  BY <1>18 DEF StopBegin, Overlap, StopPlace, globals, history, files, kernel
<1>19. ASSUME NEW c \in Callers, StartOpen(c) PROVE ~overlap' => ~overlap
  BY <1>19
     DEF StartOpen, FreshSession, FilesOf, NoLocals, globals, history, files,
         kernel
<1>20. ASSUME NEW c \in Callers, StartCommit(c) PROVE ~overlap' => ~overlap
  BY <1>20
     DEF StartCommit, StartCommitted, StartAborted, NoLocals, globals,
         history, files, kernel
<1>21. ASSUME NEW c \in Callers, StartBind(c) PROVE ~overlap' => ~overlap
  BY <1>21 DEF StartBind, globals, history, files, kernel
<1>22. ASSUME NEW c \in Callers, StartSave(c) PROVE ~overlap' => ~overlap
  BY <1>22 DEF StartSave, globals, history, files, kernel
<1>23. ASSUME NEW c \in Callers, StartVerify(c) PROVE ~overlap' => ~overlap
  BY <1>23 DEF StartVerify, globals, history, files, kernel
<1>24. ASSUME NEW c \in Callers, StopUnbind(c) PROVE ~overlap' => ~overlap
  BY <1>24 DEF StopUnbind, ShutDown, globals, history, files, kernel
<1>25. ASSUME NEW c \in Callers, StopFlag(c) PROVE ~overlap' => ~overlap
  BY <1>25
     DEF StopFlag, StopClaimEvent, NothingToStop, globals, history, files,
         kernel
<1>26. ASSUME NEW c \in Callers, StopNothing(c) PROVE ~overlap' => ~overlap
  BY <1>26 DEF StopNothing, NothingToStop, globals, history, files, kernel
<1>27. ASSUME NEW c \in Callers, StopCloseEps(c) PROVE ~overlap' => ~overlap
  BY <1>27
     DEF StopCloseEps, CloseDataEndpoints, globals, history, files, kernel
<1>28. ASSUME NEW c \in Callers, StopCloseEp0(c) PROVE ~overlap' => ~overlap
  BY <1>28 DEF StopCloseEp0, globals, history, files, kernel
<1>29. ASSUME NEW c \in Callers, StopJoinEvent(c) PROVE ~overlap' => ~overlap
  BY <1>29
     DEF StopJoinEvent, NoLocals, EventId, globals, history, files, kernel
<1>30. ASSUME NEW c \in Callers, StopTakeScsi(c) PROVE ~overlap' => ~overlap
  BY <1>30 DEF StopTakeScsi, globals, history, files, kernel
<1>31. ASSUME NEW c \in Callers, StopJoinScsi(c) PROVE ~overlap' => ~overlap
  BY <1>31
     DEF StopJoinScsi, NoLocals, WorkerId, globals, history, files, kernel
<1>32. ASSUME NEW c \in Callers, StopReset(c) PROVE ~overlap' => ~overlap
  BY <1>32 DEF StopReset, globals, history, files, kernel
<1>33. CASE UNCHANGED backendVars
  BY <1>33 DEF backendVars, threads, globals, history, files, kernel
<1> QED
  BY <1>1, <1>2, <1>3, <1>4, <1>5, <1>6, <1>7, <1>8, <1>9, <1>10, <1>11,
      <1>12, <1>13, <1>14, <1>15, <1>16, <1>17, <1>18, <1>19, <1>20, <1>21,
      <1>22, <1>23, <1>24, <1>25, <1>26, <1>27, <1>28, <1>29, <1>30, <1>31,
      <1>32, <1>33, CallersAssumption
     DEF BackendNext, WorkerStep, EventStep, StartStep, StopStep

\* A caller that begins finds the others idle, or they overlap.
LEMMA OneCallerStep ==
    ASSUME Types, Types', Owned, InTurn, ~overlap', [BackendNext]_backendVars
    PROVE  OneCaller'
<1> USE DEF Types, BackendTypeOK, Sessions, Workers, Owned, InTurn, OneCaller
<1>1. ASSUME HostEnable PROVE OneCaller'
  BY <1>1 DEF HostEnable, globals, history, files, kernel
<1>2. ASSUME HostDisable PROVE OneCaller'
  BY <1>2 DEF HostDisable, ShutDown, globals, history, files, kernel
<1>3. ASSUME NEW w \in Workers, WorkerOpen(w) PROVE OneCaller'
  BY <1>3 DEF WorkerOpen, WorkerUnchanged, globals, history, files, kernel
<1>4. ASSUME NEW w \in Workers, WorkerPublish(w) PROVE OneCaller'
  BY <1>4 DEF WorkerPublish, WorkerUnchanged, globals, history, files, kernel
<1>5. ASSUME NEW w \in Workers, WorkerLoop(w) PROVE OneCaller'
  BY <1>5 DEF WorkerLoop, WorkerUnchanged, globals, history, files, kernel
<1>6. ASSUME NEW w \in Workers, WorkerServe(w) PROVE OneCaller'
  BY <1>6 DEF WorkerServe, WorkerUnchanged, globals, history, files, kernel
<1>7. ASSUME NEW w \in Workers, WorkerClose(w) PROVE OneCaller'
  BY <1>7
     DEF WorkerClose, CloseDataEndpoints, WorkerUnchanged, globals, history,
         files, kernel
<1>8. ASSUME NEW w \in Workers, WorkerFinal(w) PROVE OneCaller'
  BY <1>8 DEF WorkerFinal, WorkerUnchanged, globals, history, files, kernel
<1>9. ASSUME NEW s \in Sessions, EventTake(s) PROVE OneCaller'
  BY <1>9 DEF EventTake, EventUnchanged, globals, history, files, kernel
<1>10. ASSUME NEW s \in Sessions, EventDisable(s) PROVE OneCaller'
  BY <1>10
     DEF EventDisable, CloseDataEndpoints, EventUnchanged, globals, history,
         files, kernel
<1>11. ASSUME NEW s \in Sessions, EventClaim(s) PROVE OneCaller'
  BY <1>11 DEF EventClaim, EventUnchanged, globals, history, files, kernel
<1>12. ASSUME NEW s \in Sessions, EventJoin(s) PROVE OneCaller'
  BY <1>12
     DEF EventJoin, WorkerId, EventUnchanged, globals, history, files, kernel
<1>13. ASSUME NEW s \in Sessions, EventStart(s) PROVE OneCaller'
  BY <1>13
     DEF EventStart, StartScsi, NoStartScsi, MayStartScsi, FreshWorker,
         EventUnchanged, globals, history, files, kernel
<1>14. ASSUME NEW s \in Sessions, EventLeave(s) PROVE OneCaller'
  BY <1>14 DEF EventLeave, EventUnchanged, globals, history, files, kernel
<1>15. ASSUME NEW s \in Sessions, EventClosing(s) PROVE OneCaller'
  BY <1>15
     DEF EventClosing, CloseDataEndpoints, EventUnchanged, globals, history,
         files, kernel
<1>16. ASSUME NEW s \in Sessions, EventFinal(s) PROVE OneCaller'
  BY <1>16 DEF EventFinal, EventUnchanged, globals, history, files, kernel
<1>17. ASSUME NEW c \in Callers, StartCheck(c) PROVE OneCaller'
  BY ZenonT(60), <1>17 DEF StartCheck, Overlap, globals, history, files, kernel
<1>18. ASSUME NEW c \in Callers, StopBegin(c) PROVE OneCaller'
  BY ZenonT(60), <1>18 DEF StopBegin, Overlap, StopPlace, globals, history, files, kernel
<1>19. ASSUME NEW c \in Callers, StartOpen(c) PROVE OneCaller'
  BY <1>19
     DEF StartOpen, FreshSession, FilesOf, NoLocals, globals, history, files,
         kernel
<1>20. ASSUME NEW c \in Callers, StartCommit(c) PROVE OneCaller'
  BY <1>20
     DEF StartCommit, StartCommitted, StartAborted, NoLocals, globals,
         history, files, kernel
<1>21. ASSUME NEW c \in Callers, StartBind(c) PROVE OneCaller'
  BY <1>21 DEF StartBind, globals, history, files, kernel
<1>22. ASSUME NEW c \in Callers, StartSave(c) PROVE OneCaller'
  BY <1>22 DEF StartSave, globals, history, files, kernel
<1>23. ASSUME NEW c \in Callers, StartVerify(c) PROVE OneCaller'
  BY <1>23 DEF StartVerify, globals, history, files, kernel
<1>24. ASSUME NEW c \in Callers, StopUnbind(c) PROVE OneCaller'
  BY <1>24 DEF StopUnbind, ShutDown, globals, history, files, kernel
<1>25. ASSUME NEW c \in Callers, StopFlag(c) PROVE OneCaller'
  BY <1>25
     DEF StopFlag, StopClaimEvent, NothingToStop, globals, history, files,
         kernel
<1>26. ASSUME NEW c \in Callers, StopNothing(c) PROVE OneCaller'
  BY <1>26 DEF StopNothing, NothingToStop, globals, history, files, kernel
<1>27. ASSUME NEW c \in Callers, StopCloseEps(c) PROVE OneCaller'
  BY <1>27
     DEF StopCloseEps, CloseDataEndpoints, globals, history, files, kernel
<1>28. ASSUME NEW c \in Callers, StopCloseEp0(c) PROVE OneCaller'
  BY <1>28 DEF StopCloseEp0, globals, history, files, kernel
<1>29. ASSUME NEW c \in Callers, StopJoinEvent(c) PROVE OneCaller'
  BY <1>29
     DEF StopJoinEvent, NoLocals, EventId, globals, history, files, kernel
<1>30. ASSUME NEW c \in Callers, StopTakeScsi(c) PROVE OneCaller'
  BY <1>30 DEF StopTakeScsi, globals, history, files, kernel
<1>31. ASSUME NEW c \in Callers, StopJoinScsi(c) PROVE OneCaller'
  BY <1>31
     DEF StopJoinScsi, NoLocals, WorkerId, globals, history, files, kernel
<1>32. ASSUME NEW c \in Callers, StopReset(c) PROVE OneCaller'
  BY <1>32 DEF StopReset, globals, history, files, kernel
<1>33. CASE UNCHANGED backendVars
  BY <1>33 DEF backendVars, threads, globals, history, files, kernel
<1> QED
  BY <1>1, <1>2, <1>3, <1>4, <1>5, <1>6, <1>7, <1>8, <1>9, <1>10, <1>11,
      <1>12, <1>13, <1>14, <1>15, <1>16, <1>17, <1>18, <1>19, <1>20, <1>21,
      <1>22, <1>23, <1>24, <1>25, <1>26, <1>27, <1>28, <1>29, <1>30, <1>31,
      <1>32, <1>33, CallersAssumption
     DEF BackendNext, WorkerStep, EventStep, StartStep, StopStep

\* While a stop is at work the flag stays set and no session is created.
LEMMA CallInTurnStep ==
    ASSUME Types, Types', Owned, InTurn, ~overlap', [BackendNext]_backendVars
    PROVE  CallInTurn'
<1> USE DEF Types, BackendTypeOK, Sessions, Workers, Owned, InTurn, OneCaller, CallInTurn, Stopping
<1>1. ASSUME HostEnable PROVE CallInTurn'
  BY <1>1 DEF HostEnable, globals, history, files, kernel
<1>2. ASSUME HostDisable PROVE CallInTurn'
  BY <1>2 DEF HostDisable, ShutDown, globals, history, files, kernel
<1>3. ASSUME NEW w \in Workers, WorkerOpen(w) PROVE CallInTurn'
  BY <1>3 DEF WorkerOpen, WorkerUnchanged, globals, history, files, kernel
<1>4. ASSUME NEW w \in Workers, WorkerPublish(w) PROVE CallInTurn'
  BY <1>4 DEF WorkerPublish, WorkerUnchanged, globals, history, files, kernel
<1>5. ASSUME NEW w \in Workers, WorkerLoop(w) PROVE CallInTurn'
  BY <1>5 DEF WorkerLoop, WorkerUnchanged, globals, history, files, kernel
<1>6. ASSUME NEW w \in Workers, WorkerServe(w) PROVE CallInTurn'
  BY <1>6 DEF WorkerServe, WorkerUnchanged, globals, history, files, kernel
<1>7. ASSUME NEW w \in Workers, WorkerClose(w) PROVE CallInTurn'
  BY <1>7
     DEF WorkerClose, CloseDataEndpoints, WorkerUnchanged, globals, history,
         files, kernel
<1>8. ASSUME NEW w \in Workers, WorkerFinal(w) PROVE CallInTurn'
  BY <1>8 DEF WorkerFinal, WorkerUnchanged, globals, history, files, kernel
<1>9. ASSUME NEW s \in Sessions, EventTake(s) PROVE CallInTurn'
  BY <1>9 DEF EventTake, EventUnchanged, globals, history, files, kernel
<1>10. ASSUME NEW s \in Sessions, EventDisable(s) PROVE CallInTurn'
  BY <1>10
     DEF EventDisable, CloseDataEndpoints, EventUnchanged, globals, history,
         files, kernel
<1>11. ASSUME NEW s \in Sessions, EventClaim(s) PROVE CallInTurn'
  BY <1>11 DEF EventClaim, EventUnchanged, globals, history, files, kernel
<1>12. ASSUME NEW s \in Sessions, EventJoin(s) PROVE CallInTurn'
  BY <1>12
     DEF EventJoin, WorkerId, EventUnchanged, globals, history, files, kernel
<1>13. ASSUME NEW s \in Sessions, EventStart(s) PROVE CallInTurn'
  BY <1>13
     DEF EventStart, StartScsi, NoStartScsi, MayStartScsi, FreshWorker,
         EventUnchanged, globals, history, files, kernel
<1>14. ASSUME NEW s \in Sessions, EventLeave(s) PROVE CallInTurn'
  BY <1>14 DEF EventLeave, EventUnchanged, globals, history, files, kernel
<1>15. ASSUME NEW s \in Sessions, EventClosing(s) PROVE CallInTurn'
  BY <1>15
     DEF EventClosing, CloseDataEndpoints, EventUnchanged, globals, history,
         files, kernel
<1>16. ASSUME NEW s \in Sessions, EventFinal(s) PROVE CallInTurn'
  BY <1>16 DEF EventFinal, EventUnchanged, globals, history, files, kernel
<1>17. ASSUME NEW c \in Callers, StartCheck(c) PROVE CallInTurn'
  BY <1>17 DEF StartCheck, Overlap, globals, history, files, kernel
<1>18. ASSUME NEW c \in Callers, StopBegin(c) PROVE CallInTurn'
  BY <1>18 DEF StopBegin, Overlap, StopPlace, globals, history, files, kernel
<1>19. ASSUME NEW c \in Callers, StartOpen(c) PROVE CallInTurn'
  BY <1>19
     DEF StartOpen, FreshSession, FilesOf, NoLocals, globals, history, files,
         kernel
<1>20. ASSUME NEW c \in Callers, StartCommit(c) PROVE CallInTurn'
  BY <1>20
     DEF StartCommit, StartCommitted, StartAborted, NoLocals, globals,
         history, files, kernel
<1>21. ASSUME NEW c \in Callers, StartBind(c) PROVE CallInTurn'
  BY <1>21 DEF StartBind, globals, history, files, kernel
<1>22. ASSUME NEW c \in Callers, StartSave(c) PROVE CallInTurn'
  BY <1>22 DEF StartSave, globals, history, files, kernel
<1>23. ASSUME NEW c \in Callers, StartVerify(c) PROVE CallInTurn'
  BY <1>23 DEF StartVerify, globals, history, files, kernel
<1>24. ASSUME NEW c \in Callers, StopUnbind(c) PROVE CallInTurn'
  BY <1>24 DEF StopUnbind, ShutDown, globals, history, files, kernel
<1>25. ASSUME NEW c \in Callers, StopFlag(c) PROVE CallInTurn'
  BY <1>25
     DEF StopFlag, StopClaimEvent, NothingToStop, globals, history, files,
         kernel
<1>26. ASSUME NEW c \in Callers, StopNothing(c) PROVE CallInTurn'
  BY <1>26 DEF StopNothing, NothingToStop, globals, history, files, kernel
<1>27. ASSUME NEW c \in Callers, StopCloseEps(c) PROVE CallInTurn'
  BY <1>27
     DEF StopCloseEps, CloseDataEndpoints, globals, history, files, kernel
<1>28. ASSUME NEW c \in Callers, StopCloseEp0(c) PROVE CallInTurn'
  BY <1>28 DEF StopCloseEp0, globals, history, files, kernel
<1>29. ASSUME NEW c \in Callers, StopJoinEvent(c) PROVE CallInTurn'
  BY <1>29
     DEF StopJoinEvent, NoLocals, EventId, globals, history, files, kernel
<1>30. ASSUME NEW c \in Callers, StopTakeScsi(c) PROVE CallInTurn'
  BY <1>30 DEF StopTakeScsi, globals, history, files, kernel
<1>31. ASSUME NEW c \in Callers, StopJoinScsi(c) PROVE CallInTurn'
  BY <1>31
     DEF StopJoinScsi, NoLocals, WorkerId, globals, history, files, kernel
<1>32. ASSUME NEW c \in Callers, StopReset(c) PROVE CallInTurn'
  BY <1>32 DEF StopReset, globals, history, files, kernel
<1>33. CASE UNCHANGED backendVars
  BY <1>33 DEF backendVars, threads, globals, history, files, kernel
<1> QED
  BY <1>1, <1>2, <1>3, <1>4, <1>5, <1>6, <1>7, <1>8, <1>9, <1>10, <1>11,
      <1>12, <1>13, <1>14, <1>15, <1>16, <1>17, <1>18, <1>19, <1>20, <1>21,
      <1>22, <1>23, <1>24, <1>25, <1>26, <1>27, <1>28, <1>29, <1>30, <1>31,
      <1>32, <1>33, CallersAssumption
     DEF BackendNext, WorkerStep, EventStep, StartStep, StopStep

LEMMA EventSame ==
    ASSUME EventInTurn, UNCHANGED <<ev, eventThread, local, pc, ep0, openEp0, iso>>
    PROVE  EventInTurn'
BY DEF EventInTurn, LiveEvent, Stopping

\* The event thread and what is open stay within the reach of a stop.
LEMMA EventInTurnStep ==
    ASSUME Types, Types', Owned, InTurn, ~overlap', [BackendNext]_backendVars
    PROVE  EventInTurn'
<1> USE DEF Types, BackendTypeOK, Sessions, Workers, Owned, InTurn, EventOwned, Ep0Owned, OneCaller, CallInTurn, EventInTurn, Stopping, Claiming, LiveEvent
<1>1. ASSUME HostEnable PROVE EventInTurn'
  <2>1. UNCHANGED <<ev, eventThread, local, pc, ep0, openEp0, iso>>
    BY <1>1 DEF HostEnable, globals, files
  <2> QED
    BY <2>1, EventSame
<1>2. ASSUME HostDisable PROVE EventInTurn'
  BY <1>2 DEF HostDisable, ShutDown, globals, history, files, kernel
<1>3. ASSUME NEW w \in Workers, WorkerOpen(w) PROVE EventInTurn'
  BY <1>3 DEF WorkerOpen, WorkerUnchanged, globals, history, files, kernel
<1>4. ASSUME NEW w \in Workers, WorkerPublish(w) PROVE EventInTurn'
  BY <1>4 DEF WorkerPublish, WorkerUnchanged, globals, history, files, kernel
<1>5. ASSUME NEW w \in Workers, WorkerLoop(w) PROVE EventInTurn'
  BY <1>5 DEF WorkerLoop, WorkerUnchanged, globals, history, files, kernel
<1>6. ASSUME NEW w \in Workers, WorkerServe(w) PROVE EventInTurn'
  BY <1>6 DEF WorkerServe, WorkerUnchanged, globals, history, files, kernel
<1>7. ASSUME NEW w \in Workers, WorkerClose(w) PROVE EventInTurn'
  BY <1>7
     DEF WorkerClose, CloseDataEndpoints, WorkerUnchanged, globals, history,
         files, kernel
<1>8. ASSUME NEW w \in Workers, WorkerFinal(w) PROVE EventInTurn'
  BY <1>8 DEF WorkerFinal, WorkerUnchanged, globals, history, files, kernel
<1>9. ASSUME NEW s \in Sessions, EventTake(s) PROVE EventInTurn'
  BY <1>9 DEF EventTake, EventUnchanged, globals, history, files, kernel
<1>10. ASSUME NEW s \in Sessions, EventDisable(s) PROVE EventInTurn'
  BY <1>10
     DEF EventDisable, CloseDataEndpoints, EventUnchanged, globals, history,
         files, kernel
<1>11. ASSUME NEW s \in Sessions, EventClaim(s) PROVE EventInTurn'
  BY <1>11 DEF EventClaim, EventUnchanged, globals, history, files, kernel
<1>12. ASSUME NEW s \in Sessions, EventJoin(s) PROVE EventInTurn'
  BY <1>12
     DEF EventJoin, WorkerId, EventUnchanged, globals, history, files, kernel
<1>13. ASSUME NEW s \in Sessions, EventStart(s) PROVE EventInTurn'
  BY <1>13
     DEF EventStart, StartScsi, NoStartScsi, MayStartScsi, FreshWorker,
         EventUnchanged, globals, history, files, kernel
<1>14. ASSUME NEW s \in Sessions, EventLeave(s) PROVE EventInTurn'
  BY <1>14 DEF EventLeave, EventUnchanged, globals, history, files, kernel
<1>15. ASSUME NEW s \in Sessions, EventClosing(s) PROVE EventInTurn'
  BY <1>15
     DEF EventClosing, CloseDataEndpoints, EventUnchanged, globals, history,
         files, kernel
<1>16. ASSUME NEW s \in Sessions, EventFinal(s) PROVE EventInTurn'
  BY <1>16 DEF EventFinal, EventUnchanged, globals, history, files, kernel
<1>17. ASSUME NEW c \in Callers, StartCheck(c) PROVE EventInTurn'
  BY <1>17 DEF StartCheck, Overlap, globals, history, files, kernel
<1>18. ASSUME NEW c \in Callers, StopBegin(c) PROVE EventInTurn'
  BY <1>18 DEF StopBegin, Overlap, StopPlace, globals, history, files, kernel
<1>19. ASSUME NEW c \in Callers, StartOpen(c) PROVE EventInTurn'
  BY SMTT(60), <1>19
     DEF StartOpen, FreshSession, FilesOf, NoLocals, globals, history, files,
         kernel
<1>20. ASSUME NEW c \in Callers, StartCommit(c) PROVE EventInTurn'
  BY <1>20
     DEF StartCommit, StartCommitted, StartAborted, NoLocals, globals,
         history, files, kernel
<1>21. ASSUME NEW c \in Callers, StartBind(c) PROVE EventInTurn'
  BY <1>21 DEF StartBind, globals, history, files, kernel
<1>22. ASSUME NEW c \in Callers, StartSave(c) PROVE EventInTurn'
  BY <1>22 DEF StartSave, globals, history, files, kernel
<1>23. ASSUME NEW c \in Callers, StartVerify(c) PROVE EventInTurn'
  BY <1>23 DEF StartVerify, globals, history, files, kernel
<1>24. ASSUME NEW c \in Callers, StopUnbind(c) PROVE EventInTurn'
  <2>1. UNCHANGED <<ev, eventThread, local, ep0, openEp0, iso>>
    BY <1>24 DEF StopUnbind, globals, files
  <2>2. \A d \in Callers : pc'[d] = pc[d] \/ (pc[d] = "unbind" /\ pc'[d] = "stop")
    BY <1>24 DEF StopUnbind, Types, BackendTypeOK
  <2>3. \A d \in Callers : /\ pc[d] \in Stopping => pc'[d] \in Stopping
                           /\ pc[d] \in {"commit", "closeEps", "closeEp0"} => pc'[d] = pc[d]
    BY <2>2 DEF Stopping
  <2>4. /\ \A s \in Sessions : LiveEvent(s) =>
              s = eventThread \/ \E d \in Callers : local[d].ev = s
        /\ ep0 # 0 => ep0 = eventThread
        /\ iso => eventThread # 0 \/ \E d \in Callers : pc[d] \in Stopping
    BY DEF InTurn, EventInTurn
  <2>5. \A s \in openEp0 : \/ s = ep0
                            \/ \E d \in Callers : /\ pc[d] \in {"commit", "closeEps", "closeEp0"}
                                                  /\ local[d].ep0 = s
    BY DEF InTurn, EventInTurn
  <2> HIDE DEF Types, BackendTypeOK, Owned, InTurn, EventOwned, Ep0Owned, OneCaller,
               CallInTurn, EventInTurn, Stopping, Claiming
  <2>6. (\A s \in Sessions : LiveEvent(s) =>
           s = eventThread \/ \E d \in Callers : local[d].ev = s)'
    BY <2>1, <2>4 DEF LiveEvent
  <2>7. (iso => eventThread # 0 \/ \E d \in Callers : pc[d] \in Stopping)'
    BY <2>1, <2>3, <2>4
  <2>8. (\A s \in openEp0 : \/ s = ep0
                            \/ \E d \in Callers : /\ pc[d] \in {"commit", "closeEps", "closeEp0"}
                                                  /\ local[d].ep0 = s)'
    BY <2>1, <2>3, <2>5
  <2> QED
    BY <2>1, <2>4, <2>6, <2>7, <2>8 DEF EventInTurn
<1>25. ASSUME NEW c \in Callers, StopFlag(c) PROVE EventInTurn'
  BY <1>25
     DEF StopFlag, StopClaimEvent, NothingToStop, globals, history, files,
         kernel
<1>26. ASSUME NEW c \in Callers, StopNothing(c) PROVE EventInTurn'
  BY <1>26 DEF StopNothing, NothingToStop, globals, history, files, kernel
<1>27. ASSUME NEW c \in Callers, StopCloseEps(c) PROVE EventInTurn'
  BY <1>27
     DEF StopCloseEps, CloseDataEndpoints, globals, history, files, kernel
<1>28. ASSUME NEW c \in Callers, StopCloseEp0(c) PROVE EventInTurn'
  BY <1>28 DEF StopCloseEp0, globals, history, files, kernel
<1>29. ASSUME NEW c \in Callers, StopJoinEvent(c) PROVE EventInTurn'
  BY <1>29
     DEF StopJoinEvent, NoLocals, EventId, globals, history, files, kernel
<1>30. ASSUME NEW c \in Callers, StopTakeScsi(c) PROVE EventInTurn'
  BY <1>30 DEF StopTakeScsi, globals, history, files, kernel
<1>31. ASSUME NEW c \in Callers, StopJoinScsi(c) PROVE EventInTurn'
  BY <1>31
     DEF StopJoinScsi, NoLocals, WorkerId, globals, history, files, kernel
<1>32. ASSUME NEW c \in Callers, StopReset(c) PROVE EventInTurn'
  BY <1>32 DEF StopReset, globals, history, files, kernel
<1>33. CASE UNCHANGED backendVars
  BY <1>33 DEF backendVars, threads, globals, history, files, kernel
<1> QED
  BY <1>1, <1>2, <1>3, <1>4, <1>5, <1>6, <1>7, <1>8, <1>9, <1>10, <1>11,
      <1>12, <1>13, <1>14, <1>15, <1>16, <1>17, <1>18, <1>19, <1>20, <1>21,
      <1>22, <1>23, <1>24, <1>25, <1>26, <1>27, <1>28, <1>29, <1>30, <1>31,
      <1>32, <1>33, CallersAssumption
     DEF BackendNext, WorkerStep, EventStep, StartStep, StopStep

\* So does the worker: one is started only when there is none.
LEMMA WorkerInTurnStep ==
    ASSUME Types, Types', Owned, InTurn, ~overlap', [BackendNext]_backendVars
    PROVE  WorkerInTurn'
<1> USE DEF Types, BackendTypeOK, Sessions, Workers, Owned, InTurn, EventOwned, WorkerOwned, OneCaller, CallInTurn, EventInTurn, WorkerInTurn, Stopping, Claiming, LiveEvent, Alive, WorkerPlaces
<1>1. ASSUME HostEnable PROVE WorkerInTurn'
  BY <1>1 DEF HostEnable, globals, history, files, kernel
<1>2. ASSUME HostDisable PROVE WorkerInTurn'
  BY <1>2 DEF HostDisable, ShutDown, globals, history, files, kernel
<1>3. ASSUME NEW w \in Workers, WorkerOpen(w) PROVE WorkerInTurn'
  BY <1>3 DEF WorkerOpen, WorkerUnchanged, globals, history, files, kernel
<1>4. ASSUME NEW w \in Workers, WorkerPublish(w) PROVE WorkerInTurn'
  BY <1>4 DEF WorkerPublish, WorkerUnchanged, globals, history, files, kernel
<1>5. ASSUME NEW w \in Workers, WorkerLoop(w) PROVE WorkerInTurn'
  BY <1>5 DEF WorkerLoop, WorkerUnchanged, globals, history, files, kernel
<1>6. ASSUME NEW w \in Workers, WorkerServe(w) PROVE WorkerInTurn'
  BY <1>6 DEF WorkerServe, WorkerUnchanged, globals, history, files, kernel
<1>7. ASSUME NEW w \in Workers, WorkerClose(w) PROVE WorkerInTurn'
  BY <1>7
     DEF WorkerClose, CloseDataEndpoints, WorkerUnchanged, globals, history,
         files, kernel
<1>8. ASSUME NEW w \in Workers, WorkerFinal(w) PROVE WorkerInTurn'
  BY <1>8 DEF WorkerFinal, WorkerUnchanged, globals, history, files, kernel
<1>9. ASSUME NEW s \in Sessions, EventTake(s) PROVE WorkerInTurn'
  BY <1>9 DEF EventTake, EventUnchanged, globals, history, files, kernel
<1>10. ASSUME NEW s \in Sessions, EventDisable(s) PROVE WorkerInTurn'
  BY <1>10
     DEF EventDisable, CloseDataEndpoints, EventUnchanged, globals, history,
         files, kernel
<1>11. ASSUME NEW s \in Sessions, EventClaim(s) PROVE WorkerInTurn'
  BY <1>11 DEF EventClaim, EventUnchanged, globals, history, files, kernel
<1>12. ASSUME NEW s \in Sessions, EventJoin(s) PROVE WorkerInTurn'
  BY <1>12
     DEF EventJoin, WorkerId, EventUnchanged, globals, history, files, kernel
<1>13. ASSUME NEW s \in Sessions, EventStart(s) PROVE WorkerInTurn'
  BY <1>13
     DEF EventStart, StartScsi, NoStartScsi, MayStartScsi, FreshWorker,
         EventUnchanged, globals, history, files, kernel
<1>14. ASSUME NEW s \in Sessions, EventLeave(s) PROVE WorkerInTurn'
  BY <1>14 DEF EventLeave, EventUnchanged, globals, history, files, kernel
<1>15. ASSUME NEW s \in Sessions, EventClosing(s) PROVE WorkerInTurn'
  BY <1>15
     DEF EventClosing, CloseDataEndpoints, EventUnchanged, globals, history,
         files, kernel
<1>16. ASSUME NEW s \in Sessions, EventFinal(s) PROVE WorkerInTurn'
  BY <1>16 DEF EventFinal, EventUnchanged, globals, history, files, kernel
<1>17. ASSUME NEW c \in Callers, StartCheck(c) PROVE WorkerInTurn'
  BY <1>17 DEF StartCheck, Overlap, globals, history, files, kernel
<1>18. ASSUME NEW c \in Callers, StopBegin(c) PROVE WorkerInTurn'
  BY <1>18 DEF StopBegin, Overlap, StopPlace, globals, history, files, kernel
<1>19. ASSUME NEW c \in Callers, StartOpen(c) PROVE WorkerInTurn'
  BY <1>19, SMTT(60)
     DEF StartOpen, FreshSession, FilesOf, NoLocals, globals, history, files,
         kernel
<1>20. ASSUME NEW c \in Callers, StartCommit(c) PROVE WorkerInTurn'
  BY <1>20, SMTT(60)
     DEF StartCommit, StartCommitted, StartAborted, NoLocals, globals,
         history, files, kernel
<1>21. ASSUME NEW c \in Callers, StartBind(c) PROVE WorkerInTurn'
  BY <1>21 DEF StartBind, globals, history, files, kernel
<1>22. ASSUME NEW c \in Callers, StartSave(c) PROVE WorkerInTurn'
  BY <1>22 DEF StartSave, globals, history, files, kernel
<1>23. ASSUME NEW c \in Callers, StartVerify(c) PROVE WorkerInTurn'
  BY <1>23 DEF StartVerify, globals, history, files, kernel
<1>24. ASSUME NEW c \in Callers, StopUnbind(c) PROVE WorkerInTurn'
  BY <1>24 DEF StopUnbind, ShutDown, globals, history, files, kernel
<1>25. ASSUME NEW c \in Callers, StopFlag(c) PROVE WorkerInTurn'
  BY <1>25
     DEF StopFlag, StopClaimEvent, NothingToStop, globals, history, files,
         kernel
<1>26. ASSUME NEW c \in Callers, StopNothing(c) PROVE WorkerInTurn'
  BY <1>26 DEF StopNothing, NothingToStop, globals, history, files, kernel
<1>27. ASSUME NEW c \in Callers, StopCloseEps(c) PROVE WorkerInTurn'
  BY <1>27
     DEF StopCloseEps, CloseDataEndpoints, globals, history, files, kernel
<1>28. ASSUME NEW c \in Callers, StopCloseEp0(c) PROVE WorkerInTurn'
  BY <1>28 DEF StopCloseEp0, globals, history, files, kernel
<1>29. ASSUME NEW c \in Callers, StopJoinEvent(c) PROVE WorkerInTurn'
  BY <1>29
     DEF StopJoinEvent, NoLocals, EventId, globals, history, files, kernel
<1>30. ASSUME NEW c \in Callers, StopTakeScsi(c) PROVE WorkerInTurn'
  BY <1>30 DEF StopTakeScsi, globals, history, files, kernel
<1>31. ASSUME NEW c \in Callers, StopJoinScsi(c) PROVE WorkerInTurn'
  BY <1>31
     DEF StopJoinScsi, NoLocals, WorkerId, globals, history, files, kernel
<1>32. ASSUME NEW c \in Callers, StopReset(c) PROVE WorkerInTurn'
  BY <1>32 DEF StopReset, globals, history, files, kernel
<1>33. CASE UNCHANGED backendVars
  BY <1>33 DEF backendVars, threads, globals, history, files, kernel
<1> QED
  BY <1>1, <1>2, <1>3, <1>4, <1>5, <1>6, <1>7, <1>8, <1>9, <1>10, <1>11,
      <1>12, <1>13, <1>14, <1>15, <1>16, <1>17, <1>18, <1>19, <1>20, <1>21,
      <1>22, <1>23, <1>24, <1>25, <1>26, <1>27, <1>28, <1>29, <1>30, <1>31,
      <1>32, <1>33, CallersAssumption
     DEF BackendNext, WorkerStep, EventStep, StartStep, StopStep

-----------------------------------------------------------------------------
(* What follows                                                            *)

\* Two threads to be joined by different ones are different threads, for each
\* is in one place only.
LEMMA OwnedJoinedOnce == ASSUME Types, Owned PROVE JoinedOnce
<1> SUFFICES ASSUME NEW p \in Claims, NEW q \in Claims
             PROVE  /\ p[2] \notin joined
                    /\ p[2] = q[2] => p[1] = q[1]
  BY DEF JoinedOnce
<1>1. \A r \in Claims :
         \/ \E c \in Callers : local[c].ev # 0 /\ r = <<c, <<"event", local[c].ev>>>>
         \/ \E c \in Callers : local[c].scsi # 0 /\ r = <<c, <<"scsi", local[c].scsi>>>>
         \/ \E s \in Sessions : evJoin[s] # 0 /\ r = <<s, <<"scsi", evJoin[s]>>>>
  BY DEF Claims, EventId, WorkerId
<1>2. CASE \E c \in Callers : local[c].ev # 0 /\ p = <<c, <<"event", local[c].ev>>>>
  <2>1. PICK c \in Callers : local[c].ev # 0 /\ p = <<c, <<"event", local[c].ev>>>>
    BY <1>2
  <2>2. p[2] \notin joined
    BY <2>1 DEF Owned, EventOwned, EventId
  <2>3. ASSUME NEW d \in Callers, local[d].ev # 0, q = <<d, <<"event", local[d].ev>>>>,
               p[2] = q[2]
        PROVE  p[1] = q[1]
    <3>1. local[d].ev = local[c].ev
      BY <2>1, <2>3
    <3> QED
      BY <2>1, <2>3, <3>1 DEF Owned, EventOwned
  <2>4. p[2][1] = "event"
    BY <2>1
  <2>5. ASSUME NEW x, NEW y, q = <<x, <<"scsi", y>>>> PROVE p[2] # q[2]
    <3>1. q[2][1] = "scsi"
      BY <2>5
    <3> QED
      BY <2>4, <3>1
  <2> QED
    BY <1>1, <2>2, <2>3, <2>5
<1>3. CASE \E c \in Callers : local[c].scsi # 0 /\ p = <<c, <<"scsi", local[c].scsi>>>>
  <2>1. PICK c \in Callers : local[c].scsi # 0 /\ p = <<c, <<"scsi", local[c].scsi>>>>
    BY <1>3
  <2>2. p[2] \notin joined
    BY <2>1 DEF Owned, WorkerOwned, WorkerId
  <2>3. ASSUME NEW d \in Callers, local[d].scsi # 0, q = <<d, <<"scsi", local[d].scsi>>>>,
               p[2] = q[2]
        PROVE  p[1] = q[1]
    <3>1. local[d].scsi = local[c].scsi
      BY <2>1, <2>3
    <3> QED
      BY <2>1, <2>3, <3>1 DEF Owned, WorkerOwned
  <2>4. ASSUME NEW s \in Sessions, q = <<s, <<"scsi", evJoin[s]>>>> PROVE p[2] # q[2]
    <3>1. evJoin[s] # local[c].scsi
      BY <2>1 DEF Owned, WorkerOwned
    <3> QED
      BY <2>1, <2>4, <3>1
  <2>5. ASSUME NEW d, NEW e, q = <<d, <<"event", e>>>> PROVE p[2] # q[2]
    <3>1. p[2][1] = "scsi" /\ q[2][1] = "event"
      BY <2>1, <2>5
    <3> QED
      BY <3>1
  <2> QED
    BY <1>1, <2>2, <2>3, <2>4, <2>5
<1>4. CASE \E s \in Sessions : evJoin[s] # 0 /\ p = <<s, <<"scsi", evJoin[s]>>>>
  <2>1. PICK s \in Sessions : evJoin[s] # 0 /\ p = <<s, <<"scsi", evJoin[s]>>>>
    BY <1>4
  <2>2. p[2] \notin joined
    BY <2>1 DEF Owned, WorkerOwned, WorkerId
  <2>3. ASSUME NEW r \in Sessions, evJoin[r] # 0, q = <<r, <<"scsi", evJoin[r]>>>>,
               p[2] = q[2]
        PROVE  p[1] = q[1]
    <3>1. evJoin[r] = evJoin[s]
      BY <2>1, <2>3
    <3> QED
      BY <2>1, <2>3, <3>1 DEF Owned, WorkerOwned
  <2>4. ASSUME NEW d \in Callers, local[d].scsi # 0, q = <<d, <<"scsi", local[d].scsi>>>>
        PROVE  p[2] # q[2]
    <3>1. evJoin[s] # local[d].scsi
      BY <2>4 DEF Owned, WorkerOwned
    <3> QED
      BY <2>1, <2>4, <3>1
  <2>5. ASSUME NEW d, NEW e, q = <<d, <<"event", e>>>> PROVE p[2] # q[2]
    <3>1. p[2][1] = "scsi" /\ q[2][1] = "event"
      BY <2>1, <2>5
    <3> QED
      BY <3>1
  <2> QED
    BY <1>1, <2>2, <2>3, <2>4, <2>5
<1> QED
  BY <1>1, <1>2, <1>3, <1>4

\* A worker that lives is the one in the global or the one a stop waits for;
\* while a stop waits for it the global is empty.
LEMMA InTurnOneWorker ==
    ASSUME Types, Owned, InTurn
    PROVE  \A v, w \in Workers : Alive(v) /\ Alive(w) => v = w
<1> SUFFICES ASSUME NEW v \in Workers, NEW w \in Workers, Alive(v), Alive(w)
             PROVE  v = w
  OBVIOUS
<1> DEFINE Waits(c, x) == local[c].scsi = x
<1>1. \A x \in {v, w} : x # 0 /\ (x = scsiThread \/ \E c \in Callers : Waits(c, x))
  BY DEF Workers, InTurn, WorkerInTurn
<1>2. \A x \in {v, w}, c \in Callers : Waits(c, x) =>
         pc[c] = "joinScsi" /\ eventThread = 0
  BY <1>1 DEF Owned, WorkerOwned, InTurn, CallInTurn, Stopping
<1>3. \A x \in {v, w}, c \in Callers : Waits(c, x) => scsiThread = 0
  <2> SUFFICES ASSUME NEW x \in {v, w}, NEW c \in Callers, Waits(c, x), scsiThread # 0
               PROVE  FALSE
    OBVIOUS
  <2>1. PICK d \in Callers : pc[d] \in Claiming \cup {"takeScsi"}
    BY <1>2 DEF InTurn, WorkerInTurn
  <2>2. d = c
    BY <1>2, <2>1 DEF InTurn, OneCaller, Claiming
  <2> QED
    BY <1>2, <2>1, <2>2 DEF Claiming
<1>4. \A c, d \in Callers : Waits(c, v) /\ Waits(d, w) => c = d
  BY <1>2 DEF InTurn, OneCaller
<1> QED
  BY <1>1, <1>3, <1>4

\* When every call is over nothing is left that only a caller would reach.
LEMMA InTurnClean ==
    ASSUME Types, Owned, InTurn, \A c \in Callers : pc[c] = "idle", eventThread = 0
    PROVE  /\ openEp0 = {} /\ FilesOf = {} /\ ~iso /\ scsiThread = 0
           /\ \A w \in Workers : ~Alive(w)
           /\ \A s \in Sessions : ev[s] \in {"none", "done"}
<1>1. \A c \in Callers : local[c].ev = 0 /\ local[c].scsi = 0
  BY DEF Owned, EventOwned, WorkerOwned, Claiming
<1>2. scsiThread = 0 /\ ep0 = 0 /\ ~iso
  BY DEF InTurn, WorkerInTurn, EventInTurn, Stopping, Claiming
<1>3. \A w \in Workers : ~Alive(w)
  BY <1>1, <1>2 DEF InTurn, WorkerInTurn, Workers
<1>4. \A s \in Sessions : ev[s] \in {"none", "done"}
  BY <1>1 DEF InTurn, EventInTurn, LiveEvent, Sessions
<1>5. openEp0 = {}
  BY <1>2 DEF InTurn, EventInTurn, Types, BackendTypeOK, Sessions
<1>6. FilesOf = {}
  <2>1. \A w \in openEp : w \in Workers /\ Alive(w)
    BY DEF InTurn, WorkerInTurn, Alive, WorkerPlaces, Types, BackendTypeOK
  <2>2. \A w \in Workers : wk[w] \notin {"waiting", "reading"}
    BY <1>3 DEF Alive, WorkerPlaces
  <2> QED
    BY <1>3, <2>1, <2>2 DEF FilesOf
<1> QED
  BY <1>2, <1>3, <1>4, <1>5, <1>6

\* The invariant is inductive.
LEMMA IInvStep == ASSUME IInv, [BackendNext]_backendVars PROVE IInv'
<1>1. Types'
  BY TypesStep DEF IInv
<1>2. Owned'
  BY EventOwnedStep, Ep0OwnedStep, WorkerOwnedStep DEF IInv, Owned
<1>3. ASSUME ~overlap' PROVE InTurn'
  BY <1>1, <1>3, OverlapStays, OneCallerStep, CallInTurnStep, EventInTurnStep,
      WorkerInTurnStep
     DEF IInv, InTurn
<1> QED
  BY <1>1, <1>2, <1>3 DEF IInv

\* It says all that ThreadsSound does.
LEMMA IInvSound == IInv => ThreadsSound
<1> SUFFICES ASSUME IInv PROVE ThreadsSound
  OBVIOUS
<1>1. JoinedOnce
  BY OwnedJoinedOnce DEF IInv
<1>2. WorkerExclusive
  BY InTurnOneWorker DEF IInv, WorkerExclusive
<1>3. StoppedClean
  BY InTurnClean DEF IInv, StoppedClean
<1> QED
  BY <1>1, <1>2, <1>3 DEF ThreadsSound

\* The invariant itself, of every behaviour.
THEOREM BackendInvariant == BackendSpec => []IInv
<1> QED
  BY IInvInit, IInvStep, PTL DEF BackendSpec

\* The state of the backend has its type: threads in a global have been
\* created, and the descriptors open are those of sessions and workers.
THEOREM BackendTypeCorrect == BackendSpec => []BackendTypeOK
<1>1. IInv => BackendTypeOK
  BY DEF IInv, Types
<1> QED
  BY <1>1, BackendInvariant, PTL

\* For any number of callers, sessions and ENABLEs: pthread_join is called once
\* for a thread at most; and unless calls of start and stop have overlapped,
\* two workers never live together and a stop that has returned leaves no
\* thread and no open file (libfunctionfs.c, the sections under g_lock).
THEOREM ThreadsAreSound == BackendSpec => []ThreadsSound
<1> QED
  BY BackendInvariant, IInvSound, PTL

-----------------------------------------------------------------------------
(* Part two: the worker of the backend                                     *)


\* The data phase of the handlers, in one formula: what is drained is all the
\* host sends, and what is sent ends the phase of the host.
PlanFits(p, r) ==
    /\ p.drain \in Nat /\ p.send \in Nat /\ p.residue \in Nat /\ p.zlp \in 0..1
    /\ r.len > 0 /\ ~r.in => p.drain = r.len /\ p.send = 0 /\ p.zlp = 0
    /\ r.len = 0 \/ r.in => p.drain = 0
    /\ r.len = 0 => p.send = 0 /\ p.zlp = 0
    /\ r.len > 0 /\ r.in /\ p.send = 0 => p.zlp = 1
    /\ p.send > 0 => p.zlp = 0 /\ (p.send = r.len \/ (p.send < r.len /\ p.send < Packet))
    /\ p.residue = r.len - p.send

\* A command in service, seen from the host.
IdleInv == host = "idle" => dev = "cbw" /\ cmd = NoRequest /\ plan = NoPlan
CbwInv == host = "cbw" => dev = "cbw" /\ got = 0 /\ plan = NoPlan
OutInv == host = "dataOut" =>
    /\ dev = "data" /\ zlp = 0 /\ left > 0 /\ got + left = cmd.len
    /\ cmd.len > 0 /\ ~cmd.in
InInv == host = "dataIn" =>
    /\ dev \in {"data", "dead"} /\ cmd.len > 0 /\ cmd.in
    /\ dev = "data" => /\ got + left = plan.send
                       /\ IF plan.send = 0 THEN zlp = 1 ELSE zlp = 0 /\ left > 0
CswInv == host = "csw" => dev = "data" /\ left = 0 /\ zlp = 0
CmdInv ==
    /\ host \in {"idle", "cbw", "dataOut", "dataIn", "csw"}
    /\ host # "idle" => cmd \in Requests
    /\ got \in Nat /\ left \in Nat /\ zlp \in 0..1
    /\ dev \in {"data", "dead"} => PlanFits(plan, cmd) /\ host \notin {"idle", "cbw"}

WorkerInv == CmdInv /\ IdleInv /\ CbwInv /\ OutInv /\ InInv /\ CswInv

-----------------------------------------------------------------------------

\* Smaller is the minimum.
LEMMA SmallerFact ==
    ASSUME NEW a \in Nat, NEW b \in Nat
    PROVE  /\ Smaller(a, b) \in Nat /\ Smaller(a, b) <= a /\ Smaller(a, b) <= b
           /\ Smaller(a, b) = a \/ Smaller(a, b) = b
BY DEF Smaller

\* The fields of a plan.
LEMMA PlanFields ==
    ASSUME NEW d, NEW s, NEW t, NEW st, NEW re
    PROVE  /\ Plan(d, s, t, st, re).drain = d
           /\ Plan(d, s, t, st, re).send = s
           /\ Plan(d, s, t, st, re).zlp = t
           /\ Plan(d, s, t, st, re).status = st
           /\ Plan(d, s, t, st, re).residue = re
           /\ Plan(d, s, t, st, re).reported = NoSense
BY DEF Plan

LEMMA OpenFields ==
    ASSUME NEW d, NEW s, NEW st, NEW re, NEW p,
           p = Plan(d, s, 0, st, re)
    PROVE  /\ p.drain = d /\ p.send = s /\ p.residue = re
           /\ p.zlp = 0
BY DEF Plan

\* A plan that sends and needs no ZLP.
LEMMA SendingFits ==
    ASSUME NEW p, NEW r, r.len \in Nat, r.in \/ r.len = 0, r.in \in BOOLEAN,
           p.drain = 0, p.send \in Nat, p.zlp = 0,
           p.residue = r.len - p.send, r.len > 0 => p.send > 0,
           p.send = r.len \/ (p.send < r.len /\ p.send < Packet)
    PROVE  PlanFits(p, r)
BY DEF PlanFits

\* A plan that fails the command.
LEMMA FailingFits ==
    ASSUME NEW p, NEW r, r.len \in Nat, r.in \in BOOLEAN,
           IF r.len > 0 /\ ~r.in THEN p.drain = r.len ELSE p.drain = 0,
           p.send = 0, p.zlp = IF r.len > 0 /\ r.in THEN 1 ELSE 0,
           p.residue = r.len
    PROVE  PlanFits(p, r)
BY DEF PlanFits

\* Every handler fits the data phase of a consistent command.
LEMMA HandleFits ==
    ASSUME NEW r, Consistent(r)
    PROVE  PlanFits(Handle(r), r)
<1> DEFINE n == Smaller(InfoLength, r.want)
<1>0. /\ r.len \in Nat /\ r.want \in Nat /\ r.in \in BOOLEAN
      /\ r.op \in {"none", "info", "badInfo", "sense", "read", "readBeyond",
                   "verify", "badVerify", "other", "lun"}
      /\ InfoLength \in Nat /\ Packet \in Nat /\ InfoLength > 0 /\ InfoLength < Packet
  BY PacketAssumption, InfoAssumption DEF Consistent, RequestType, T!Ops
<1>1. n \in Nat /\ n <= InfoLength /\ n <= r.want /\ (n = InfoLength \/ n = r.want)
  BY <1>0, SmallerFact
<1>2. CASE r.op \in {"info", "sense"}
  <2>1. /\ r.len = r.want /\ (r.in \/ r.len = 0)
        /\ ~(r.len > 0 /\ ~r.in)
    BY <1>0, <1>2 DEF Consistent
  <2>2. Smaller(n, r.len) = n
    BY <1>0, <1>1, <2>1 DEF Smaller
  <2>3. SendDataIn(r, n) = Plan(0, n, 0, "GOOD", r.len - n)
    BY <2>1, <2>2 DEF SendDataIn
  <2>4. \/ Handle(r) = Plan(0, n, 0, "GOOD", r.len - n)
        \/ Handle(r) = [Plan(0, n, 0, "GOOD", r.len - n) EXCEPT !.reported = sense]
    BY <1>2, <2>3 DEF Handle, Inquire, Info, ReportSense, VerifyBlocks
  <2>5. /\ Handle(r).drain = 0 /\ Handle(r).send = n
        /\ Handle(r).zlp = 0
        /\ Handle(r).residue = r.len - n
    BY <2>4 DEF Plan
  <2>6. (n = r.len \/ (n < r.len /\ n < Packet)) /\ (r.len > 0 => n > 0)
    BY <1>0, <1>1, <2>1
  <2>7. QED
    BY <1>0, <1>1, <2>1, <2>5, <2>6, SendingFits
<1>3. CASE r.op = "read"
  <2>1. r.len = r.want /\ (r.in \/ r.len = 0) /\ r.len - r.len = 0
    BY <1>0, <1>3 DEF Consistent
  <2>2. Smaller(r.want, r.len) = r.len
    BY <1>0, <2>1 DEF Smaller
  <2>3. SendBlocks(r) = Plan(0, r.len, 0, "GOOD", 0)
    <3>1. CASE r.want = 0
      BY <1>0, <2>1, <3>1 DEF SendBlocks
    <3>2. CASE r.want > 0
      <4>1. r.want # 0 /\ r.in
        BY <1>0, <2>1, <3>2
      <4>2. SendBlocks(r) = Plan(0, Smaller(r.want, r.len), 0, "GOOD",
                                 r.len - Smaller(r.want, r.len))
        BY <4>1, <2>1 DEF SendBlocks
      <4>3. QED
        BY <2>1, <2>2, <4>2
    <3>3. QED
      BY <1>0, <3>1, <3>2
  <2>4. Handle(r) = Plan(0, r.len, 0, "GOOD", 0)
    BY <1>3, <2>3 DEF Handle, Inquire, Info, ReportSense, VerifyBlocks
  <2>5. /\ Handle(r).drain = 0 /\ Handle(r).send = r.len
        /\ Handle(r).zlp = 0 /\ Handle(r).residue = 0
    BY <2>4, OpenFields
  <2>6. QED
    BY <1>0, <2>1, <2>5, SendingFits
<1>4. CASE r.op \in {"badInfo", "readBeyond"}
  <2>1. Handle(r) = Plan(0, 0, Terminates(r), "FAILED", r.len)
    BY <1>4 DEF Handle, Inquire, Reject
  <2>2. r.in \/ r.len = 0
    BY <1>4 DEF Consistent
  <2>3. /\ Handle(r).drain = 0 /\ Handle(r).send = 0
        /\ Handle(r).zlp = Terminates(r) /\ Handle(r).residue = r.len
    BY <2>1, PlanFields
  <2>4. Terminates(r) = IF r.len > 0 /\ r.in THEN 1 ELSE 0
    BY DEF Terminates
  <2>5. QED
    BY <1>0, <2>2, <2>3, <2>4, FailingFits
<1>5. CASE r.op \in {"none", "verify", "badVerify"}
  <2>1. r.len = 0 /\ ~(r.len > 0) /\ ~(r.len > 0 /\ r.in)
    BY <1>0, <1>5 DEF Consistent
  <2>2. Terminates(r) = 0
    BY <2>1 DEF Terminates
  <2>3. \E st \in {"GOOD", "FAILED"} : Handle(r) = Plan(0, 0, 0, st, 0)
    <3>1. CASE r.op = "none"
      <4>1. NoDataCommand(r) = Plan(0, 0, 0, "GOOD", 0)
        BY <2>1, <2>2 DEF NoDataCommand
      <4>2. QED
        BY <3>1, <4>1 DEF Handle, Inquire, Info, ReportSense, VerifyBlocks
    <3>2. CASE r.op \in {"verify", "badVerify"}
      BY <2>1, <3>2 DEF Handle, Inquire, Info, ReportSense, VerifyBlocks
    <3>3. QED
      BY <1>5, <3>1, <3>2
  <2>4. /\ Handle(r).drain = 0 /\ Handle(r).send = 0
        /\ Handle(r).zlp = 0 /\ Handle(r).residue = 0
    BY <2>3, OpenFields
  <2>5. QED
    BY <1>0, <2>1, <2>4, SendingFits
<1>6. CASE r.op \in {"other", "lun"}
  <2>1. Handle(r) = Plan(IF r.in THEN 0 ELSE r.len, 0, Terminates(r), "FAILED", r.len)
    BY <1>6 DEF Handle, FailScsi
  <2>2. /\ Handle(r).drain = (IF r.in THEN 0 ELSE r.len) /\ Handle(r).send = 0
        /\ Handle(r).zlp = Terminates(r) /\ Handle(r).residue = r.len
    BY <2>1, PlanFields
  <2>3. Terminates(r) = IF r.len > 0 /\ r.in THEN 1 ELSE 0
    BY DEF Terminates
  <2>4. (IF r.in THEN 0 ELSE r.len) \in Nat
        /\ (IF r.len > 0 /\ ~r.in THEN (IF r.in THEN 0 ELSE r.len) = r.len
                                  ELSE (IF r.in THEN 0 ELSE r.len) = 0)
    BY <1>0
  <2>5. QED
    BY <1>0, <2>2, <2>3, <2>4, FailingFits
<1>7. QED
  BY <1>0, <1>2, <1>3, <1>4, <1>5, <1>6

\* The hosts the theorems are about.
UsualHost == \A r \in Requests : Consistent(r)

LEMMA InitInv == Init => WorkerInv
BY DEF Init, WorkerInv, CmdInv, IdleInv, CbwInv, OutInv, InInv, CswInv

\* What the data phase of a command in service looks like.
LEMMA ReadCbwInv ==
    ASSUME UsualHost, WorkerInv, ReadCbw
    PROVE  WorkerInv'
<1>1. /\ host = "cbw" /\ dev = "cbw" /\ cmd \in Requests /\ got = 0
      /\ cmd' = cmd /\ got' = got /\ dev' = "data"
      /\ plan' = Handle(cmd) /\ left' = plan'.drain + plan'.send /\ zlp' = plan'.zlp
      /\ host' = IF cmd.len = 0 THEN "csw" ELSE IF cmd.in THEN "dataIn" ELSE "dataOut"
  BY DEF ReadCbw, WorkerInv, CmdInv, CbwInv
<1>2. Consistent(cmd) /\ cmd.len \in Nat /\ cmd.in \in BOOLEAN
  BY <1>1 DEF UsualHost, Consistent, RequestType
<1>3. PlanFits(plan', cmd)
  BY <1>1, <1>2, HandleFits
<1>4. /\ plan'.drain \in Nat /\ plan'.send \in Nat /\ plan'.zlp \in 0..1
      /\ left' \in Nat /\ zlp' \in 0..1 /\ got' \in Nat
  BY <1>1, <1>3 DEF PlanFits
<1>5. CmdInv'
  BY <1>1, <1>3, <1>4 DEF CmdInv, PlanFits
<1>6. IdleInv' /\ CbwInv'
  BY <1>1 DEF IdleInv, CbwInv
<1>7. OutInv'
  BY <1>1, <1>2, <1>3, <1>4 DEF OutInv, PlanFits
<1>8. InInv'
  BY <1>1, <1>2, <1>3, <1>4 DEF InInv, PlanFits
<1>9. CswInv'
  BY <1>1, <1>2, <1>3, <1>4 DEF CswInv, PlanFits
<1>10. QED
  BY <1>5, <1>6, <1>7, <1>8, <1>9 DEF WorkerInv

LEMMA DrainInv ==
    ASSUME UsualHost, WorkerInv, Drain
    PROVE  WorkerInv'
<1> DEFINE n == Smaller(Packet, left)
<1>1. /\ host = "dataOut" /\ dev = "data" /\ cmd \in Requests /\ left > 0
      /\ left' = left - n /\ got' = got + n /\ dev' = dev /\ cmd' = cmd
      /\ plan' = plan /\ zlp' = zlp
      /\ host' = IF got + n >= cmd.len THEN "csw" ELSE host
  BY DEF Drain, DevDrains, WorkerInv, CmdInv
<1>2. /\ cmd.len \in Nat /\ got \in Nat /\ left \in Nat /\ zlp = 0
      /\ got + left = cmd.len /\ cmd.len > 0 /\ ~cmd.in /\ PlanFits(plan, cmd)
  BY <1>1 DEF UsualHost, Consistent, RequestType, WorkerInv, CmdInv, OutInv
<1>3. n \in Nat /\ n <= left /\ (n = Packet \/ n = left) /\ n > 0
  BY <1>1, <1>2, PacketAssumption DEF Smaller
<1>4. /\ got' \in Nat /\ left' \in Nat /\ got' + left' = cmd.len
      /\ (host' = "csw" /\ left' = 0) \/ (host' = "dataOut" /\ left' > 0)
  BY <1>1, <1>2, <1>3
<1>5. CmdInv'
  BY <1>1, <1>2, <1>4 DEF CmdInv, PlanFits
<1>6. QED
  BY <1>1, <1>2, <1>4, <1>5 DEF WorkerInv, IdleInv, CbwInv, OutInv, InInv, CswInv

LEMMA SendInv ==
    ASSUME UsualHost, WorkerInv, Send
    PROVE  WorkerInv'
<1> DEFINE n == Smaller(Packet, left)
<1>1. /\ host = "dataIn" /\ dev = "data" /\ cmd \in Requests
      /\ left' = left - n /\ got' = got + n /\ dev' = dev /\ cmd' = cmd
      /\ plan' = plan /\ zlp' = (IF left > 0 THEN zlp ELSE 0)
      /\ host' = IF got + n >= cmd.len \/ n < Packet THEN "csw" ELSE host
  BY DEF Send, DevSends, HostAfter, WorkerInv, CmdInv
<1>2. /\ cmd.len \in Nat /\ got \in Nat /\ left \in Nat /\ zlp \in 0..1
      /\ got + left = plan.send /\ cmd.len > 0 /\ cmd.in /\ PlanFits(plan, cmd)
      /\ IF plan.send = 0 THEN zlp = 1 ELSE zlp = 0 /\ left > 0
  BY <1>1 DEF UsualHost, Consistent, RequestType, WorkerInv, CmdInv, InInv
<1>3. /\ n \in Nat /\ n <= left /\ n <= Packet /\ (n = Packet \/ n = left)
      /\ left > 0 => n > 0
  BY <1>1, <1>2, PacketAssumption DEF Smaller
<1>4. /\ plan.send \in Nat /\ plan.send <= cmd.len
      /\ plan.send > 0 => plan.send = cmd.len \/ plan.send < Packet
  BY <1>2 DEF PlanFits
<1>5. /\ got' \in Nat /\ left' \in Nat /\ got' + left' = plan.send /\ zlp' = 0
  BY <1>1, <1>2, <1>3
<1>6. \/ host' = "csw" /\ left' = 0
      \/ host' = "dataIn" /\ left' > 0 /\ plan.send # 0
  <2>1. CASE plan.send = 0
    BY <1>1, <1>2, <1>3, <2>1, PacketAssumption
  <2>2. CASE plan.send # 0
    BY <1>1, <1>2, <1>3, <1>4, <1>5, <2>2, PacketAssumption
  <2>3. QED
    BY <2>1, <2>2
<1>7. CmdInv'
  BY <1>1, <1>2, <1>5, <1>6 DEF CmdInv, PlanFits
<1>8. QED
  BY <1>1, <1>2, <1>5, <1>6, <1>7 DEF WorkerInv, IdleInv, CbwInv, OutInv, InInv, CswInv

LEMMA StatusKeeps ==
    ASSUME WorkerInv, Status
    PROVE  WorkerInv'
BY DEF WorkerInv, Status, CmdInv, IdleInv, CbwInv, OutInv, InInv, CswInv

\* With a consistent host no status is taken for data.
LEMMA NeverMisread ==
    ASSUME UsualHost, WorkerInv
    PROVE  ~StatusAsData
BY DEF StatusAsData, DevStatus, WorkerInv, InInv, CmdInv

LEMMA StepInv ==
    ASSUME UsualHost, WorkerInv, [Next]_vars
    PROVE  WorkerInv'
<1>1. CASE HostCommand
  BY <1>1 DEF HostCommand, WorkerInv, CmdInv, IdleInv, CbwInv, OutInv, InInv, CswInv
<1>2. CASE ReadCbw
  BY <1>2, ReadCbwInv
<1>3. CASE Drain
  BY <1>3, DrainInv
<1>4. CASE Send
  BY <1>4, SendInv
<1>5. CASE Status
  BY <1>5, StatusKeeps
<1>6. CASE ReadFails
  <2>1. /\ UNCHANGED <<host, cmd, got, plan, left, zlp>> /\ dev = "data" /\ dev' = "dead"
        /\ left > 0 /\ cmd.op = "read" /\ plan.drain = 0 /\ cmd \in Requests
    BY <1>6 DEF ReadFails, DevSends, WorkerInv, CmdInv, IdleInv, CbwInv
  <2>2. host = "dataIn"
    BY <2>1 DEF WorkerInv, CmdInv, OutInv, CswInv, PlanFits
  <2>3. QED
    BY <2>1, <2>2 DEF WorkerInv, CmdInv, IdleInv, CbwInv, OutInv, InInv, CswInv
<1>7. CASE BusReset
  BY <1>7 DEF BusReset, WorkerInv, CmdInv, IdleInv, CbwInv, OutInv, InInv, CswInv
<1>8. CASE UNCHANGED vars
  BY <1>8 DEF vars, WorkerInv, CmdInv, IdleInv, CbwInv, OutInv, InInv, CswInv
<1>9. QED
  BY <1>1, <1>2, <1>3, <1>4, <1>5, <1>6, <1>7, <1>8, NeverMisread DEF Next, Transfer

LEMMA InvAgrees ==
    ASSUME UsualHost, WorkerInv
    PROVE  PhasesAgree
<1>1. CASE host = "idle"
  BY <1>1 DEF PhasesAgree
<1>2. CASE host = "cbw"
  BY <1>2 DEF WorkerInv, CbwInv, PhasesAgree
<1>3. CASE host = "dataOut"
  <2>1. /\ dev = "data" /\ left > 0 /\ plan.drain = cmd.len /\ cmd.len > 0
    BY <1>3 DEF WorkerInv, OutInv, CmdInv, PlanFits
  <2>2. QED
    BY <1>3, <2>1 DEF PhasesAgree, DevDrains
<1>4. CASE host = "dataIn"
  <2>1. CASE dev = "dead"
    BY <1>4, <2>1 DEF PhasesAgree
  <2>2. CASE dev = "data"
    <3>1. plan.drain = 0 /\ (left > 0 \/ zlp > 0)
      BY <1>4, <2>2 DEF WorkerInv, InInv, CmdInv, PlanFits
    <3>2. QED
      BY <1>4, <2>2, <3>1 DEF PhasesAgree, DevSends
  <2>3. QED
    BY <1>4, <2>1, <2>2 DEF WorkerInv, InInv
<1>5. CASE host = "csw"
  BY <1>5 DEF WorkerInv, CswInv, PhasesAgree, DevStatus
<1>6. QED
  BY <1>1, <1>2, <1>3, <1>4, <1>5 DEF WorkerInv, CmdInv

\* For every host whose announced data phases match its commands, and every
\* length, worker and host agree on each transfer: neither waits for one
\* the other does not take part in, and no status is taken for data (fail_scsi_command, terminate_in_data_phase).
THEOREM PhasesCorrect ==
    ASSUME UsualHost
    PROVE  Spec => []PhasesAgree
<1>1. Init => WorkerInv
  BY InitInv
<1>2. WorkerInv /\ [Next]_vars => WorkerInv'
  BY StepInv
<1>3. WorkerInv => PhasesAgree
  BY InvAgrees
<1>4. QED
  BY <1>1, <1>2, <1>3, PTL DEF Spec

-----------------------------------------------------------------------------
(* Implementation of ScsiTarget                                            *)

\* The status of a command in service is one a CD-ROM gives.
StatusInv == dev \in {"data", "dead"} => plan.status # "none"
RInv == WorkerInv /\ StatusInv

\* Each handler gives the status and the data of ScsiTarget.
LEMMA HandleResult ==
    ASSUME NEW r, Consistent(r)
    PROVE  /\ Handle(r).status = IF T!FailureOf(r) = NoSense THEN "GOOD" ELSE "FAILED"
           /\ Handle(r).send = T!DataOf(r)
           /\ Handle(r).reported = IF r.op = "sense" THEN sense ELSE NoSense
           /\ SenseAfter(r) = T!FailureOf(r)
<1> DEFINE n == Smaller(InfoLength, r.want)
<1>0. /\ r.len \in Nat /\ r.want \in Nat /\ r.in \in BOOLEAN
      /\ r.op \in {"none", "info", "badInfo", "sense", "read", "readBeyond",
                   "verify", "badVerify", "other", "lun"}
      /\ InfoLength \in Nat
  BY PacketAssumption, InfoAssumption DEF Consistent, RequestType, T!Ops
<1>1. CASE r.op \in {"info", "sense"}
  <2>1. /\ r.len = r.want /\ (r.in \/ r.len = 0) /\ ~(r.len > 0 /\ ~r.in)
    BY <1>0, <1>1 DEF Consistent
  <2>2. Smaller(n, r.len) = n
    BY <1>0, <2>1 DEF Smaller
  <2>3. SendDataIn(r, n) = Plan(0, n, 0, "GOOD", r.len - n)
    BY <2>1, <2>2 DEF SendDataIn
  <2>4. CASE r.op = "info"
    <3>1. Handle(r) = Plan(0, n, 0, "GOOD", r.len - n)
      BY <2>3, <2>4 DEF Handle, Inquire, Info, ReportSense, VerifyBlocks
    <3>2. Handle(r).status = "GOOD" /\ Handle(r).send = n /\ Handle(r).reported = NoSense
      BY <3>1, PlanFields
    <3>3. T!FailureOf(r) = NoSense /\ T!DataOf(r) = n /\ SenseAfter(r) = NoSense
      BY <2>4 DEF T!FailureOf, T!DataOf, SenseAfter, Smaller, T!Smaller, NoSense, T!NoSense
    <3>4. QED
      BY <2>4, <3>2, <3>3
  <2>5. CASE r.op = "sense"
    <3>1. Handle(r) = [Plan(0, n, 0, "GOOD", r.len - n) EXCEPT !.reported = sense]
      BY <2>3, <2>5 DEF Handle, Inquire, Info, ReportSense, VerifyBlocks
    <3>2. Handle(r).status = "GOOD" /\ Handle(r).send = n /\ Handle(r).reported = sense
      BY <3>1 DEF Plan
    <3>3. T!FailureOf(r) = NoSense /\ T!DataOf(r) = n /\ SenseAfter(r) = NoSense
      BY <2>5 DEF T!FailureOf, T!DataOf, SenseAfter, Smaller, T!Smaller, NoSense, T!NoSense
    <3>4. QED
      BY <2>5, <3>2, <3>3
  <2>6. QED
    BY <1>1, <2>4, <2>5
<1>2. CASE r.op = "read"
  <2>1. r.len = r.want /\ (r.in \/ r.len = 0)
    BY <1>2 DEF Consistent
  <2>2. Smaller(r.want, r.len) = r.len
    BY <1>0, <2>1 DEF Smaller
  <2>3. \E re : SendBlocks(r) = Plan(0, r.len, 0, "GOOD", re)
    <3>1. CASE r.want = 0
      BY <1>0, <2>1, <3>1 DEF SendBlocks
    <3>2. CASE r.want > 0
      <4>1. r.want # 0 /\ r.in
        BY <1>0, <2>1, <3>2
      <4>2. QED
        BY <2>1, <2>2, <4>1 DEF SendBlocks
    <3>3. QED
      BY <1>0, <3>1, <3>2
  <2>4. \E re : Handle(r) = Plan(0, r.len, 0, "GOOD", re)
    BY <1>2, <2>3 DEF Handle, Inquire, Info, ReportSense, VerifyBlocks
  <2>5. Handle(r).status = "GOOD" /\ Handle(r).send = r.len /\ Handle(r).reported = NoSense
    BY <2>4, PlanFields
  <2>6. T!FailureOf(r) = NoSense /\ T!DataOf(r) = r.want /\ SenseAfter(r) = NoSense
    BY <1>2 DEF T!FailureOf, T!DataOf, SenseAfter, NoSense, T!NoSense
  <2>7. QED
    BY <1>2, <2>1, <2>5, <2>6
<1>3. CASE r.op \in {"badInfo", "readBeyond"}
  <2>1. Handle(r) = Plan(0, 0, Terminates(r), "FAILED", r.len)
    BY <1>3 DEF Handle, Inquire, Reject
  <2>2. Handle(r).status = "FAILED" /\ Handle(r).send = 0 /\ Handle(r).reported = NoSense
    BY <2>1, PlanFields
  <2>3. /\ T!FailureOf(r) # NoSense /\ T!DataOf(r) = 0 /\ SenseAfter(r) = T!FailureOf(r)
    BY <1>3 DEF T!FailureOf, T!DataOf, SenseAfter, NoSense
  <2>4. QED
    BY <1>3, <2>2, <2>3
<1>4. CASE r.op \in {"none", "verify", "badVerify"}
  <2>1. r.len = 0
    BY <1>4 DEF Consistent
  <2>2. CASE r.op \in {"none", "verify"}
    <3>1. \E d, z : Handle(r) = Plan(d, 0, z, "GOOD", 0)
      <4>1. CASE r.op = "none"
        <5>1. \E d, z : NoDataCommand(r) = Plan(d, 0, z, "GOOD", 0)
          BY <2>1 DEF NoDataCommand
        <5>2. QED
          BY <4>1, <5>1 DEF Handle, Inquire, Info, ReportSense, VerifyBlocks
      <4>2. CASE r.op = "verify"
        BY <2>1, <4>2 DEF Handle, Inquire, Info, ReportSense, VerifyBlocks
      <4>3. QED
        BY <2>2, <4>1, <4>2
    <3>2. Handle(r).status = "GOOD" /\ Handle(r).send = 0 /\ Handle(r).reported = NoSense
      BY <3>1, PlanFields
    <3>3. T!FailureOf(r) = NoSense /\ T!DataOf(r) = 0 /\ SenseAfter(r) = NoSense
      BY <2>2 DEF T!FailureOf, T!DataOf, SenseAfter, NoSense, T!NoSense
    <3>4. QED
      BY <2>2, <3>2, <3>3
  <2>3. CASE r.op = "badVerify"
    <3>1. Handle(r) = Plan(0, 0, 0, "FAILED", r.len)
      BY <2>3 DEF Handle, Inquire, Info, ReportSense, VerifyBlocks
    <3>2. Handle(r).status = "FAILED" /\ Handle(r).send = 0 /\ Handle(r).reported = NoSense
      BY <3>1, PlanFields
    <3>3. /\ T!FailureOf(r) # NoSense /\ T!DataOf(r) = 0 /\ SenseAfter(r) = T!FailureOf(r)
      BY <2>3 DEF T!FailureOf, T!DataOf, SenseAfter, NoSense
    <3>4. QED
      BY <2>3, <3>2, <3>3
  <2>4. QED
    BY <1>4, <2>2, <2>3
<1>5. CASE r.op \in {"other", "lun"}
  <2>1. Handle(r) = Plan(IF r.in THEN 0 ELSE r.len, 0, Terminates(r), "FAILED", r.len)
    BY <1>5 DEF Handle, FailScsi
  <2>2. Handle(r).status = "FAILED" /\ Handle(r).send = 0 /\ Handle(r).reported = NoSense
    BY <2>1, PlanFields
  <2>3. /\ T!FailureOf(r) # NoSense /\ T!DataOf(r) = 0 /\ SenseAfter(r) = T!FailureOf(r)
    BY <1>5 DEF T!FailureOf, T!DataOf, SenseAfter, NoSense
  <2>4. QED
    BY <1>5, <2>2, <2>3
<1>6. QED
  BY <1>0, <1>1, <1>2, <1>3, <1>4, <1>5

LEMMA InitR == Init => RInv
BY InitInv DEF RInv, StatusInv, Init

LEMMA StepR ==
    ASSUME UsualHost, RInv, [Next]_vars
    PROVE  RInv'
<1>1. WorkerInv'
  BY StepInv DEF RInv
<1>2. CASE ReadCbw
  <2>1. Consistent(cmd) /\ plan' = Handle(cmd)
    BY <1>2 DEF ReadCbw, RInv, WorkerInv, CmdInv, UsualHost
  <2>2. plan'.status # "none"
    BY <2>1, HandleResult
  <2>3. QED
    BY <1>1, <2>2 DEF RInv, StatusInv
<1>3. CASE HostCommand \/ Drain \/ Send \/ ReadFails \/ UNCHANGED vars
  BY <1>1, <1>3 DEF HostCommand, Drain, Send, ReadFails, DevSends, DevDrains, vars,
                    RInv, StatusInv
<1>4. CASE Status \/ BusReset
  BY <1>1, <1>4 DEF Status, BusReset, RInv, StatusInv
<1>5. QED
  BY <1>2, <1>3, <1>4, NeverMisread DEF RInv, Next, Transfer

\* Between a CBW and its CSW the target has an answer ready; before, none.
LEMMA AnsweringFact ==
    ASSUME RInv
    PROVE  /\ dev \in {"data", "dead"} => Answering # T!NoAnswer
           /\ host \in {"idle", "cbw"} => Answering = T!NoAnswer
<1>1. ASSUME dev \in {"data", "dead"} PROVE Answering # T!NoAnswer
  <2>1. plan.status # "none"
    BY <1>1 DEF RInv, StatusInv
  <2>2. Answering.status # "none" /\ T!NoAnswer.status = "none"
    BY <2>1 DEF Answering, T!NoAnswer
  <2>3. QED
    BY <2>2
<1>2. ASSUME host \in {"idle", "cbw"} PROVE Answering = T!NoAnswer
  <2>1. plan = NoPlan
    BY <1>2 DEF RInv, WorkerInv, IdleInv, CbwInv
  <2>2. plan.status = "none" /\ plan.send = 0 /\ plan.reported = NoSense
    BY <2>1, PlanFields DEF NoPlan
  <2>3. QED
    BY <2>2 DEF Answering, T!NoAnswer, NoSense, T!NoSense
<1>3. QED
  BY <1>1, <1>2

LEMMA RefinesInit == Init => T!Init
<1> SUFFICES ASSUME Init PROVE T!Init
  OBVIOUS
<1>1. RInv
  BY InitR
<1>2. Answering = T!NoAnswer
  BY <1>1, AnsweringFact DEF Init
<1>3. QED
  BY <1>2 DEF Init, T!Init, T!NoRequest, NoRequest, T!NoAnswer, NoSense, T!NoSense

LEMMA RefinesStep ==
    ASSUME UsualHost, RInv, [Next]_vars
    PROVE  [T!Next]_(T!vars)
<1>0. RInv'
  BY StepR
<1>1. CASE HostCommand
  <2>1. Answering' = Answering
    BY <1>1 DEF HostCommand, Answering
  <2>2. T!Submit
    BY <1>1, <2>1 DEF HostCommand, T!Submit, RInv, WorkerInv, IdleInv, NoRequest, T!NoRequest
  <2>3. QED
    BY <2>2 DEF T!Next
<1>2. CASE ReadCbw
  <2>1. /\ host = "cbw" /\ cmd \in Requests /\ Consistent(cmd)
        /\ plan' = Handle(cmd) /\ sense' = SenseAfter(cmd)
        /\ cmd' = cmd /\ answer' = answer
    BY <1>2 DEF ReadCbw, RInv, WorkerInv, CmdInv, UsualHost
  <2>2. cmd # T!NoRequest
    BY <2>1 DEF Consistent, RequestType, T!Ops, T!NoRequest
  <2>3. Answering = T!NoAnswer
    BY <2>1, AnsweringFact
  <2>4. sense' = T!FailureOf(cmd)
    BY <2>1, HandleResult
  <2>5. Answering' = T!Result(cmd)
    BY <2>1, HandleResult DEF Answering, T!Result, NoSense, T!NoSense
  <2>6. T!Perform
    BY <2>1, <2>2, <2>3, <2>4, <2>5 DEF T!Perform
  <2>7. QED
    BY <2>6 DEF T!Next
<1>3. CASE Drain \/ Send
  BY <1>3 DEF Drain, Send, Answering, T!vars
<1>4. CASE Status
  <2>1. /\ host = "csw" /\ dev = "data"
        /\ host' = "idle" /\ cmd' = NoRequest /\ sense' = sense
        /\ answer' = [status |-> plan.status, data |-> cmd.len - plan.residue,
                      reported |-> plan.reported]
    BY <1>4 DEF Status, DevStatus
  <2>2. cmd.len - plan.residue = plan.send
    <3>1. cmd.len \in Nat /\ PlanFits(plan, cmd)
      BY <2>1 DEF RInv, WorkerInv, CmdInv, UsualHost, Consistent, RequestType
    <3>2. QED
      BY <3>1 DEF PlanFits
  <2>3. answer' = Answering /\ Answering # T!NoAnswer
    BY <2>1, <2>2, AnsweringFact DEF Answering
  <2>4. Answering' = T!NoAnswer
    BY <1>4, PlanFields DEF Status, Answering, NoPlan, T!NoAnswer, NoSense, T!NoSense
  <2>5. T!Deliver
    BY <2>1, <2>3, <2>4 DEF T!Deliver, NoRequest, T!NoRequest
  <2>6. QED
    BY <2>5 DEF T!Next
<1>5. CASE ReadFails
  <2>1. Answering # T!NoAnswer
    BY <1>5, AnsweringFact DEF ReadFails, DevSends
  <2>2. T!Fail
    BY <1>5, <2>1 DEF ReadFails, T!Fail, Answering
  <2>3. QED
    BY <2>2 DEF T!Next
<1>6. CASE BusReset
  <2>1. Answering' = T!NoAnswer
    BY <1>6, PlanFields DEF BusReset, Answering, NoPlan, T!NoAnswer, NoSense, T!NoSense
  <2>2. T!Reset
    BY <1>6, <2>1 DEF BusReset, T!Reset, NoRequest, T!NoRequest, NoSense, T!NoSense
  <2>3. QED
    BY <2>2 DEF T!Next
<1>7. CASE UNCHANGED vars
  BY <1>7 DEF vars, T!vars, Answering
<1>8. QED
  BY <1>1, <1>2, <1>3, <1>4, <1>5, <1>6, <1>7, NeverMisread DEF RInv, Next, Transfer

\* Seen through the Bulk-Only Transport, the backend is the CD-ROM of
\* ScsiTarget: each command is performed once and answered with its own
\* status, data and sense (handle_scsi_command and its handlers).
THEOREM Implements ==
    ASSUME UsualHost
    PROVE  Spec => TargetSpec
<1>1. Init => RInv
  BY InitR
<1>2. RInv /\ [Next]_vars => RInv'
  BY StepR
<1>3. Init => T!Init
  BY RefinesInit
<1>4. RInv /\ [Next]_vars => [T!Next \/ Stray(cmd) \/ Stray(cmd')]_(T!vars)
  BY RefinesStep
<1>5. QED
  BY <1>1, <1>2, <1>3, <1>4, PTL DEF Spec, TargetSpec

-----------------------------------------------------------------------------
(* Part three: the methods of UsbVentoy                                    *)


PacketType ==
    [kind : {"none", "cbw", "data", "csw"}, op : Ops \cup {"none"}, tag : Nat,
     status : 0..6, of : Nat]

\* The parts of the types the argument needs.
CmdType == [op : Ops \cup {"none"}, tag : Nat, key : 0..6]
JobType == [op : Ops \cup {"none"}, more : Int, try : Int]
HostTypes == call \in Nat /\ nextTag \in Nat /\ command \in CmdType /\ job \in JobType
DriveTypes ==
    /\ senseData \in 0..6 /\ serving \in PacketType /\ inbox \in PacketType
    /\ reply \in Seq(PacketType) /\ (phase = "reply" => reply # <<>>)

\* Where ILLEGAL REQUEST can be found: in the drive's sense, on its way to the
\* host, or in the command that read it.
DriveKeys ==
    /\ senseData = SENSE_KEY_ILLEGAL_REQUEST => flushes = "never"
    /\ \A i \in 1..Len(reply) :
          reply[i].status = SENSE_KEY_ILLEGAL_REQUEST => flushes = "never"
HostKey == job.op # "none" /\ command.key = SENSE_KEY_ILLEGAL_REQUEST => flushes = "never"

\* A method that runs has a connection, and only one that runs has a stage.
FlagInv ==
    /\ open \in BOOLEAN /\ unsupported \in BOOLEAN
    /\ unsupported => open /\ flushes = "never"
    /\ job.op # "none" => open
    /\ stage # "none" => job.op # "none"

DriveInv == DriveTypes /\ DriveKeys
HostInv == HostTypes /\ HostKey /\ FlagInv
HostInvariant == HostInv /\ DriveInv

-----------------------------------------------------------------------------
(* The drive                                                               *)

\* Packets have their type.
LEMMA PacketFact ==
    ASSUME NEW kind \in {"none", "cbw", "data", "csw"}, NEW op \in Ops \cup {"none"},
           NEW tag \in Nat, NEW status \in 0..6, NEW of \in Nat
    PROVE  /\ Frame(kind, op, tag, status, of) \in PacketType
           /\ Frame(kind, op, tag, status, of).status = status
BY DEF Frame, PacketType

LEMMA NoPacketFact == NoPacket \in PacketType
BY PacketFact DEF NoPacket, Ops

\* A status packet carries a status, which is no sense key.
LEMMA CswFact ==
    ASSUME NEW p \in PacketType, NEW status \in 0..2
    PROVE  Csw(p, status) \in PacketType /\ Csw(p, status).status = status
<1>1. p.op \in Ops \cup {"none"} /\ p.tag \in Nat /\ p.of \in Nat
  BY DEF PacketType
<1>2. status \in 0..6
  OBVIOUS
<1> QED
  BY <1>1, <1>2, SMT DEF Csw, Frame, PacketType

\* A data packet carries the drive's sense, or none.
LEMMA DataFact ==
    ASSUME NEW p \in PacketType, senseData \in 0..6
    PROVE  Data(p) \in PacketType /\ Data(p).status \in {0, senseData}
<1>1. p.op \in Ops \cup {"none"} /\ p.of \in Nat
  BY DEF PacketType
<1>2. PICK k \in 0..6 : k \in {0, senseData} /\ Data(p) = Frame("data", p.op, 0, k, p.of)
  <2>1. CASE p.op = "sense"
    BY <2>1 DEF Data
  <2>2. CASE p.op # "sense"
    BY <2>2 DEF Data
  <2> QED
    BY <2>1, <2>2
<1> QED
  BY <1>1, <1>2, SMT DEF Frame, PacketType

\* One more status packet behind data packets.
LEMMA ReplyFact ==
    ASSUME NEW data \in Seq(PacketType), NEW p \in PacketType
    PROVE  /\ data \o <<p>> \in Seq(PacketType) /\ data \o <<p>> # <<>>
           /\ \A i \in 1..Len(data \o <<p>>) :
                 \/ (data \o <<p>>)[i] = p
                 \/ \E j \in 1..Len(data) : (data \o <<p>>)[i] = data[j]
OBVIOUS

\* The host takes a packet: what is left was there before.
LEMMA SentFact ==
    ASSUME DriveInv, Sent
    PROVE  DriveInv'
<1>1. reply # <<>> /\ reply' = Tail(reply) /\ reply \in Seq(PacketType)
  BY DEF Sent, DriveInv, DriveTypes
<1>2. reply' \in Seq(PacketType) /\ Len(reply') = Len(reply) - 1
  BY <1>1
<1>3. \A i \in 1..Len(reply') : i + 1 \in 1..Len(reply) /\ reply'[i] = reply[i + 1]
  BY <1>1, <1>2
<1>4. DriveTypes'
  BY <1>2 DEF Sent, DriveInv, DriveTypes
<1>5. DriveKeys'
  BY <1>3 DEF Sent, DriveInv, DriveKeys
<1> QED
  BY <1>4, <1>5 DEF DriveInv

\* A drive after power-on or Reset Recovery.
LEMMA FreshFact ==
    ASSUME Fresh
    PROVE  DriveInv'
<1>1. reply' = <<>> /\ Len(reply') = 0 /\ reply' \in Seq(PacketType)
  BY DEF Fresh
<1> QED
  BY <1>1, NoPacketFact DEF Fresh, DriveInv, DriveTypes, DriveKeys, NoSenseKey,
     SENSE_KEY_ILLEGAL_REQUEST

\* The host hands over a packet.
LEMMA PutFact ==
    ASSUME DriveInv, NEW p \in PacketType, Put(p)
    PROVE  DriveInv'
BY DEF Put, DriveInv, DriveTypes, DriveKeys

\* The end of a command: the key it leaves in the drive and the data it sends.
LEMMA FinishFact ==
    ASSUME DriveInv, UNCHANGED <<flushes, serving, owed, inbox>>,
           NEW data \in Seq(PacketType), NEW status \in 0..2, NEW key \in 0..6,
           \A i \in 1..Len(data) : data[i].status \in {0, senseData},
           key = SENSE_KEY_ILLEGAL_REQUEST => flushes = "never",
           Finish(data, status, key)
    PROVE  DriveInv'
<1> DEFINE p == Csw(serving, status)
<1>1. p \in PacketType /\ p.status = status
  BY CswFact DEF DriveInv, DriveTypes
<1>2. reply' = data \o <<p>> /\ phase' = "reply" /\ senseData' = key
  BY DEF Finish
<1> HIDE DEF p
<1>3. /\ reply' \in Seq(PacketType) /\ reply' # <<>>
      /\ \A i \in 1..Len(reply') :
            reply'[i] = p \/ \E j \in 1..Len(data) : reply'[i] = data[j]
  BY <1>1, <1>2, ReplyFact
<1>4. DriveTypes'
  BY <1>2, <1>3 DEF DriveInv, DriveTypes
<1>5. \A i \in 1..Len(reply') : reply'[i].status \in {0, 1, 2, senseData}
  BY <1>1, <1>3
<1>6. DriveKeys'
  <2>1. senseData = 5 => flushes' = "never"
    BY DEF DriveInv, DriveKeys, SENSE_KEY_ILLEGAL_REQUEST
  <2>2. senseData' = 5 => flushes' = "never"
    BY <1>2 DEF SENSE_KEY_ILLEGAL_REQUEST
  <2>3. \A i \in 1..Len(reply') : reply'[i].status = 5 => flushes' = "never"
    BY <1>5, <2>1
  <2> QED
    BY <2>2, <2>3 DEF DriveKeys, SENSE_KEY_ILLEGAL_REQUEST
<1> QED
  BY <1>4, <1>6 DEF DriveInv

\* The drive carries out a command or fails it.
LEMMA WorkFact ==
    ASSUME DriveInv, Work
    PROVE  DriveInv'
<1> DEFINE n == IF serving.op = "read" THEN Blocks ELSE 1
           data == [i \in 1..n |-> Data(serving)]
           nothing == <<>>
<1>1. UNCHANGED <<flushes, serving, owed, inbox>>
  BY DEF Work
<1>2. Data(serving) \in PacketType /\ Data(serving).status \in {0, senseData}
  BY DataFact DEF DriveInv, DriveTypes
<1>3. n \in Nat
  BY BotAssumption
<1>4. data \in Seq(PacketType) /\ \A i \in 1..Len(data) : data[i].status \in {0, senseData}
  <2> HIDE DEF n
  <2> QED
    BY <1>2, <1>3
<1>5. nothing \in Seq(PacketType) /\ Len(nothing) = 0
  OBVIOUS
<1>6. \A i \in 1..Len(nothing) : nothing[i].status \in {0, senseData}
  BY <1>5
<1>7. \/ Finish(data, 0, NoSenseKey)
      \/ Finish(nothing, 0, NoSenseKey)
      \/ flushes = "never" /\ Finish(nothing, 1, SENSE_KEY_ILLEGAL_REQUEST)
      \/ Finish(nothing, 1, OtherSense)
      \/ Finish(nothing, 2, OtherSense)
  BY DEF Work
<1>8. /\ NoSenseKey \in 0..6 /\ NoSenseKey # SENSE_KEY_ILLEGAL_REQUEST
      /\ OtherSense \in 0..6 /\ OtherSense # SENSE_KEY_ILLEGAL_REQUEST
      /\ SENSE_KEY_ILLEGAL_REQUEST \in 0..6
      /\ 0 \in 0..2 /\ 1 \in 0..2 /\ 2 \in 0..2
  BY DEF NoSenseKey, OtherSense, SENSE_KEY_ILLEGAL_REQUEST
<1> HIDE DEF data, nothing
<1>9. CASE Finish(data, 0, NoSenseKey)
  BY <1>1, <1>4, <1>8, <1>9, FinishFact
<1>10. CASE Finish(nothing, 0, NoSenseKey)
  BY <1>1, <1>5, <1>6, <1>8, <1>10, FinishFact
<1>11. CASE flushes = "never" /\ Finish(nothing, 1, SENSE_KEY_ILLEGAL_REQUEST)
  BY <1>1, <1>5, <1>6, <1>8, <1>11, FinishFact
<1>12. CASE Finish(nothing, 1, OtherSense)
  BY <1>1, <1>5, <1>6, <1>8, <1>12, FinishFact
<1>13. CASE Finish(nothing, 2, OtherSense)
  BY <1>1, <1>5, <1>6, <1>8, <1>13, FinishFact
<1> QED
  BY <1>7, <1>9, <1>10, <1>11, <1>12, <1>13

\* The drive reads the packet in its buffer.
LEMMA TakeFact ==
    ASSUME DriveInv, Take
    PROVE  DriveInv'
<1>1. inbox' = NoPacket /\ inbox' \in PacketType /\ flushes' = flushes
  BY NoPacketFact DEF Take
<1>2. CASE phase' # "reply" /\ serving' \in {inbox, serving} /\ UNCHANGED <<reply, senseData>>
  BY <1>1, <1>2 DEF DriveInv, DriveTypes, DriveKeys
<1>3. CASE phase' = "reply" /\ reply' = <<Csw(serving, 1)>> /\ senseData' = OtherSense
           /\ serving' = serving
  <2> DEFINE p == Csw(serving, 1)
  <2>1. p \in PacketType /\ p.status = 1
    BY CswFact DEF DriveInv, DriveTypes
  <2> HIDE DEF p
  <2>2. reply' = <<p>>
    BY <1>3 DEF p
  <2>3. reply' \in Seq(PacketType) /\ reply' # <<>> /\ Len(reply') = 1 /\ reply'[1] = p
    BY <2>1, <2>2
  <2>4. DriveTypes'
    BY <1>1, <1>3, <2>3 DEF DriveInv, DriveTypes, OtherSense
  <2>5. DriveKeys'
    BY <1>3, <2>1, <2>3 DEF DriveKeys, OtherSense, SENSE_KEY_ILLEGAL_REQUEST
  <2> QED
    BY <2>4, <2>5 DEF DriveInv
<1> QED
  BY <1>2, <1>3 DEF Take

\* What the drive does on its own leaves the host alone.
LEMMA DriveFact ==
    ASSUME HostInvariant, Drive
    PROVE  HostInvariant'
<1>1. DriveInv'
  BY WorkFact, TakeFact DEF Drive, HostInvariant
<1>2. flushes' = flushes
  BY DEF Drive, Work, Take
<1>3. HostInv'
  BY <1>2 DEF Drive, HostInvariant, HostInv, HostTypes, HostKey, FlagInv, hostVars
<1> QED
  BY <1>1, <1>3 DEF HostInvariant

-----------------------------------------------------------------------------
(* The host                                                                *)

\* A method that returns.
LEMMA ReturnFact ==
    ASSUME HostInv, NEW r, Return(r), call' = call, flushes' = flushes
    PROVE  HostTypes' /\ HostKey' /\ job'.op = "none" /\ stage' = "none"
<1>1. Idle \in JobType /\ Idle.op = "none"
  BY DEF Idle, JobType
<1> QED
  BY <1>1 DEF Return, HostInv, HostTypes, HostKey

\* A new command starts with no sense read.
LEMMA CommandFact ==
    ASSUME nextTag \in Nat, NEW op \in Ops, Command(op)
    PROVE  /\ nextTag' \in Nat /\ command' \in CmdType
           /\ command'.key # SENSE_KEY_ILLEGAL_REQUEST
<1>1. nextTag' \in Nat
  BY DEF Command, AllocateTag
<1>2. command' \in CmdType /\ command'.key = 0
  BY DEF Command, CmdType, NoSenseKey
<1> QED
  BY <1>1, <1>2 DEF SENSE_KEY_ILLEGAL_REQUEST

\* Another attempt, or the end of synchronizeCache.
LEMMA RetryFact ==
    ASSUME HostInv, job.op # "none", Retry, call' = call, flushes' = flushes
    PROVE  HostInv'
<1>1. CASE job.try < Tries /\ job' = [job EXCEPT !.try = @ + 1] /\ Command("sync")
  <2>1. "sync" \in Ops /\ nextTag \in Nat /\ call \in Nat
    BY DEF Ops, HostInv, HostTypes
  <2>2. nextTag' \in Nat /\ command' \in CmdType /\ command'.key # SENSE_KEY_ILLEGAL_REQUEST
    BY <1>1, <2>1, CommandFact
  <2>3. job' \in JobType /\ job'.op = job.op
    BY <1>1 DEF HostInv, HostTypes, JobType
  <2>4. HostTypes' /\ HostKey'
    BY <2>1, <2>2, <2>3 DEF HostTypes, HostKey
  <2>5. FlagInv'
    BY <2>3 DEF Retry, Keep, HostInv, FlagInv
  <2> QED
    BY <2>4, <2>5 DEF HostInv
<1>2. CASE Return("false")
  <2>1. HostTypes' /\ HostKey' /\ job'.op = "none" /\ stage' = "none"
    BY <1>2, ReturnFact
  <2>2. FlagInv'
    BY <2>1 DEF Retry, Keep, HostInv, FlagInv
  <2> QED
    BY <2>1, <2>2 DEF HostInv
<1> QED
  BY <1>1, <1>2 DEF Retry

\* A method returns and the connection stays or is closed.
LEMMA LeaveFact ==
    ASSUME HostInv, NEW r, Return(r), Keep \/ Shut(FALSE), call' = call,
           flushes' = flushes
    PROVE  HostInv'
<1>1. HostTypes' /\ HostKey' /\ job'.op = "none" /\ stage' = "none"
  BY ReturnFact
<1>2. CASE Keep
  <2>1. open' = open /\ unsupported' = unsupported
    BY <1>2 DEF Keep
  <2> QED
    BY <1>1, <2>1 DEF HostInv, FlagInv
<1>3. CASE Shut(FALSE)
  <2>1. open' = FALSE /\ unsupported' = FALSE
    BY <1>3 DEF Shut
  <2>2. FlagInv'
    BY <1>1, <2>1, Zenon DEF FlagInv
  <2> QED
    BY <1>1, <2>2 DEF HostInv
<1> QED
  BY <1>2, <1>3

\* A stage that failed.
LEMMA FailFact ==
    ASSUME HostInv, job.op # "none", Fail, call' = call, flushes' = flushes
    PROVE  HostInv'
<1>1. CASE Shut(FALSE) /\ Return("false")
  BY <1>1, LeaveFact
<1>2. CASE Retry
  BY <1>2, RetryFact
<1>3. CASE Keep /\ Return("false")
  BY <1>3, LeaveFact
<1> QED
  BY <1>1, <1>2, <1>3 DEF Fail

\* A command that succeeded: the flag is raised on the key the drive gave.
LEMMA SucceedFact ==
    ASSUME HostInv, job.op # "none", Succeed, call' = call, flushes' = flushes
    PROVE  HostInv'
<1>1. CASE /\ command.op \in {"write", "read"} /\ Command(command.op) /\ Keep
           /\ job' = [job EXCEPT !.more = @ - 1]
  <2>1. command.op \in Ops /\ nextTag \in Nat /\ call \in Nat
    BY <1>1 DEF Ops, HostInv, HostTypes
  <2>2. nextTag' \in Nat /\ command' \in CmdType /\ command'.key # SENSE_KEY_ILLEGAL_REQUEST
    BY <1>1, <2>1, CommandFact
  <2>3. job' \in JobType /\ job'.op = job.op
    BY <1>1 DEF HostInv, HostTypes, JobType
  <2>4. HostTypes' /\ HostKey'
    BY <2>1, <2>2, <2>3 DEF HostTypes, HostKey
  <2>5. FlagInv'
    <3>1. open' = open /\ unsupported' = unsupported /\ job'.op # "none"
      BY <1>1, <2>3 DEF Keep
    <3> QED
      BY <3>1 DEF HostInv, FlagInv
  <2> QED
    BY <2>4, <2>5 DEF HostInv
<1>2. CASE (Keep \/ Shut(FALSE)) /\ \E r \in {"true", "false"} : Return(r)
  BY <1>2, LeaveFact
<1>3. CASE /\ command.key = SENSE_KEY_ILLEGAL_REQUEST /\ unsupported' = TRUE
           /\ Return("true") /\ UNCHANGED open
  <2>1. HostTypes' /\ HostKey' /\ job'.op = "none" /\ stage' = "none"
    BY <1>3, ReturnFact
  <2>2. flushes' = "never" /\ open' = TRUE
    BY <1>3 DEF HostInv, HostKey, FlagInv
  <2>3. FlagInv'
    BY <1>3, <2>1, <2>2 DEF FlagInv
  <2> QED
    BY <2>1, <2>3 DEF HostInv
<1>4. CASE Retry
  BY <1>4, RetryFact
<1> QED
  BY <1>1, <1>2, <1>3, <1>4 DEF Succeed

-----------------------------------------------------------------------------
(* The actions                                                             *)

\* A call on an idle object starts a command of the method.
LEMMA StartFact ==
    ASSUME HostInv, NEW op \in Ops, NEW n \in Nat, Start(op, n), open, Keep
    PROVE  HostInv'
<1>1. nextTag \in Nat /\ call \in Nat /\ call' = call + 1 /\ flushes' = flushes
  BY DEF HostInv, HostTypes, Start, Asked, driveVars
<1>2. nextTag' \in Nat /\ command' \in CmdType /\ command'.key # SENSE_KEY_ILLEGAL_REQUEST
  BY <1>1, CommandFact DEF Start
<1>3. job' = [op |-> op, more |-> n - 1, try |-> 1]
  BY DEF Start
<1>4. job' \in JobType /\ job'.op = op /\ op # "none"
  BY <1>3 DEF JobType, Ops
<1>5. HostTypes' /\ HostKey'
  BY <1>1, <1>2, <1>4 DEF HostTypes, HostKey
<1>6. open' = open /\ unsupported' = unsupported
  BY DEF Keep
<1>7. FlagInv'
  BY <1>1, <1>4, <1>6 DEF HostInv, FlagInv
<1> QED
  BY <1>5, <1>7 DEF HostInv

\* open() starts READ CAPACITY on a connection without the flag.
LEMMA OpenFact ==
    ASSUME HostInv, Open
    PROVE  HostInv'
<1>1. nextTag \in Nat /\ call \in Nat /\ call' = call + 1 /\ flushes' = flushes
  BY DEF HostInv, HostTypes, Open, Asked, driveVars
<1>2. nextTag' \in Nat /\ command' \in CmdType /\ command'.key # SENSE_KEY_ILLEGAL_REQUEST
  <2>1. CASE Command("capacity")
    BY <1>1, <2>1, CommandFact DEF Ops
  <2>2. CASE nextTag' = 2 /\ command' = [op |-> "capacity", tag |-> 1, key |-> NoSenseKey]
    BY <2>2 DEF CmdType, Ops, NoSenseKey, SENSE_KEY_ILLEGAL_REQUEST
  <2> QED
    BY <2>1, <2>2 DEF Open
<1>3. job' \in JobType /\ job'.op = "capacity"
  BY DEF Open, JobType, Ops
<1>4. HostTypes' /\ HostKey'
  BY <1>1, <1>2, <1>3 DEF HostTypes, HostKey
<1>5. open' = TRUE /\ unsupported' = FALSE
  BY DEF Open, Shut
<1>6. FlagInv'
  BY <1>3, <1>5, Zenon DEF FlagInv
<1> QED
  BY <1>4, <1>6 DEF HostInv

\* A call answered without a command, or close(): no method runs.
LEMMA QuietFact ==
    ASSUME HostInv, Keep \/ Shut(FALSE), flushes' = flushes, call' \in Nat,
           UNCHANGED <<nextTag, job, stage, command>>, job.op = "none"
    PROVE  HostInv'
<1>1. HostTypes' /\ HostKey' /\ job'.op = "none" /\ stage' = "none"
  BY DEF HostInv, HostTypes, HostKey, FlagInv
<1>2. CASE Keep
  <2>1. open' = open /\ unsupported' = unsupported
    BY <1>2 DEF Keep
  <2> QED
    BY <1>1, <2>1 DEF HostInv, FlagInv
<1>3. CASE Shut(FALSE)
  <2>1. open' = FALSE /\ unsupported' = FALSE
    BY <1>3 DEF Shut
  <2>2. FlagInv'
    BY <1>1, <2>1, Zenon DEF FlagInv
  <2> QED
    BY <1>1, <2>2 DEF HostInv
<1> QED
  BY <1>2, <1>3

\* Calls keep the invariant; none of them touches the drive.
LEMMA CallerFact ==
    ASSUME HostInvariant, Caller
    PROVE  HostInvariant'
<1>1. HostInv /\ DriveInv /\ call \in Nat /\ MaxCommands \in Nat
  BY CallsAssumption DEF HostInvariant, HostInv, HostTypes
<1>2. UNCHANGED driveVars
  BY DEF Caller, Open, Close, TransferBlocks, SynchronizeCache, SkipSync, Refuse, Start
<1>3. DriveInv'
  BY <1>1, <1>2 DEF driveVars, DriveInv, DriveTypes, DriveKeys
<1> SUFFICES HostInv'
  BY <1>3 DEF HostInvariant
<1>4. CASE Open
  BY <1>1, <1>4, OpenFact
<1>5. CASE Close
  BY <1>1, <1>2, <1>5, QuietFact DEF Close, driveVars, callVars
<1>6. CASE TransferBlocks
  <2>1. PICK op \in {"write", "read", "ready"}, n \in 1..MaxCommands : Start(op, n)
    BY <1>6 DEF TransferBlocks
  <2>2. op \in Ops /\ n \in Nat /\ open /\ Keep
    BY <1>1, <1>6 DEF TransferBlocks, Ops
  <2> QED
    BY <1>1, <2>1, <2>2, StartFact
<1>7. CASE SynchronizeCache
  BY <1>1, <1>7, StartFact DEF SynchronizeCache, Ops
<1>8. CASE SkipSync
  BY <1>1, <1>2, <1>8, QuietFact DEF SkipSync, Asked, driveVars
<1>9. CASE Refuse
  BY <1>1, <1>2, <1>9, QuietFact DEF Refuse, Asked, driveVars
<1> QED
  BY <1>4, <1>5, <1>6, <1>7, <1>8, <1>9 DEF Caller

\* A stage that only moves bytes, or gives way to the next stage.
LEMMA StageFact ==
    ASSUME HostInv, job.op # "none", Keep, flushes' = flushes, call' = call,
           UNCHANGED <<nextTag, job>>, command' \in CmdType,
           command'.key = SENSE_KEY_ILLEGAL_REQUEST => flushes = "never"
    PROVE  HostInv'
<1>1. HostTypes' /\ HostKey' /\ job'.op # "none"
  BY DEF HostInv, HostTypes, HostKey
<1>2. open' = open /\ unsupported' = unsupported
  BY DEF Keep
<1>3. FlagInv'
  BY <1>1, <1>2 DEF HostInv, FlagInv
<1> QED
  BY <1>1, <1>3 DEF HostInv

\* The host's transfers keep the invariant.
LEMMA MethodFact ==
    ASSUME HostInvariant, Method
    PROVE  HostInvariant'
<1>1. HostInv /\ DriveInv /\ call \in Nat /\ command \in CmdType
  BY DEF HostInvariant, HostInv, HostTypes
<1>2. job.op # "none" /\ call' = call
  BY <1>1 DEF Method, SendCbw, SendData, ReceiveData, ReceivePart, Babble,
              ReceiveStatus, ReceivePhaseError, Expire, HostInv, FlagInv, callVars
<1>3. command.key = SENSE_KEY_ILLEGAL_REQUEST => flushes = "never"
  BY <1>1, <1>2 DEF HostInv, HostKey
<1>4. CASE SendCbw
  <2>1. Cbw(command) \in PacketType
    BY <1>1, SMT DEF Cbw, Frame, PacketType, CmdType
  <2>2. DriveInv' /\ flushes' = flushes
    BY <1>1, <1>4, <2>1, PutFact DEF SendCbw, Put
  <2>3. HostInv'
    BY <1>1, <1>2, <1>3, <1>4, <2>2, StageFact DEF SendCbw
  <2> QED
    BY <2>2, <2>3 DEF HostInvariant
<1>5. CASE SendData
  <2>1. Frame("data", "write", 0, 0, call) \in PacketType
    BY <1>1, SMT DEF Frame, PacketType, Ops
  <2>2. DriveInv' /\ flushes' = flushes
    BY <1>1, <1>5, <2>1, PutFact DEF SendData, Put
  <2>3. HostInv'
    BY <1>1, <1>2, <1>3, <1>5, <2>2, StageFact DEF SendData
  <2> QED
    BY <2>2, <2>3 DEF HostInvariant
<1>6. CASE ReceiveData
  <2>1. DriveInv' /\ flushes' = flushes
    BY <1>1, <1>6, SentFact DEF ReceiveData, Sent
  <2>2. reply # <<>> /\ reply \in Seq(PacketType)
    BY <1>1, <1>6 DEF ReceiveData, Sent, DriveInv, DriveTypes
  <2>3. 1 \in 1..Len(reply) /\ reply[1] \in PacketType
    BY <2>2
  <2>4. /\ reply[1].status \in 0..6
        /\ reply[1].status = SENSE_KEY_ILLEGAL_REQUEST => flushes = "never"
    BY <1>1, <2>3 DEF PacketType, DriveInv, DriveKeys
  <2>5. command' = [command EXCEPT !.key = reply[1].status]
    BY <1>6 DEF ReceiveData
  <2>6. command' \in CmdType /\ command'.key = reply[1].status
    BY <1>1, <2>4, <2>5 DEF CmdType
  <2>7. HostInv'
    BY <1>1, <1>2, <1>6, <2>1, <2>4, <2>6, StageFact DEF ReceiveData
  <2> QED
    BY <2>1, <2>7 DEF HostInvariant
<1>7. CASE ReceivePart
  <2>1. DriveInv' /\ flushes' = flushes
    BY <1>1, <1>7, SentFact DEF ReceivePart, Sent
  <2>2. HostInv'
    BY <1>1, <1>2, <1>3, <1>7, <2>1, StageFact DEF ReceivePart
  <2> QED
    BY <2>1, <2>2 DEF HostInvariant
<1>8. CASE Babble
  <2>1. DriveInv' /\ flushes' = flushes
    BY <1>1, <1>8, SentFact DEF Babble, Sent
  <2>2. HostInv'
    BY <1>1, <1>2, <1>8, <2>1, FailFact DEF Babble
  <2> QED
    BY <2>1, <2>2 DEF HostInvariant
<1>9. CASE ReceiveStatus
  <2>1. DriveInv' /\ flushes' = flushes
    BY <1>1, <1>9, SentFact DEF ReceiveStatus, Sent
  <2>2. CASE Succeed
    BY <1>1, <1>2, <2>1, <2>2, SucceedFact DEF HostInvariant
  <2>3. CASE Command("sense") /\ Keep /\ UNCHANGED job
    <3>1. nextTag \in Nat /\ job \in JobType
      BY <1>1 DEF HostInv, HostTypes
    <3>2. nextTag' \in Nat /\ command' \in CmdType /\ command'.key # SENSE_KEY_ILLEGAL_REQUEST
      BY <2>3, <3>1, CommandFact DEF Ops
    <3>3. HostTypes' /\ HostKey' /\ job'.op # "none"
      BY <1>1, <1>2, <2>3, <3>1, <3>2 DEF HostTypes, HostKey
    <3>4. open' = open /\ unsupported' = unsupported
      BY <2>3 DEF Keep
    <3>5. FlagInv'
      BY <1>1, <2>1, <2>3, <3>3, <3>4 DEF HostInv, FlagInv
    <3> QED
      BY <2>1, <3>3, <3>5 DEF HostInvariant, HostInv
  <2>4. CASE Fail
    BY <1>1, <1>2, <2>1, <2>4, FailFact DEF HostInvariant
  <2> QED
    BY <1>9, <2>2, <2>3, <2>4 DEF ReceiveStatus
<1>10. CASE ReceivePhaseError
  <2>1. DriveInv' /\ flushes' = flushes
    BY <1>1, <1>10, SentFact, FreshFact DEF ReceivePhaseError, Sent
  <2>2. HostInv'
    BY <1>1, <1>2, <1>10, <2>1, LeaveFact DEF ReceivePhaseError
  <2> QED
    BY <2>1, <2>2 DEF HostInvariant
<1>11. CASE Expire
  <2>1. DriveInv' /\ flushes' = flushes
    BY <1>1, <1>11 DEF Expire, driveVars, DriveInv, DriveTypes, DriveKeys
  <2>2. HostInv'
    BY <1>1, <1>2, <1>11, <2>1, FailFact DEF Expire
  <2> QED
    BY <2>1, <2>2 DEF HostInvariant
<1> QED
  BY <1>4, <1>5, <1>6, <1>7, <1>8, <1>9, <1>10, <1>11 DEF Method

\* Another drive: nothing of the old one is left, and no flag.
LEMMA SwapFact ==
    ASSUME HostInvariant, Swap
    PROVE  HostInvariant'
<1>1. DriveInv'
  BY FreshFact DEF Swap
<1>2. ~unsupported /\ job.op = "none"
  BY DEF Swap, HostInvariant, HostInv, FlagInv
<1>3. UNCHANGED <<call, nextTag, command, job, open, unsupported, stage>>
  BY DEF Swap, callVars, hostVars
<1>4. HostTypes' /\ HostKey'
  BY <1>2, <1>3 DEF HostInvariant, HostInv, HostTypes, HostKey
<1>5. FlagInv'
  BY <1>2, <1>3 DEF HostInvariant, HostInv, FlagInv
<1> QED
  BY <1>1, <1>4, <1>5 DEF HostInvariant, HostInv

-----------------------------------------------------------------------------

\* The flag that turns synchronizeCache into a no-op (UsbVentoy 2793-2807) is set
\* only while the connected drive refuses SYNCHRONIZE CACHE, however late its
\* answers are and whatever earlier calls and sessions left in the pipe.
THEOREM NoOpAlwaysEarned == BotSpec => []NoOpEarned
<1>1. BotInit => HostInvariant
  <2> SUFFICES ASSUME BotInit PROVE HostInvariant
    OBVIOUS
  <2>1. reply = <<>> /\ Len(reply) = 0 /\ reply \in Seq(PacketType)
    BY DEF BotInit
  <2>2. DriveInv
    BY <2>1, NoPacketFact DEF BotInit, DriveInv, DriveTypes, DriveKeys, NoSenseKey,
       SENSE_KEY_ILLEGAL_REQUEST
  <2>3. HostTypes /\ HostKey
    BY BotAssumption DEF BotInit, CallsInit, HostTypes, HostKey, Idle, CmdType, JobType,
       NoSenseKey
  <2>4. FlagInv
    <3>1. open = FALSE /\ unsupported = FALSE
      BY DEF BotInit
    <3>2. job.op = "none" /\ stage = "none"
      BY DEF BotInit, Idle
    <3> QED
      BY <3>1, <3>2, Zenon DEF FlagInv
  <2> QED
    BY <2>2, <2>3, <2>4 DEF HostInvariant, HostInv
<1>2. HostInvariant /\ [BotNext]_botVars => HostInvariant'
  <2> SUFFICES ASSUME HostInvariant, [BotNext]_botVars PROVE HostInvariant'
    OBVIOUS
  <2>1. CASE Caller
    BY <2>1, CallerFact
  <2>2. CASE Method
    BY <2>2, MethodFact
  <2>3. CASE Drive
    BY <2>3, DriveFact
  <2>4. CASE Swap
    BY <2>4, SwapFact
  <2>5. CASE UNCHANGED botVars
    BY <2>5 DEF botVars, callVars, hostVars, driveVars, HostInvariant, HostInv, HostTypes, HostKey,
       FlagInv, DriveInv, DriveTypes, DriveKeys
  <2> QED
    BY <2>1, <2>2, <2>3, <2>4, <2>5 DEF BotNext
<1>3. HostInvariant => NoOpEarned
  BY DEF HostInvariant, HostInv, FlagInv, NoOpEarned
<1> QED
  BY <1>1, <1>2, <1>3, PTL DEF BotSpec
=============================================================================
