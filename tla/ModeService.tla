---------------------------- MODULE ModeService ----------------------------
(***************************************************************************)
(* ModeService.java: the registry of running modes (static STATES and      *)
(* RESULTS, guarded by one lock) and the foreground service that shows one *)
(* ongoing notification per registered mode.                               *)
(*                                                                         *)
(* Three parties interleave: the main thread, which runs the UI callbacks, *)
(* the posted renders and the service lifecycle callbacks in FIFO order;   *)
(* background threads (the worker that turns a mode on or off, and the     *)
(* "ModeStop" thread that runs a stop hook), which call begin, progress    *)
(* and end; and the system's activity manager, which owns the service      *)
(* record and sends the lifecycle messages.  begin and end leave the lock  *)
(* before they read the volatile `instance` and post to its handler, so    *)
(* every call of a background thread is split at those points.             *)
(*                                                                         *)
(* Texts, percentages and the throttling of progress are left out: a       *)
(* progress call is at most one more render.                               *)
(***************************************************************************)
EXTENDS Integers, Sequences, FiniteSets

CONSTANTS
  Modes,         \* the modes that may be registered (MODE_ISO, MODE_GADGET, ...)
  Threads,       \* background threads
  MaxBegins,     \* bound: calls of begin, over all modes
  MaxInstances,  \* bound: service objects the system creates
  MaxPending,    \* bound: messages waiting when the user or a progress call adds one
  MayRefuse,     \* TRUE: startForegroundService and startForeground may throw
  NoMode         \* no mode: messages without one, a service not in the foreground

ASSUME ModesAssumption == NoMode \notin Modes
ASSUME BoundsAssumption == /\ MaxBegins \in Nat
                           /\ MaxInstances \in Nat \ {0}
                           /\ MaxPending \in Nat \ {0}
                           /\ MayRefuse \in BOOLEAN

VARIABLES
  states,     \* STATES: the registered modes in insertion order
  stopping,   \* the registered modes whose State.stopping is set
  results,    \* RESULTS: the modes with a result to show
  instance,   \* the static `instance` (0 = null)
  posted,     \* posted[i]: the `posted` set of service object i
  entered,    \* entered[i]: `foregroundMode` of service object i is not -1
  mainQ,      \* the main thread's message queue
  ams,        \* activity manager: the service object it has a record of (0 = none)
  created,    \* activity manager: service objects created so far
  binderQ,    \* lifecycle messages on their way to the process
  fg,         \* the mode whose notification makes the service foreground, or NoMode
  promise,    \* startForegroundService was called and startForeground is still owed
  shown,      \* the modes with an ongoing notification on the screen
  thr,        \* thr[t]: what background thread t is doing
  begins,     \* begins[m]: registrations so far (ledger, not in the code)
  hooks,      \* hooks[m]: stop hooks started so far (ledger)
  history,    \* history[m]: ends recorded in OperationHistory so far
  events      \* what has gone wrong so far: "refused", "thrown", "dying", "broken" (ledger)

registry == <<states, stopping, results>>
service  == <<instance, posted, entered>>
system   == <<ams, created, binderQ, fg, promise, shown>>
ledger   == <<begins, hooks, history>>
vars == <<states, stopping, results, instance, posted, entered, mainQ, ams,
          created, binderQ, fg, promise, shown, thr, begins, hooks, history, events>>
-----------------------------------------------------------------------------
Instances == 1..MaxInstances
Registered == {states[k] : k \in 1..Len(states)}

Message == [type : {"create", "start", "destroy", "render"},
            inst : Instances, mode : Modes \cup {NoMode}]
Msg(type, i, m) == [type |-> type, inst |-> i, mode |-> m]

\* A background thread: the mode it works for, whether it runs the stop hook
\* of that mode, and where it stands in the call it is making.
Thread == [pc    : {"idle", "ready", "beginRead", "beginStart", "endRead",
                    "progressRead", "post"},
           mode  : Modes \cup {NoMode},
           hook  : BOOLEAN,
           inst  : Instances \cup {0}]
At(pc, m, isHook, i) == [pc |-> pc, mode |-> m, hook |-> isHook, inst |-> i]
Idle == At("idle", NoMode, FALSE, 0)

Init ==
  /\ states = <<>> /\ stopping = {} /\ results = {}
  /\ instance = 0
  /\ posted = [i \in Instances |-> {}]
  /\ entered = [i \in Instances |-> FALSE]
  /\ mainQ = <<>>
  /\ ams = 0 /\ created = 0 /\ binderQ = <<>>
  /\ fg = NoMode /\ promise = FALSE /\ shown = {}
  /\ thr = [t \in Threads |-> Idle]
  /\ begins = [m \in Modes |-> 0]
  /\ hooks = [m \in Modes |-> 0]
  /\ history = [m \in Modes |-> 0]
  /\ events = {}
-----------------------------------------------------------------------------
(***************************************************************************)
(* The locked sections of the static methods.                              *)
(***************************************************************************)

\* Another begin within the bound, over all modes.
MayBegin ==
  Cardinality(UNION {{<<m, i>> : i \in 1..begins[m]} : m \in Modes}) < MaxBegins

\* Mutants of begin: the old result is kept; the State is always a new one.
Register_KeepsResult(m) ==
  /\ MayBegin
  /\ states' = IF m \in Registered THEN states ELSE Append(states, m)
  /\ stopping' = stopping \ {m}
  /\ begins' = [begins EXCEPT ![m] = @ + 1]
  /\ UNCHANGED results

\* begin: synchronized (STATES) { put or reset the State; forget the result }
Register(m) ==
  /\ MayBegin
  /\ states' = IF m \in Registered THEN states ELSE Append(states, m)
  /\ stopping' = stopping \ {m}
  /\ results' = results \ {m}
  /\ begins' = [begins EXCEPT ![m] = @ + 1]

\* Mutant of end: every caller records the outcome, whoever removed the mode.
Unregister_RecordsAlways(m) ==
  /\ \/ /\ m \notin Registered
        /\ UNCHANGED states
     \/ \E k \in 1..Len(states) :
           /\ states[k] = m
           /\ states' = [j \in 1..(Len(states) - 1) |->
                            IF j < k THEN states[j] ELSE states[j + 1]]
  /\ history' = [history EXCEPT ![m] = @ + 1]
  /\ stopping' = stopping \ {m}
  /\ results' = results \cup {m}

\* Mutant of end: the State is removed, a Stop that is running is not forgotten.
Unregister_KeepsStopping(m) ==
  /\ \/ /\ m \notin Registered
        /\ UNCHANGED <<states, history>>
     \/ \E k \in 1..Len(states) :
           /\ states[k] = m
           /\ states' = [j \in 1..(Len(states) - 1) |->
                            IF j < k THEN states[j] ELSE states[j + 1]]
           /\ history' = [history EXCEPT ![m] = @ + 1]
  /\ results' = results \cup {m}
  /\ UNCHANGED stopping

\* end: synchronized (STATES) { remove; record in the history if it was
\* there; keep the result }
Unregister(m) ==
  /\ \/ /\ m \notin Registered
        /\ UNCHANGED <<states, history>>
     \/ \E k \in 1..Len(states) :
           /\ states[k] = m
           /\ states' = [j \in 1..(Len(states) - 1) |->
                            IF j < k THEN states[j] ELSE states[j + 1]]
           /\ history' = [history EXCEPT ![m] = @ + 1]
  /\ stopping' = stopping \ {m}
  /\ results' = results \cup {m}

\* A thread the code starts with new Thread(...).start().
Spawn(t, m, isHook) ==
  /\ thr[t].pc = "idle"
  /\ thr' = [thr EXCEPT ![t] = At("ready", m, isHook, 0)]

\* Mutant of requestStop: `|| state.stopping` is dropped.
MayStop_Again(m) == m \in Registered

\* requestStop: only the first request of a registration starts the hook.
MayStop(m) == m \in Registered /\ m \notin stopping

RunHook(m, t) ==
  /\ stopping' = stopping \cup {m}
  /\ hooks' = [hooks EXCEPT ![m] = @ + 1]
  /\ Spawn(t, m, TRUE)
-----------------------------------------------------------------------------
(***************************************************************************)
(* The activity manager (external).                                        *)
(***************************************************************************)

\* startForegroundService / startService: create the service if there is no
\* record of one, then deliver the start command.  A service that is not in
\* the foreground owes a startForeground when startForegroundService asked.
SystemStart(m) ==
  LET i == IF ams = 0 THEN created + 1 ELSE ams IN
  /\ i <= MaxInstances
  /\ ams' = i
  /\ created' = IF ams = 0 THEN i ELSE created
  /\ promise' = (promise \/ (m = NoMode /\ fg = NoMode))
  /\ binderQ' = binderQ \o (IF ams = 0 THEN <<Msg("create", i, NoMode)>> ELSE <<>>)
                        \o <<Msg("start", i, m)>>

\* A lifecycle message reaches the queue of the main thread.
Deliver ==
  /\ binderQ # <<>>
  /\ mainQ' = Append(mainQ, Head(binderQ))
  /\ binderQ' = Tail(binderQ)
  /\ UNCHANGED <<registry, service, ams, created, fg, promise, shown, thr, ledger, events>>
-----------------------------------------------------------------------------
(***************************************************************************)
(* The user interface, on the main thread: one message of that thread, so  *)
(* nothing else of the main thread runs between its parts.                 *)
(***************************************************************************)

\* Mutant: only the first mode starts the service.
UiBegin_FirstOnly(m, t) ==
  /\ Len(mainQ) < MaxPending
  /\ Register(m)
  /\ Spawn(t, m, FALSE)
  /\ IF instance # 0
     THEN /\ mainQ' = Append(mainQ, Msg("render", instance, NoMode))
          /\ UNCHANGED <<ams, created, binderQ, promise>>
     ELSE /\ UNCHANGED mainQ
          /\ IF begins[m] = 0 THEN SystemStart(NoMode)
                              ELSE UNCHANGED <<ams, created, binderQ, promise>>
  /\ events' = IF instance # 0 /\ instance # ams THEN events \cup {"dying"} ELSE events
  /\ UNCHANGED <<service, fg, shown, hooks, history>>

\* begin, from a visible screen, then the worker thread of the screen.
UiBegin(m, t) ==
  /\ Len(mainQ) < MaxPending
  /\ Register(m)
  /\ Spawn(t, m, FALSE)
  /\ \/ /\ instance # 0
        /\ mainQ' = Append(mainQ, Msg("render", instance, NoMode))
        /\ events' = IF instance = ams THEN events ELSE events \cup {"dying"}
        /\ UNCHANGED <<ams, created, binderQ, promise>>
     \/ /\ instance = 0
        /\ SystemStart(NoMode)
        /\ UNCHANGED <<mainQ, events>>
     \/ /\ instance = 0 /\ MayRefuse      \* RuntimeException: swallowed
        /\ events' = events \cup {"refused"}
        /\ UNCHANGED <<mainQ, ams, created, binderQ, promise>>
  /\ UNCHANGED <<service, fg, shown, hooks, history>>

\* The stop button of a mode's own screen: a thread that turns the mode off.
UiStop(m, t) ==
  /\ m \in Registered
  /\ \A u \in Threads : thr[u].mode # m \/ thr[u].hook      \* operationRunning
  /\ Spawn(t, m, FALSE)
  /\ UNCHANGED <<registry, service, mainQ, system, ledger, events>>

\* requestStop from the status page.
UiRequestStop(m, t) ==
  /\ Len(mainQ) < MaxPending
  /\ MayStop(m)
  /\ RunHook(m, t)
  /\ mainQ' = IF instance = 0 THEN mainQ
              ELSE Append(mainQ, Msg("render", instance, NoMode))
  /\ UNCHANGED <<states, results, service, system, begins, history, events>>

\* The Stop action of an ongoing notification: a start command with ACTION_STOP.
TapStop(m) ==
  /\ m \in shown /\ m \notin stopping
  /\ \A k \in 1..Len(binderQ) : binderQ[k].mode # m
  /\ \A k \in 1..Len(mainQ) : mainQ[k].mode # m
  /\ SystemStart(m)
  /\ UNCHANGED <<registry, service, mainQ, fg, shown, thr, ledger, events>>
-----------------------------------------------------------------------------
(***************************************************************************)
(* The service object, on the main thread.                                 *)
(***************************************************************************)

\* NotificationManager.cancel leaves the foreground service's notification.
Cancel(notifications, ms) == notifications \ (ms \ {fg})

\* Mutant: the idle notification is skipped when there is nothing to show.
RenderIdle_NoIdle(i) ==
  /\ posted' = [posted EXCEPT ![i] = {}]
  /\ entered' = [entered EXCEPT ![i] = FALSE]
  /\ IF ams = i
     THEN /\ ams' = 0 /\ fg' = NoMode /\ promise' = FALSE
          /\ shown' = shown \ (posted[i] \cup {fg})
          /\ binderQ' = Append(binderQ, Msg("destroy", i, NoMode))
          /\ events' = IF promise THEN events \cup {"broken"} ELSE events
     ELSE /\ shown' = Cancel(shown, posted[i])
          /\ UNCHANGED <<ams, fg, binderQ, promise, events>>

\* Mutant: the foreground is left but the service is not stopped.
RenderIdle_NoStopSelf(i) ==
  /\ posted' = [posted EXCEPT ![i] = {}]
  /\ entered' = [entered EXCEPT ![i] = FALSE]
  /\ fg' = IF ams = i THEN NoMode ELSE fg
  /\ shown' = IF ams = i THEN shown \ (posted[i] \cup {fg})
             ELSE Cancel(shown, posted[i])
  /\ promise' = (promise /\ ams # i)
  /\ UNCHANGED <<ams, binderQ, events>>

\* render() of service object i when no mode is registered: enter the
\* foreground once if this object never did, leave it, and stopSelf().
RenderIdle(i) ==
  /\ posted' = [posted EXCEPT ![i] = {}]
  /\ entered' = [entered EXCEPT ![i] = FALSE]
  /\ IF ams = i
     THEN /\ ams' = 0
          /\ fg' = NoMode
          /\ shown' = shown \ (posted[i] \cup {fg})
          /\ binderQ' = Append(binderQ, Msg("destroy", i, NoMode))
          /\ promise' = FALSE
          /\ \/ /\ events' = IF promise /\ entered[i]
                            THEN events \cup {"broken"} ELSE events
             \/ /\ MayRefuse /\ promise /\ ~ entered[i]
                /\ events' = events \cup {"thrown", "broken"}
     ELSE /\ shown' = Cancel(shown, posted[i])
          /\ UNCHANGED <<ams, fg, binderQ, promise, events>>

\* Mutant: only the first mode is shown.
RenderModes_PrimaryOnly(i) ==
  /\ posted' = [posted EXCEPT ![i] = {Head(states)}]
  /\ entered' = [entered EXCEPT ![i] = TRUE]
  /\ fg' = IF ams = i THEN Head(states) ELSE fg
  /\ promise' = (promise /\ ams # i)
  /\ shown' = IF ams = i
              THEN ((shown \ {fg}) \cup {Head(states)}) \ (posted[i] \ {Head(states)})
              ELSE shown
  /\ UNCHANGED <<ams, binderQ, events>>

\* render() of service object i with modes registered: the first one through
\* startForeground, the others through notify, and cancel what has ended.
\* startForeground of an object whose record the system dropped is ignored.
RenderModes(i) ==
  /\ posted' = [posted EXCEPT ![i] = Registered]
  /\ entered' = [entered EXCEPT ![i] = TRUE]
  /\ UNCHANGED <<ams, binderQ>>
  /\ LET ended == posted[i] \ Registered IN
     \/ /\ ams = i
        /\ fg' = Head(states)
        /\ promise' = FALSE
        /\ shown' = ((shown \ {fg}) \cup Registered) \ ended
        /\ UNCHANGED events
     \/ /\ ams # i
        /\ shown' = Cancel(shown \cup (Registered \ {Head(states)}), ended)
        /\ UNCHANGED <<fg, promise, events>>
     \/ /\ MayRefuse                     \* startForeground throws: notify instead
        /\ events' = events \cup {"thrown"}
        /\ shown' = Cancel(shown \cup Registered, ended)
        /\ UNCHANGED <<fg, promise>>

Render(i) == IF states = <<>> THEN RenderIdle(i) ELSE RenderModes(i)

Take(type) == /\ mainQ # <<>> /\ Head(mainQ).type = type
              /\ mainQ' = Tail(mainQ)

OnCreate ==
  /\ Take("create")
  /\ instance' = Head(mainQ).inst
  /\ UNCHANGED <<registry, posted, entered, system, thr, ledger, events>>

\* onStartCommand of an ordinary start, or of a Stop that finds nothing to stop.
OnStart ==
  /\ Take("start")
  /\ ~ MayStop(Head(mainQ).mode)
  /\ Render(Head(mainQ).inst)
  /\ UNCHANGED <<registry, instance, created, thr, ledger>>

\* onStartCommand with ACTION_STOP: requestStop, which posts a render too,
\* and then render().
OnStartStop(t) ==
  LET head == Head(mainQ) IN
  /\ mainQ # <<>> /\ head.type = "start"
  /\ MayStop(head.mode)
  /\ RunHook(head.mode, t)
  /\ mainQ' = IF instance = 0 THEN Tail(mainQ)
              ELSE Append(Tail(mainQ), Msg("render", instance, NoMode))
  /\ Render(head.inst)
  /\ UNCHANGED <<states, results, instance, created, begins, history>>

OnRender ==
  /\ Take("render")
  /\ Render(Head(mainQ).inst)
  /\ UNCHANGED <<registry, instance, created, thr, ledger>>

OnDestroy ==
  /\ Take("destroy")
  /\ instance' = 0
  /\ UNCHANGED <<registry, posted, entered, system, thr, ledger, events>>
-----------------------------------------------------------------------------
(***************************************************************************)
(* Background threads.                                                     *)
(***************************************************************************)
Goto(t, pc, i) == thr' = [thr EXCEPT ![t] = At(pc, thr[t].mode, thr[t].hook, i)]

\* end: the worker failed or finished, the stop thread or the hook succeeded.
EndLocked(t) ==
  /\ thr[t].pc = "ready"
  /\ Unregister(thr[t].mode)
  /\ Goto(t, "endRead", 0)
  /\ UNCHANGED <<service, mainQ, system, begins, hooks, events>>

\* begin: a hook that could not turn its mode off registers the mode again.
BeginLocked(t) ==
  /\ thr[t].pc = "ready" /\ thr[t].hook
  /\ Register(thr[t].mode)
  /\ Goto(t, "beginRead", 0)
  /\ UNCHANGED <<service, mainQ, system, hooks, history, events>>

\* progress: does nothing for a mode that is not registered.
ProgressLocked(t) ==
  /\ thr[t].pc = "ready" /\ ~ thr[t].hook /\ thr[t].mode \in Registered
  /\ Len(mainQ) < MaxPending
  /\ Goto(t, "progressRead", 0)
  /\ UNCHANGED <<registry, service, mainQ, system, ledger, events>>

\* ModeService running = instance
ReadInstance(t) ==
  /\ thr[t].pc \in {"endRead", "beginRead", "progressRead"}
  /\ \/ /\ instance # 0
        /\ Goto(t, "post", instance)
     \/ /\ instance = 0 /\ thr[t].pc = "beginRead"
        /\ Goto(t, "beginStart", 0)
     \/ /\ instance = 0 /\ thr[t].pc # "beginRead"
        /\ thr' = [thr EXCEPT ![t] = Idle]
  /\ events' = IF thr[t].pc = "beginRead" /\ instance \notin {0, ams}
            THEN events \cup {"dying"} ELSE events
  /\ UNCHANGED <<registry, service, mainQ, system, ledger>>

\* running.requestRender()
PostRender(t) ==
  /\ thr[t].pc = "post"
  /\ mainQ' = Append(mainQ, Msg("render", thr[t].inst, NoMode))
  /\ thr' = [thr EXCEPT ![t] = Idle]
  /\ UNCHANGED <<registry, service, system, ledger, events>>

\* begin on a background thread found no service: start one, or be refused.
BeginStart(t) ==
  /\ thr[t].pc = "beginStart"
  /\ thr' = [thr EXCEPT ![t] = Idle]
  /\ \/ SystemStart(NoMode) /\ UNCHANGED events
     \/ /\ MayRefuse
        /\ events' = events \cup {"refused"}
        /\ UNCHANGED <<ams, created, binderQ, promise>>
  /\ UNCHANGED <<registry, service, mainQ, fg, shown, ledger>>

\* The thread returns without another call (a hook that only sets a cancel
\* flag, a stop that failed, a worker whose mode stays on).
Return(t) ==
  /\ thr[t].pc = "ready"
  /\ thr' = [thr EXCEPT ![t] = Idle]
  /\ UNCHANGED <<registry, service, mainQ, system, ledger, events>>
-----------------------------------------------------------------------------
Ui(t) == \E m \in Modes : UiBegin(m, t) \/ UiStop(m, t) \/ UiRequestStop(m, t)

MainThread == OnCreate \/ OnStart \/ OnRender \/ OnDestroy
              \/ \E t \in Threads : OnStartStop(t)

Background(t) == \/ EndLocked(t) \/ BeginLocked(t) \/ ProgressLocked(t)
                 \/ ReadInstance(t) \/ PostRender(t) \/ BeginStart(t)
                 \/ Return(t)

Next == \/ \E t \in Threads : Ui(t) \/ Background(t)
        \/ \E m \in Modes : TapStop(m)
        \/ Deliver
        \/ MainThread

\* The main thread's looper, the system's messages and the background threads
\* always make progress; the user need not do anything.
Fairness == /\ WF_vars(Deliver)
            /\ WF_vars(MainThread)
            /\ \A t \in Threads : WF_vars(Background(t))

Spec == Init /\ [][Next]_vars
FairSpec == Spec /\ Fairness
-----------------------------------------------------------------------------
(***************************************************************************)
(* Properties.                                                             *)
(***************************************************************************)

\* A mode is listed once, and `stopping` is a flag of a registered mode.
RegistryOK ==
  /\ states \in Seq(Modes) /\ results \subseteq Modes
  /\ \A j, k \in 1..Len(states) : states[j] = states[k] => j = k
  /\ stopping \subseteq Registered

ServiceOK ==
  /\ instance \in Instances \cup {0}
  /\ posted \in [Instances -> SUBSET Modes]
  /\ entered \in [Instances -> BOOLEAN]

SystemOK ==
  /\ mainQ \in Seq(Message) /\ binderQ \in Seq(Message)
  /\ ams \in Instances \cup {0} /\ created \in Instances \cup {0}
  /\ fg \in Modes \cup {NoMode} /\ promise \in BOOLEAN /\ shown \subseteq Modes

\* A busy thread works for a mode; one that is about to post has an object.
ThreadsOK ==
  /\ thr \in [Threads -> Thread]
  /\ \A t \in Threads : /\ thr[t].pc # "idle" => thr[t].mode \in Modes
                        /\ thr[t].pc = "post" => thr[t].inst # 0

LedgerOK ==
  /\ begins \in [Modes -> Nat] /\ hooks \in [Modes -> Nat]
  /\ history \in [Modes -> Nat]
  /\ events \subseteq {"refused", "thrown", "dying", "broken"}

\* The state has the shape the code gives it.
TypeOK == RegistryOK /\ ServiceOK /\ SystemOK /\ ThreadsOK /\ LedgerOK

\* A mode that is being shown as running has no result of an earlier run: a
\* reopened screen never shows "done" for a mode that is running
\* (ModeStatusView reads snapshot() and lastResult() in two locked sections).
NoStaleResult == Registered \cap results = {}

\* However many threads end a mode (the worker, the stop thread of the screen
\* and the stop hook may all do it), its outcome is recorded once for each
\* time it was started: end() records only what it removed.
OutcomeRecordedOnce == \A m \in Modes : history[m] <= begins[m]

\* The stop hook of a mode is started at most once for each begin, from
\* whichever of the notification and the status page the user stops it.
HookStartedOnce == \A m \in Modes : hooks[m] <= begins[m]

\* Nothing is in flight: no message, and no thread inside a call.
Quiet == mainQ = <<>> /\ binderQ = <<>> /\ \A t \in Threads : thr[t].pc \in {"idle", "ready"}

\* Once everything has been delivered a registered mode has a service, unless
\* Android refused to start one or the mode was registered while the service
\* was already going down (see KeepsAlive).
ServedUnlessDying == Quiet /\ states # <<>> => ams # 0 \/ events \cap {"refused", "dying"} # {}

\* "keeps the app process alive while a mode runs" (ModeService.java:54): once
\* everything has been delivered, a registered mode has a service unless
\* Android refused to start one.
KeepsAlive == Quiet /\ states # <<>> => ams # 0 \/ "refused" \in events

\* While the service lives, every registered mode has its notification once
\* the posted renders have run (a screen's Stop is not the only way out).
EveryModeShown == Quiet /\ ams # 0 /\ instance = ams => Registered \subseteq shown

\* "A service started with startForegroundService() must call startForeground()
\* once, even if there is nothing left to show" (ModeService.java:551), or
\* Android kills the process: only if startForeground itself threw.
PromiseKept == "broken" \in events => "thrown" \in events

\* A mode that runs has the foreground service it needs, as long as Android
\* lets it, and the service keeps what it owes Android for that.
ForegroundKept == ServedUnlessDying /\ PromiseKept

\* When the last mode has ended and nothing starts again, the service goes
\* away: the process is not kept in the foreground for nothing.
ServiceStops == (states = <<>>) ~> (ams = 0 \/ states # <<>>)
=============================================================================
