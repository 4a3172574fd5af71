------------------------- MODULE ModeServiceProofs -------------------------
(***************************************************************************)
(* Theorems about ModeService, for every set of modes and threads and for  *)
(* every bound: what end records, what requestStop starts, and the service *)
(* a registered mode has.                                                  *)
(***************************************************************************)
EXTENDS ModeService, TLAPS

-----------------------------------------------------------------------------
(***************************************************************************)
(* What the locked sections do to the registry.                            *)
(***************************************************************************)

NoDuplicate(s) == \A j, k \in 1..Len(s) : s[j] = s[k] => j = k

\* begin adds the mode to the registered ones, once.
LEMMA RegisterAdds ==
  ASSUME NEW m \in Modes, states \in Seq(Modes), NoDuplicate(states), Register(m)
  PROVE  /\ states' \in Seq(Modes)
         /\ NoDuplicate(states')
         /\ Registered' = Registered \cup {m}
<1>1. CASE m \in Registered
  <2>1. states' = states
    BY <1>1 DEF Register
  <2> QED
    BY <2>1, <1>1 DEF Registered, NoDuplicate
<1>2. CASE m \notin Registered
  <2>1. states' = Append(states, m)
    BY <1>2 DEF Register
  <2>2. /\ Len(states') = Len(states) + 1
        /\ \A k \in 1..Len(states) : states'[k] = states[k]
        /\ states'[Len(states) + 1] = m
        /\ states' \in Seq(Modes)
        /\ Len(states) \in Nat
    BY <2>1
  <2>3. NoDuplicate(states')
    BY <2>2, <1>2 DEF NoDuplicate, Registered
  <2>4. Registered' = Registered \cup {m}
    BY <2>2 DEF Registered
  <2> QED
    BY <2>2, <2>3, <2>4
<1> QED
  BY <1>1, <1>2

\* end removes the mode and leaves the others in their order.
LEMMA UnregisterRemoves ==
  ASSUME NEW m \in Modes, states \in Seq(Modes), NoDuplicate(states), Unregister(m)
  PROVE  /\ states' \in Seq(Modes)
         /\ NoDuplicate(states')
         /\ Registered' = Registered \ {m}
<1>1. CASE m \notin Registered
  <2>1. states' = states
    BY <1>1 DEF Unregister, Registered
  <2> QED
    BY <2>1, <1>1 DEF Registered, NoDuplicate
<1>2. CASE m \in Registered
  <2>1. PICK k \in 1..Len(states) :
             /\ states[k] = m
             /\ states' = [j \in 1..(Len(states) - 1) |->
                             IF j < k THEN states[j] ELSE states[j + 1]]
    BY <1>2 DEF Unregister
  <2>2. Len(states) \in Nat /\ k \in 1..Len(states)
    OBVIOUS
  <2>3. /\ states' \in Seq(Modes)
        /\ Len(states') = Len(states) - 1
    BY <2>1, <2>2
  <2>4. \A j \in 1..Len(states') :
           states'[j] = IF j < k THEN states[j] ELSE states[j + 1]
    BY <2>1, <2>3
  <2>5. NoDuplicate(states')
    BY <2>2, <2>3, <2>4 DEF NoDuplicate
  <2>6. ASSUME NEW x \in Registered', x = m PROVE FALSE
    <3>1. PICK j \in 1..Len(states') : states'[j] = x
      BY <2>6 DEF Registered
    <3> QED
      BY <3>1, <2>1, <2>2, <2>3, <2>4, <2>6 DEF NoDuplicate
  <2>7. Registered' \subseteq Registered
    BY <2>2, <2>3, <2>4 DEF Registered
  <2>8. ASSUME NEW x \in Registered, x # m PROVE x \in Registered'
    <3>1. PICK j \in 1..Len(states) : states[j] = x
      BY DEF Registered
    <3>2. CASE j < k
      BY <3>1, <3>2, <2>2, <2>3, <2>4 DEF Registered
    <3>3. CASE j > k
      <4>1. j - 1 \in 1..Len(states') /\ states'[j - 1] = x
        BY <3>1, <3>3, <2>2, <2>3, <2>4
      <4> QED
        BY <4>1 DEF Registered
    <3> QED
      BY <3>1, <3>2, <3>3, <2>1, <2>2, <2>8
  <2> QED
    BY <2>3, <2>5, <2>6, <2>7, <2>8
<1> QED
  BY <1>1, <1>2
-----------------------------------------------------------------------------
(***************************************************************************)
(* Type correctness, part by part.                                         *)
(***************************************************************************)

\* The parts of the type invariant hold initially.
LEMMA TypeInit == Init => TypeOK
<1> SUFFICES ASSUME Init PROVE TypeOK
  OBVIOUS
<1>1. RegistryOK
  BY DEF Init, RegistryOK, Registered
<1>a. ServiceOK
  BY DEF Init, ServiceOK
<1>b. SystemOK
  <2>1. mainQ \in Seq(Message) /\ binderQ \in Seq(Message)
    BY DEF Init
  <2> QED
    BY <2>1 DEF Init, SystemOK
<1>2. ThreadsOK /\ LedgerOK
  BY DEF Init, ThreadsOK, LedgerOK, Thread, Idle, At
<1> QED
  BY <1>1, <1>2, <1>a, <1>b DEF TypeOK

\* A message of the code is a Message.
LEMMA MsgType ==
  ASSUME NEW type \in {"create", "start", "destroy", "render"},
         NEW i \in Instances, NEW m \in Modes \cup {NoMode}
  PROVE  Msg(type, i, m) \in Message
BY DEF Msg, Message

\* The activity manager's reaction to a start keeps its part well typed.
LEMMA SystemStartType ==
  ASSUME SystemOK, NEW m \in Modes \cup {NoMode}, SystemStart(m),
         UNCHANGED <<mainQ, fg, shown>>
  PROVE  SystemOK'
<1> DEFINE i == IF ams = 0 THEN created + 1 ELSE ams
<1>1. i \in Instances
  BY DEF SystemStart, SystemOK, Instances
<1>2. Msg("create", i, NoMode) \in Message /\ Msg("start", i, m) \in Message
  BY <1>1, MsgType
<1>3. binderQ' \in Seq(Message)
  <2> DEFINE birth == IF ams = 0 THEN <<Msg("create", i, NoMode)>> ELSE <<>>
             start == <<Msg("start", i, m)>>
  <2>1. binderQ' = (binderQ \o birth) \o start
    BY DEF SystemStart
  <2>2. birth \in Seq(Message) /\ start \in Seq(Message)
    BY <1>2
  <2>3. binderQ \in Seq(Message)
    BY DEF SystemOK
  <2> HIDE DEF birth, start
  <2> QED
    BY <2>1, <2>2, <2>3
<1>4. ams' \in Instances /\ created' \in Instances \cup {0} /\ promise' \in BOOLEAN
  BY <1>1 DEF SystemStart, SystemOK
<1> QED
  BY <1>3, <1>4 DEF SystemOK

\* A render keeps the service's and the system's part well typed.
LEMMA RenderType ==
  ASSUME RegistryOK, ServiceOK, SystemOK, LedgerOK, NEW i \in Instances, Render(i),
         UNCHANGED <<instance, created>>, mainQ' \in Seq(Message)
  PROVE  /\ ServiceOK' /\ SystemOK'
         /\ events' \subseteq {"refused", "thrown", "dying", "broken"}
<1>1. Registered \subseteq Modes /\ (states # <<>> => Head(states) \in Modes)
  BY DEF RegistryOK, Registered
<1>2. CASE states = <<>>
  <2>1. RenderIdle(i)
    BY <1>2 DEF Render
  <2>2. Msg("destroy", i, NoMode) \in Message
    BY MsgType
  <2>3. binderQ' \in Seq(Message)
    <3>1. binderQ \in Seq(Message)
      BY DEF SystemOK
    <3>2. binderQ' \in {binderQ, Append(binderQ, Msg("destroy", i, NoMode))}
      BY <2>1 DEF RenderIdle
    <3> QED
      BY <3>1, <3>2, <2>2
  <2>4. /\ ServiceOK'
        /\ events' \subseteq {"refused", "thrown", "dying", "broken"}
    BY <2>1 DEF RenderIdle, ServiceOK, LedgerOK
  <2>5. /\ ams' \in Instances \cup {0} /\ fg' \in Modes \cup {NoMode}
        /\ promise' \in BOOLEAN /\ shown' \subseteq Modes
    BY <2>1 DEF RenderIdle, SystemOK, Cancel
  <2> QED
    BY <2>3, <2>4, <2>5 DEF SystemOK
<1>3. CASE states # <<>>
  <2>1. RenderModes(i)
    BY <1>3 DEF Render
  <2>2. /\ ServiceOK'
        /\ events' \subseteq {"refused", "thrown", "dying", "broken"}
    BY <2>1, <1>1 DEF RenderModes, ServiceOK, LedgerOK
  <2>3. SystemOK'
    BY <2>1, <1>1, <1>3 DEF RenderModes, SystemOK, Cancel
  <2> QED
    BY <2>2, <2>3
<1> QED
  BY <1>2, <1>3

\* A thread that is started works for its mode.
LEMMA SpawnType ==
  ASSUME ThreadsOK, NEW t \in Threads, NEW m \in Modes, NEW b \in BOOLEAN, Spawn(t, m, b)
  PROVE  ThreadsOK'
BY DEF ThreadsOK, Spawn, At, Thread

\* A thread that goes on to its next point works for the same mode.
LEMMA GotoType ==
  ASSUME ThreadsOK, NEW t \in Threads, thr[t].pc # "idle",
         NEW pc \in {"beginRead", "beginStart", "endRead", "progressRead", "post"},
         NEW i \in Instances \cup {0}, pc = "post" => i # 0, Goto(t, pc, i)
  PROVE  ThreadsOK'
BY DEF ThreadsOK, Goto, At, Thread

\* A thread may always become idle.
LEMMA IdleType ==
  ASSUME ThreadsOK, NEW t \in Threads, thr' = [thr EXCEPT ![t] = Idle]
  PROVE  ThreadsOK'
BY DEF ThreadsOK, Idle, At, Thread

\* A render posted to an object is a message of the queue.
LEMMA PostType ==
  ASSUME SystemOK, NEW i \in Instances, mainQ' = Append(mainQ, Msg("render", i, NoMode))
  PROVE  mainQ' \in Seq(Message)
<1>1. Msg("render", i, NoMode) \in Message
  BY MsgType
<1> QED
  BY <1>1 DEF SystemOK

\* The registry's part after begin and after end.
LEMMA RegisterType ==
  ASSUME RegistryOK, NEW m \in Modes, Register(m)
  PROVE  RegistryOK'
<1>1. states \in Seq(Modes) /\ NoDuplicate(states)
  BY DEF RegistryOK, NoDuplicate
<1>2. /\ states' \in Seq(Modes) /\ NoDuplicate(states')
      /\ Registered' = Registered \cup {m}
  BY <1>1, RegisterAdds
<1> QED
  BY <1>2 DEF RegistryOK, NoDuplicate, Register

LEMMA UnregisterType ==
  ASSUME RegistryOK, NEW m \in Modes, Unregister(m)
  PROVE  RegistryOK'
<1>1. states \in Seq(Modes) /\ NoDuplicate(states)
  BY DEF RegistryOK, NoDuplicate
<1>2. /\ states' \in Seq(Modes) /\ NoDuplicate(states')
      /\ Registered' = Registered \ {m}
  BY <1>1, UnregisterRemoves
<1> QED
  BY <1>2 DEF RegistryOK, NoDuplicate, Unregister

\* Every step keeps every part: one case for each action.
LEMMA TypeStep == TypeOK /\ [Next]_vars => TypeOK'
<1> SUFFICES ASSUME TypeOK, [Next]_vars PROVE TypeOK'
  OBVIOUS
<1>a. RegistryOK /\ ServiceOK /\ SystemOK /\ ThreadsOK /\ LedgerOK
  BY DEF TypeOK
<1>1. ASSUME NEW t \in Threads, NEW m \in Modes, UiBegin(m, t) PROVE TypeOK'
  <2>1. RegistryOK'
    BY <1>1, <1>a, RegisterType DEF UiBegin
  <2>2. ServiceOK'
    BY <1>1, <1>a DEF UiBegin, ServiceOK, service
  <2>3. SystemOK'
    <3>1. CASE instance # 0 /\ UNCHANGED <<ams, created, binderQ, promise>>
      <4>1. mainQ' = Append(mainQ, Msg("render", instance, NoMode))
        BY <1>1, <3>1 DEF UiBegin
      <4>2. mainQ' \in Seq(Message)
        BY <4>1, <3>1, <1>a, PostType DEF ServiceOK
      <4> QED
        BY <1>1, <3>1, <4>2, <1>a DEF UiBegin, SystemOK
    <3>2. CASE instance = 0 /\ SystemStart(NoMode) /\ UNCHANGED <<mainQ, events>>
      BY <1>1, <3>2, <1>a, SystemStartType DEF UiBegin
    <3>3. CASE UNCHANGED <<mainQ, ams, created, binderQ, promise>>
      BY <1>1, <3>3, <1>a DEF UiBegin, SystemOK
    <3> QED
      BY <1>1, <3>1, <3>2, <3>3 DEF UiBegin
  <2>4. ThreadsOK'
    BY <1>1, <1>a, SpawnType DEF UiBegin
  <2>5. LedgerOK'
    <3>1. begins' \in [Modes -> Nat] /\ UNCHANGED <<hooks, history>>
      BY <1>1, <1>a DEF UiBegin, Register, LedgerOK
    <3>2. events' \in {events, events \cup {"dying"}, events \cup {"refused"}}
      BY <1>1 DEF UiBegin
    <3>3. events' \subseteq {"refused", "thrown", "dying", "broken"}
      BY <3>2, <1>a DEF LedgerOK
    <3> QED
      BY <3>1, <3>3, <1>a DEF LedgerOK
  <2> QED
    BY <2>1, <2>2, <2>3, <2>4, <2>5 DEF TypeOK
<1>2. ASSUME NEW t \in Threads, NEW m \in Modes, UiStop(m, t) PROVE TypeOK'
  <2>1. ThreadsOK'
    BY <1>2, <1>a, SpawnType DEF UiStop
  <2>2. UNCHANGED <<registry, service, mainQ, system, ledger, events>>
    BY <1>2 DEF UiStop
  <2> QED
    BY <2>1, <2>2, <1>a DEF TypeOK, RegistryOK, Registered, ServiceOK, SystemOK, LedgerOK,
                            registry, service, system, ledger
<1>3. ASSUME NEW t \in Threads, NEW m \in Modes, UiRequestStop(m, t) PROVE TypeOK'
  <2>1. RegistryOK'
    BY <1>3, <1>a DEF UiRequestStop, RunHook, MayStop, RegistryOK, Registered
  <2>2. mainQ' \in Seq(Message)
    <3>1. CASE instance = 0
      BY <1>3, <3>1, <1>a DEF UiRequestStop, SystemOK
    <3>2. CASE instance # 0
      <4>1. instance \in Instances /\ mainQ' = Append(mainQ, Msg("render", instance, NoMode))
        BY <1>3, <3>2, <1>a DEF UiRequestStop, ServiceOK
      <4> QED
        BY <4>1, <1>a, PostType
    <3> QED
      BY <3>1, <3>2
  <2>3. ServiceOK' /\ SystemOK' /\ LedgerOK'
    BY <1>3, <2>2, <1>a DEF UiRequestStop, RunHook, ServiceOK, SystemOK, LedgerOK,
                            service, system
  <2>4. ThreadsOK'
    BY <1>3, <1>a, SpawnType DEF UiRequestStop, RunHook
  <2> QED
    BY <2>1, <2>3, <2>4 DEF TypeOK
<1>4. ASSUME NEW t \in Threads, EndLocked(t) PROVE TypeOK'
  <2>1. thr[t].mode \in Modes /\ thr[t].pc # "idle"
    BY <1>4, <1>a DEF EndLocked, ThreadsOK
  <2>2. RegistryOK'
    BY <1>4, <2>1, <1>a, UnregisterType DEF EndLocked
  <2>3. ThreadsOK'
    BY <1>4, <2>1, <1>a, GotoType DEF EndLocked
  <2>4. ServiceOK' /\ SystemOK'
    BY <1>4, <1>a DEF EndLocked, ServiceOK, SystemOK, service, system
  <2>5. LedgerOK'
    BY <1>4, <2>1, <1>a DEF EndLocked, Unregister, LedgerOK
  <2> QED
    BY <2>2, <2>3, <2>4, <2>5 DEF TypeOK
<1>5. ASSUME NEW t \in Threads, BeginLocked(t) PROVE TypeOK'
  <2>1. thr[t].mode \in Modes /\ thr[t].pc # "idle"
    BY <1>5, <1>a DEF BeginLocked, ThreadsOK
  <2>2. RegistryOK'
    BY <1>5, <2>1, <1>a, RegisterType DEF BeginLocked
  <2>3. ThreadsOK'
    BY <1>5, <2>1, <1>a, GotoType DEF BeginLocked
  <2>4. ServiceOK' /\ SystemOK'
    BY <1>5, <1>a DEF BeginLocked, ServiceOK, SystemOK, service, system
  <2>5. LedgerOK'
    BY <1>5, <2>1, <1>a DEF BeginLocked, Register, LedgerOK
  <2> QED
    BY <2>2, <2>3, <2>4, <2>5 DEF TypeOK
<1>6. ASSUME NEW t \in Threads,
             ProgressLocked(t) \/ ReadInstance(t) \/ PostRender(t)
               \/ BeginStart(t) \/ Return(t)
      PROVE  TypeOK'
  <2>1. UNCHANGED <<registry, service, ledger>>
    BY <1>6 DEF ProgressLocked, ReadInstance, PostRender, BeginStart, Return
  <2>2. RegistryOK' /\ ServiceOK'
    BY <2>1, <1>a DEF RegistryOK, Registered, ServiceOK, registry, service
  <2>3. LedgerOK'
    BY <1>6, <2>1, <1>a DEF LedgerOK, ledger, ProgressLocked, ReadInstance, PostRender,
                            BeginStart, Return
  <2>4. ThreadsOK'
    <3>1. CASE ProgressLocked(t)
      BY <3>1, <1>a, GotoType DEF ProgressLocked
    <3>2. CASE ReadInstance(t)
      BY <3>2, <1>a, GotoType, IdleType DEF ReadInstance, ServiceOK
    <3>3. CASE PostRender(t) \/ BeginStart(t) \/ Return(t)
      BY <3>3, <1>a, IdleType DEF PostRender, BeginStart, Return
    <3> QED
      BY <1>6, <3>1, <3>2, <3>3
  <2>6. thr[t].pc = "post" => thr[t].inst \in Instances
    BY <1>a DEF ThreadsOK, Thread
  <2>5. SystemOK'
    <3>1. CASE ProgressLocked(t) \/ ReadInstance(t) \/ Return(t)
      BY <3>1, <1>a DEF ProgressLocked, ReadInstance, Return, SystemOK, system
    <3>2. CASE PostRender(t)
      <4>1. mainQ' \in Seq(Message)
        BY <3>2, <2>6, <1>a, PostType DEF PostRender
      <4> QED
        BY <3>2, <4>1, <1>a DEF PostRender, SystemOK, system
    <3>3. CASE BeginStart(t)
      <4>1. CASE SystemStart(NoMode)
        BY <3>3, <4>1, <1>a, SystemStartType DEF BeginStart
      <4>2. CASE UNCHANGED <<ams, created, binderQ, promise>>
        BY <3>3, <4>2, <1>a DEF BeginStart, SystemOK
      <4> QED
        BY <3>3, <4>1, <4>2 DEF BeginStart
    <3> QED
      BY <1>6, <3>1, <3>2, <3>3
  <2> QED
    BY <2>2, <2>3, <2>4, <2>5 DEF TypeOK
<1>7. ASSUME NEW m \in Modes, TapStop(m) PROVE TypeOK'
  <2>1. SystemOK'
    BY <1>7, <1>a, SystemStartType DEF TapStop
  <2> QED
    BY <1>7, <2>1, <1>a DEF TapStop, TypeOK, RegistryOK, Registered, ServiceOK, ThreadsOK,
                            LedgerOK, registry, service, ledger
<1>8. CASE Deliver
  <2>1. Head(binderQ) \in Message /\ Tail(binderQ) \in Seq(Message)
    BY <1>8, <1>a DEF Deliver, SystemOK
  <2>2. SystemOK'
    BY <1>8, <2>1, <1>a DEF Deliver, SystemOK
  <2> QED
    BY <1>8, <2>2, <1>a DEF Deliver, TypeOK, RegistryOK, Registered, ServiceOK, ThreadsOK,
                            LedgerOK, registry, service, ledger
<1>9. CASE MainThread
  <2>1. ASSUME mainQ # <<>>
        PROVE  Head(mainQ) \in Message /\ Tail(mainQ) \in Seq(Message)
    BY <2>1, <1>a DEF SystemOK
  <2>2. CASE OnCreate \/ OnDestroy
    <3>1. mainQ' \in Seq(Message) /\ instance' \in Instances \cup {0}
      BY <2>1, <2>2 DEF OnCreate, OnDestroy, Take, Message
    <3>2. UNCHANGED <<registry, posted, entered, system, thr, ledger, events>>
      BY <2>2 DEF OnCreate, OnDestroy
    <3>3. ServiceOK' /\ SystemOK'
      BY <3>1, <3>2, <1>a DEF ServiceOK, SystemOK, system
    <3>4. RegistryOK' /\ ThreadsOK' /\ LedgerOK'
      BY <3>2, <1>a DEF RegistryOK, Registered, ThreadsOK, LedgerOK, registry, ledger
    <3> QED
      BY <3>3, <3>4 DEF TypeOK
  <2>3. CASE OnStart \/ OnRender
    <3>1. mainQ' \in Seq(Message) /\ Head(mainQ).inst \in Instances
      BY <2>1, <2>3 DEF OnStart, OnRender, Take, Message
    <3>2. /\ ServiceOK' /\ SystemOK'
          /\ events' \subseteq {"refused", "thrown", "dying", "broken"}
      BY <2>3, <3>1, <1>a, RenderType DEF OnStart, OnRender
    <3> QED
      BY <2>3, <3>2, <1>a DEF OnStart, OnRender, TypeOK, RegistryOK, Registered, ThreadsOK,
                              LedgerOK, registry, ledger
  <2>4. ASSUME NEW t \in Threads, OnStartStop(t) PROVE TypeOK'
    <3>1. /\ Head(mainQ) \in Message /\ Tail(mainQ) \in Seq(Message)
          /\ Head(mainQ).mode \in Registered
      BY <2>1, <2>4 DEF OnStartStop, MayStop
    <3>2. Head(mainQ).mode \in Modes /\ Head(mainQ).inst \in Instances
      BY <3>1, <1>a DEF RegistryOK, Registered, Message
    <3>3. mainQ' \in Seq(Message)
      <4>1. CASE instance = 0
        BY <2>4, <3>1, <4>1 DEF OnStartStop
      <4>2. CASE instance # 0
        <5>1. Msg("render", instance, NoMode) \in Message
          BY <4>2, <1>a, MsgType DEF ServiceOK
        <5> QED
          BY <2>4, <3>1, <4>2, <5>1 DEF OnStartStop
      <4> QED
        BY <4>1, <4>2
    <3>4. /\ ServiceOK' /\ SystemOK'
          /\ events' \subseteq {"refused", "thrown", "dying", "broken"}
      BY <2>4, <3>2, <3>3, <1>a, RenderType DEF OnStartStop
    <3>5. RegistryOK'
      BY <2>4, <3>1, <1>a DEF OnStartStop, RunHook, RegistryOK, Registered
    <3>6. ThreadsOK'
      BY <2>4, <3>2, <1>a, SpawnType DEF OnStartStop, RunHook
    <3>7. LedgerOK'
      BY <2>4, <3>2, <3>4, <1>a DEF OnStartStop, RunHook, LedgerOK
    <3> QED
      BY <3>4, <3>5, <3>6, <3>7 DEF TypeOK
  <2> QED
    BY <1>9, <2>2, <2>3, <2>4 DEF MainThread
<1>10. CASE UNCHANGED vars
  <2>1. RegistryOK' /\ ServiceOK' /\ SystemOK'
    BY <1>10, <1>a DEF vars, RegistryOK, Registered, ServiceOK, SystemOK
  <2>2. ThreadsOK' /\ LedgerOK'
    BY <1>10, <1>a DEF vars, ThreadsOK, LedgerOK
  <2> QED
    BY <2>1, <2>2 DEF TypeOK
<1> QED
  BY <1>1, <1>2, <1>3, <1>4, <1>5, <1>6, <1>7, <1>8, <1>9, <1>10 DEF Next, Ui, Background

\* The state of the registry, the service and the system is well formed in
\* every reachable state.
THEOREM TypeCorrect == Spec => []TypeOK
<1>1. Init => TypeOK
  BY TypeInit
<1>2. TypeOK /\ [Next]_vars => TypeOK'
  BY TypeStep
<1> QED
  BY <1>1, <1>2, PTL DEF Spec
-----------------------------------------------------------------------------
(***************************************************************************)
(* The ledger.  OutcomeRecordedOnce and HookStartedOnce are not inductive: *)
(* LedgerInv says that every outcome and every hook is paid for by a begin *)
(* of its own.  A registered mode has one begin more than outcomes, and a  *)
(* mode that may still be stopped one begin more than hooks.               *)
(***************************************************************************)
LedgerInv ==
  \A m \in Modes :
    /\ m \in Registered => history[m] < begins[m]
    /\ MayStop(m) => hooks[m] < begins[m]
    /\ history[m] <= begins[m]
    /\ hooks[m] <= begins[m]

\* begin pays for one more outcome and one more hook.
LEMMA RegisterLedger ==
  ASSUME TypeOK, LedgerInv, NEW m \in Modes, Register(m), UNCHANGED <<hooks, history>>
  PROVE  LedgerInv'
<1>1. /\ begins' = [begins EXCEPT ![m] = @ + 1]
      /\ begins \in [Modes -> Nat] /\ hooks \in [Modes -> Nat] /\ history \in [Modes -> Nat]
  BY DEF Register, TypeOK, LedgerOK
<1>2. states \in Seq(Modes) /\ NoDuplicate(states)
  BY DEF TypeOK, RegistryOK, NoDuplicate
<1>3. Registered' = Registered \cup {m} /\ stopping' = stopping \ {m}
  BY <1>2, RegisterAdds DEF Register
<1> SUFFICES ASSUME NEW x \in Modes
             PROVE  /\ x \in Registered' => history'[x] < begins'[x]
                    /\ x \in Registered' /\ x \notin stopping' => hooks'[x] < begins'[x]
                    /\ history'[x] <= begins'[x]
                    /\ hooks'[x] <= begins'[x]
  BY DEF LedgerInv, MayStop
<1>4. /\ begins[x] \in Nat /\ hooks[x] \in Nat /\ history[x] \in Nat
      /\ hooks'[x] = hooks[x] /\ history'[x] = history[x]
      /\ begins'[x] = IF x = m THEN begins[x] + 1 ELSE begins[x]
  BY <1>1
<1>5. CASE x = m
  BY <1>4, <1>5 DEF LedgerInv
<1>6. CASE x # m
  BY <1>3, <1>4, <1>6 DEF LedgerInv, MayStop
<1> QED
  BY <1>5, <1>6

\* end spends at most the outcome of the mode it removes.
LEMMA UnregisterLedger ==
  ASSUME TypeOK, LedgerInv, NEW m \in Modes, Unregister(m), UNCHANGED <<begins, hooks>>
  PROVE  LedgerInv'
<1>1. states \in Seq(Modes) /\ NoDuplicate(states)
  BY DEF TypeOK, RegistryOK, NoDuplicate
<1>2. Registered' = Registered \ {m} /\ stopping' = stopping \ {m}
  BY <1>1, UnregisterRemoves DEF Unregister
<1>3. /\ history' = history \/ (m \in Registered /\ history' = [history EXCEPT ![m] = @ + 1])
      /\ begins \in [Modes -> Nat] /\ hooks \in [Modes -> Nat] /\ history \in [Modes -> Nat]
  BY DEF Unregister, Registered, TypeOK, LedgerOK
<1> SUFFICES ASSUME NEW x \in Modes
             PROVE  /\ x \in Registered' => history'[x] < begins'[x]
                    /\ x \in Registered' /\ x \notin stopping' => hooks'[x] < begins'[x]
                    /\ history'[x] <= begins'[x]
                    /\ hooks'[x] <= begins'[x]
  BY DEF LedgerInv, MayStop
<1>4. /\ begins[x] \in Nat /\ hooks[x] \in Nat /\ history[x] \in Nat
      /\ begins'[x] = begins[x] /\ hooks'[x] = hooks[x]
  BY <1>3
<1>5. CASE x = m
  <2>1. history'[x] = history[x] \/ (x \in Registered /\ history'[x] = history[x] + 1)
    BY <1>3, <1>5
  <2> QED
    BY <1>2, <1>4, <1>5, <2>1 DEF LedgerInv
<1>6. CASE x # m
  <2>1. history'[x] = history[x]
    BY <1>3, <1>6
  <2> QED
    BY <1>2, <1>4, <1>6, <2>1 DEF LedgerInv, MayStop
<1> QED
  BY <1>5, <1>6

\* requestStop spends the hook of a mode that may be stopped.
LEMMA RunHookLedger ==
  ASSUME TypeOK, LedgerInv, NEW m \in Modes, NEW t \in Threads, MayStop(m), RunHook(m, t),
         UNCHANGED <<states, begins, history>>
  PROVE  LedgerInv'
<1>1. /\ hooks' = [hooks EXCEPT ![m] = @ + 1] /\ stopping' = stopping \cup {m}
      /\ Registered' = Registered
      /\ begins \in [Modes -> Nat] /\ hooks \in [Modes -> Nat] /\ history \in [Modes -> Nat]
  BY DEF RunHook, Registered, TypeOK, LedgerOK
<1> SUFFICES ASSUME NEW x \in Modes
             PROVE  /\ x \in Registered' => history'[x] < begins'[x]
                    /\ x \in Registered' /\ x \notin stopping' => hooks'[x] < begins'[x]
                    /\ history'[x] <= begins'[x]
                    /\ hooks'[x] <= begins'[x]
  BY DEF LedgerInv, MayStop
<1>2. /\ begins[x] \in Nat /\ hooks[x] \in Nat /\ history[x] \in Nat
      /\ begins'[x] = begins[x] /\ history'[x] = history[x]
      /\ hooks'[x] = IF x = m THEN hooks[x] + 1 ELSE hooks[x]
  BY <1>1
<1>3. CASE x = m
  BY <1>1, <1>2, <1>3 DEF LedgerInv
<1>4. CASE x # m
  BY <1>1, <1>2, <1>4 DEF LedgerInv, MayStop
<1> QED
  BY <1>3, <1>4

\* No other step touches the registry or the ledger.
LEMMA LedgerStep == TypeOK /\ LedgerInv /\ [Next]_vars => LedgerInv'
<1> SUFFICES ASSUME TypeOK, LedgerInv, [Next]_vars PROVE LedgerInv'
  OBVIOUS
<1>a. ThreadsOK /\ RegistryOK
  BY DEF TypeOK
<1>1. ASSUME NEW t \in Threads, NEW m \in Modes, UiBegin(m, t) PROVE LedgerInv'
  BY <1>1, RegisterLedger DEF UiBegin
<1>2. ASSUME NEW t \in Threads, NEW m \in Modes, UiRequestStop(m, t) PROVE LedgerInv'
  BY <1>2, RunHookLedger DEF UiRequestStop
<1>3. ASSUME NEW t \in Threads, EndLocked(t) PROVE LedgerInv'
  <2>1. thr[t].mode \in Modes
    BY <1>3, <1>a DEF EndLocked, ThreadsOK
  <2> QED
    BY <1>3, <2>1, UnregisterLedger DEF EndLocked
<1>4. ASSUME NEW t \in Threads, BeginLocked(t) PROVE LedgerInv'
  <2>1. thr[t].mode \in Modes
    BY <1>4, <1>a DEF BeginLocked, ThreadsOK
  <2> QED
    BY <1>4, <2>1, RegisterLedger DEF BeginLocked
<1>5. ASSUME NEW t \in Threads, OnStartStop(t) PROVE LedgerInv'
  <2>1. Head(mainQ).mode \in Modes
    BY <1>5, <1>a DEF OnStartStop, MayStop, RegistryOK, Registered
  <2> QED
    BY <1>5, <2>1, RunHookLedger DEF OnStartStop
<1>6. ASSUME UNCHANGED <<registry, ledger>> PROVE LedgerInv'
  BY <1>6 DEF LedgerInv, MayStop, Registered, registry, ledger
<1>7. ASSUME NEW t \in Threads,
             \/ ProgressLocked(t) \/ ReadInstance(t) \/ PostRender(t)
             \/ BeginStart(t) \/ Return(t)
             \/ \E m \in Modes : UiStop(m, t)
      PROVE  LedgerInv'
  <2>1. UNCHANGED <<registry, ledger>>
    BY <1>7 DEF ProgressLocked, ReadInstance, PostRender, BeginStart, Return, UiStop
  <2> QED
    BY <2>1, <1>6
<1>8. CASE Deliver \/ OnCreate \/ OnStart \/ OnRender \/ OnDestroy
             \/ (\E m \in Modes : TapStop(m)) \/ UNCHANGED vars
  <2>1. UNCHANGED <<registry, ledger>>
    BY <1>8 DEF Deliver, OnCreate, OnStart, OnRender, OnDestroy, TapStop, vars, registry, ledger
  <2> QED
    BY <2>1, <1>6
<1> QED
  BY <1>1, <1>2, <1>3, <1>4, <1>5, <1>7, <1>8 DEF Next, Ui, Background, MainThread

LEMMA LedgerInvariant == Spec => []LedgerInv
<1>1. Init => LedgerInv
  BY DEF Init, LedgerInv, MayStop, Registered
<1>2. TypeOK /\ LedgerInv /\ [Next]_vars => LedgerInv'
  BY LedgerStep
<1> QED
  BY <1>1, <1>2, TypeCorrect, PTL DEF Spec

\* However many threads end a mode, its outcome is recorded once for each time
\* the mode was started.
THEOREM OutcomesCorrect == Spec => []OutcomeRecordedOnce
<1>1. LedgerInv => OutcomeRecordedOnce
  BY DEF LedgerInv, OutcomeRecordedOnce
<1> QED
  BY <1>1, LedgerInvariant, PTL

\* The stop hook of a mode is started at most once for each begin.
THEOREM HooksCorrect == Spec => []HookStartedOnce
<1>1. LedgerInv => HookStartedOnce
  BY DEF LedgerInv, HookStartedOnce
<1> QED
  BY <1>1, LedgerInvariant, PTL

\* The results are those of modes that are not running: begin forgets the old
\* result in the section that registers the mode, end keeps the new one in the
\* section that removes it.
THEOREM ResultsCorrect == Spec => []NoStaleResult
<1>1. Init => NoStaleResult
  BY DEF Init, NoStaleResult, Registered
<1>2. TypeOK /\ NoStaleResult /\ [Next]_vars => NoStaleResult'
  <2> SUFFICES ASSUME TypeOK, NoStaleResult, [Next]_vars PROVE NoStaleResult'
    OBVIOUS
  <2>a. ThreadsOK /\ states \in Seq(Modes) /\ NoDuplicate(states)
    BY DEF TypeOK, RegistryOK, NoDuplicate
  <2>1. ASSUME NEW m \in Modes, Register(m) PROVE NoStaleResult'
    BY <2>1, <2>a, RegisterAdds DEF Register, NoStaleResult
  <2>2. ASSUME NEW m \in Modes, Unregister(m) PROVE NoStaleResult'
    BY <2>2, <2>a, UnregisterRemoves DEF Unregister, NoStaleResult
  <2>3. ASSUME UNCHANGED <<states, results>> PROVE NoStaleResult'
    BY <2>3 DEF NoStaleResult, Registered
  <2>4. ASSUME NEW t \in Threads, Ui(t) PROVE NoStaleResult'
    BY <2>1, <2>3, <2>4 DEF Ui, UiBegin, UiStop, UiRequestStop, registry
  <2>5. ASSUME NEW t \in Threads, Background(t) PROVE NoStaleResult'
    <3>1. CASE EndLocked(t) \/ BeginLocked(t)
      <4>1. thr[t].mode \in Modes
        BY <3>1, <2>a DEF EndLocked, BeginLocked, ThreadsOK
      <4> QED
        BY <3>1, <4>1, <2>1, <2>2 DEF EndLocked, BeginLocked
    <3>2. CASE \/ ProgressLocked(t) \/ ReadInstance(t) \/ PostRender(t)
               \/ BeginStart(t) \/ Return(t)
      BY <3>2, <2>3 DEF ProgressLocked, ReadInstance, PostRender, BeginStart, Return, registry
    <3> QED
      BY <2>5, <3>1, <3>2 DEF Background
  <2>6. CASE MainThread \/ Deliver \/ (\E m \in Modes : TapStop(m)) \/ UNCHANGED vars
    BY <2>6, <2>3 DEF MainThread, OnCreate, OnStart, OnStartStop, OnRender, OnDestroy, Deliver,
                      TapStop, vars, registry
  <2> QED
    BY <2>4, <2>5, <2>6 DEF Next
<1> QED
  BY <1>1, <1>2, TypeCorrect, PTL DEF Spec
-----------------------------------------------------------------------------
(***************************************************************************)
(* The service of a registered mode.  A mode that is registered while no   *)
(* service is there has a thread that will start one; what was in the      *)
(* foreground once is there still, or startForeground threw; and no        *)
(* message, thread or flag knows a service object the system has yet to    *)
(* create.                                                                 *)
(***************************************************************************)
Known(q, n) == \A k \in 1..Len(q) : q[k].inst <= n

ObjectsKnown ==
  /\ ams <= created /\ instance <= created
  /\ \A i \in Instances : entered[i] => i <= created
  /\ Known(mainQ, created) /\ Known(binderQ, created)
  /\ \A t \in Threads : thr[t].inst <= created

Starting(t) == thr[t].pc \in {"beginRead", "beginStart"}

Served == states # <<>> => \/ ams # 0 \/ events \cap {"refused", "dying"} # {}
                           \/ \E t \in Threads : Starting(t)

Entered == /\ ams # 0 /\ entered[ams] => fg # NoMode \/ "thrown" \in events
           /\ ams # 0 /\ entered[ams] /\ promise => "thrown" \in events

ForegroundInv == ObjectsKnown /\ Served /\ Entered /\ PromiseKept

\* Appending a message of a known object, and taking one from the head.
LEMMA KnownAppend ==
  ASSUME NEW q \in Seq(Message), NEW n \in Nat, Known(q, n),
         NEW x \in Message, x.inst <= n
  PROVE  Known(Append(q, x), n)
BY DEF Known

LEMMA KnownTail ==
  ASSUME NEW q \in Seq(Message), q # <<>>, NEW n \in Nat, Known(q, n)
  PROVE  Known(Tail(q), n) /\ Head(q).inst <= n
BY DEF Known

\* Objects once known are known when there are more.
LEMMA KnownMore ==
  ASSUME NEW q \in Seq(Message), NEW n \in Nat, NEW o \in Nat, n <= o, Known(q, n)
  PROVE  Known(q, o)
<1>1. \A k \in 1..Len(q) : q[k].inst \in Int
  <2>1. \A x \in Message : x.inst \in Int
    BY DEF Message, Instances
  <2> QED
    BY <2>1
<1> QED
  BY <1>1 DEF Known

\* A start leaves a service record; a new object has not been in the foreground.
LEMMA SystemStartForeground ==
  ASSUME TypeOK, TypeOK', ForegroundInv, NEW m \in Modes \cup {NoMode}, SystemStart(m),
         UNCHANGED <<service, mainQ, fg>>, events \subseteq events',
         \A t \in Threads : thr'[t].inst \in {0, thr[t].inst}, PromiseKept'
  PROVE  ForegroundInv' /\ ams' # 0
<1> DEFINE i == IF ams = 0 THEN created + 1 ELSE ams
           birth == IF ams = 0 THEN <<Msg("create", i, NoMode)>> ELSE <<>>
           start == <<Msg("start", i, m)>>
<1>1. /\ ams' = i /\ i # 0 /\ i \in Instances /\ created' \in Nat
      /\ created <= created' /\ i <= created' /\ created \in Nat
  BY DEF SystemStart, TypeOK, SystemOK, ForegroundInv, ObjectsKnown, Instances
<1>2. Known(binderQ', created')
  <2>1. Msg("create", i, NoMode) \in Message /\ Msg("start", i, m) \in Message
    BY <1>1, MsgType
  <2>2. Msg("create", i, NoMode).inst = i /\ Msg("start", i, m).inst = i
    BY DEF Msg
  <2>3. binderQ \in Seq(Message) /\ Known(binderQ, created')
    BY <1>1, KnownMore DEF TypeOK, SystemOK, ForegroundInv, ObjectsKnown
  <2>4. binderQ \o birth \in Seq(Message) /\ Known(binderQ \o birth, created')
    <3>1. CASE ams = 0
      <4>1. binderQ \o birth = Append(binderQ, Msg("create", i, NoMode))
        BY <2>1, <2>3, <3>1
      <4> DEFINE x == Msg("create", i, NoMode)
      <4>2. x \in Message /\ x.inst <= created'
        BY <1>1, <2>1, <2>2
      <4> HIDE DEF x, i
      <4>3. Known(Append(binderQ, x), created') /\ Append(binderQ, x) \in Seq(Message)
        BY <1>1, <2>3, <4>2, KnownAppend
      <4> QED
        BY <4>1, <4>3 DEF x
    <3>2. CASE ams # 0
      BY <2>3, <3>2
    <3> QED
      BY <3>1, <3>2
  <2>5. binderQ' = Append(binderQ \o birth, Msg("start", i, m))
    <3>1. binderQ' = (binderQ \o birth) \o start
      BY DEF SystemStart
    <3> HIDE DEF birth
    <3> QED
      BY <3>1, <2>4, <2>1
  <2> HIDE DEF birth
  <2> QED
    BY <1>1, <2>1, <2>2, <2>4, <2>5, KnownAppend
<1>3. Known(mainQ', created')
  BY <1>1, KnownMore DEF TypeOK, SystemOK, ForegroundInv, ObjectsKnown
<1>4. ObjectsKnown'
  BY <1>1, <1>2, <1>3 DEF ObjectsKnown, ForegroundInv, service, TypeOK, ServiceOK, Instances,
     ThreadsOK, Thread
<1>5. Entered'
  <2>1. CASE ams = 0
    BY <1>1, <2>1 DEF service, ForegroundInv, ObjectsKnown, Entered
  <2>2. CASE ams # 0
    BY <1>1, <2>2 DEF service, ForegroundInv, Entered, SystemStart, TypeOK, SystemOK
  <2> QED
    BY <2>1, <2>2
<1> QED
  BY <1>1, <1>4, <1>5 DEF ForegroundInv, Served

\* A render leaves the service only when no mode is registered, and the foreground
\* only with the service.
LEMMA RenderForeground ==
  ASSUME TypeOK, TypeOK', ForegroundInv, NEW i \in Instances, i <= created, Render(i),
         UNCHANGED <<states, instance, created>>, Known(mainQ', created),
         \A t \in Threads : thr'[t].inst \in {0, thr[t].inst},
         \A t \in Threads : Starting(t) => thr'[t] = thr[t]
  PROVE  ForegroundInv'
<1>1. created \in Nat /\ binderQ \in Seq(Message)
  BY DEF TypeOK, SystemOK, Instances
<1>2. CASE states = <<>>
  <2>1. RenderIdle(i)
    BY <1>2 DEF Render
  <2>2. Known(binderQ', created')
    <3>1. Msg("destroy", i, NoMode) \in Message /\ Msg("destroy", i, NoMode).inst = i
      BY MsgType DEF Msg
    <3> QED
      BY <1>1, <2>1, <3>1, KnownAppend DEF RenderIdle, ForegroundInv, ObjectsKnown
  <2>3. ObjectsKnown'
    BY <1>1, <2>1, <2>2 DEF RenderIdle, ForegroundInv, ObjectsKnown, TypeOK, ServiceOK, ThreadsOK,
       Thread, Instances
  <2>4. Entered' /\ PromiseKept'
    BY <2>1 DEF RenderIdle, ForegroundInv, Entered, PromiseKept, TypeOK, ServiceOK
  <2> QED
    BY <1>2, <2>3, <2>4 DEF ForegroundInv, Served
<1>3. CASE states # <<>>
  <2>1. RenderModes(i) /\ Head(states) # NoMode
    BY <1>3, ModesAssumption DEF Render, TypeOK, RegistryOK
  <2>2. ObjectsKnown'
    BY <1>1, <2>1 DEF RenderModes, ForegroundInv, ObjectsKnown, TypeOK, ServiceOK, ThreadsOK,
       Thread, Instances
  <2>3. Entered' /\ PromiseKept' /\ events \subseteq events'
    BY <2>1 DEF RenderModes, ForegroundInv, Entered, PromiseKept, TypeOK, ServiceOK
  <2>4. Served'
    BY <2>1, <2>3 DEF RenderModes, ForegroundInv, Served, Starting
  <2> QED
    BY <2>2, <2>3, <2>4 DEF ForegroundInv
<1> QED
  BY <1>2, <1>3

\* Every step keeps the invariant: one case for each action.
LEMMA ForegroundStep == TypeOK /\ ForegroundInv /\ [Next]_vars => ForegroundInv'
<1> SUFFICES ASSUME TypeOK, ForegroundInv, [Next]_vars PROVE ForegroundInv'
  OBVIOUS
<1>a. TypeOK' /\ created \in Nat /\ mainQ \in Seq(Message) /\ binderQ \in Seq(Message)
  BY TypeStep DEF TypeOK, SystemOK, Instances
<1>b. /\ Known(mainQ, created) /\ Known(binderQ, created)
      /\ \A t \in Threads : thr[t].inst <= created /\ thr[t].inst \in Nat
  BY DEF ForegroundInv, ObjectsKnown, TypeOK, ThreadsOK, Thread, Instances
<1>c. ASSUME NEW i \in Instances, i <= created
      PROVE  Known(Append(mainQ, Msg("render", i, NoMode)), created)
  <2>1. Msg("render", i, NoMode) \in Message /\ Msg("render", i, NoMode).inst = i
    BY MsgType DEF Msg
  <2> QED
    BY <1>a, <1>b, <1>c, <2>1, KnownAppend
<1>d. ASSUME UNCHANGED <<service, ams, created, binderQ, fg, promise, events>>, Served',
             mainQ' = mainQ \/ Known(mainQ', created),
             \A t \in Threads : thr'[t].inst \in {0, thr[t].inst}
      PROVE  ForegroundInv'
  <2>1. Known(mainQ', created)
    BY <1>b, <1>d
  <2>2. \A t \in Threads : thr'[t].inst <= created
    BY <1>a, <1>b, <1>d
  <2>3. ObjectsKnown'
    BY <1>d, <2>1, <2>2 DEF ForegroundInv, ObjectsKnown, service
  <2> QED
    BY <1>d, <2>3 DEF ForegroundInv, Entered, PromiseKept, service
<1>1. ASSUME NEW t \in Threads, NEW m \in Modes, UiBegin(m, t) PROVE ForegroundInv'
  <2>0. \A u \in Threads : thr'[u].inst \in {0, thr[u].inst}
    BY <1>1 DEF UiBegin, Spawn, At, TypeOK, ThreadsOK
  <2>1. CASE instance = 0 /\ SystemStart(NoMode) /\ UNCHANGED <<mainQ, events>>
    BY <1>1, <1>a, <2>0, <2>1, SystemStartForeground DEF UiBegin, ForegroundInv, PromiseKept
  <2>2. CASE UNCHANGED <<mainQ, ams, created, binderQ, promise>> /\ events' = events \cup {"refused"}
    BY <1>1, <1>b, <2>0, <2>2 DEF UiBegin, ForegroundInv, ObjectsKnown, Served, Entered,
       PromiseKept, service
  <2>3. CASE /\ instance # 0
             /\ mainQ' = Append(mainQ, Msg("render", instance, NoMode))
             /\ events' = IF instance = ams THEN events ELSE events \cup {"dying"}
             /\ UNCHANGED <<ams, created, binderQ, promise>>
    <3>1. Known(mainQ', created)
      BY <2>3, <1>c DEF TypeOK, ServiceOK, ForegroundInv, ObjectsKnown
    <3>2. ObjectsKnown'
      BY <1>1, <1>a, <1>b, <2>0, <2>3, <3>1 DEF UiBegin, ForegroundInv, ObjectsKnown, service
    <3>3. Served'
      BY <2>3 DEF Served
    <3>4. Entered' /\ PromiseKept'
      BY <1>1, <2>3 DEF UiBegin, ForegroundInv, Entered, PromiseKept, service
    <3> QED
      BY <3>2, <3>3, <3>4 DEF ForegroundInv
  <2> QED
    BY <1>1, <2>1, <2>2, <2>3 DEF UiBegin
<1>2. ASSUME NEW t \in Threads, NEW m \in Modes, UiStop(m, t) PROVE ForegroundInv'
  <2>1. \A u \in Threads : thr'[u].inst \in {0, thr[u].inst} /\ (Starting(u) => thr'[u] = thr[u])
    BY <1>2 DEF UiStop, Spawn, At, TypeOK, ThreadsOK, Starting
  <2>2. Served'
    BY <1>2, <2>1 DEF UiStop, ForegroundInv, Served, Starting, registry, system
  <2> QED
    BY <1>2, <1>b, <1>d, <2>1, <2>2 DEF UiStop, system
<1>3. ASSUME NEW t \in Threads, NEW m \in Modes, UiRequestStop(m, t) PROVE ForegroundInv'
  <2>1. \A u \in Threads : thr'[u].inst \in {0, thr[u].inst} /\ (Starting(u) => thr'[u] = thr[u])
    BY <1>3 DEF UiRequestStop, RunHook, Spawn, At, TypeOK, ThreadsOK, Starting
  <2>2. Served'
    BY <1>3, <2>1 DEF UiRequestStop, ForegroundInv, Served, Starting, system
  <2>3. Known(mainQ', created)
    BY <1>3, <1>b, <1>c DEF UiRequestStop, TypeOK, ServiceOK, ForegroundInv, ObjectsKnown
  <2> QED
    BY <1>3, <1>b, <1>d, <2>1, <2>2, <2>3 DEF UiRequestStop, system
<1>4. ASSUME NEW t \in Threads, EndLocked(t) PROVE ForegroundInv'
  <2>1. \A u \in Threads : thr'[u].inst \in {0, thr[u].inst} /\ (Starting(u) => thr'[u] = thr[u])
    BY <1>4 DEF EndLocked, Goto, At, TypeOK, ThreadsOK, Starting
  <2>2. states' # <<>> => states # <<>>
    BY <1>4 DEF EndLocked, Unregister, TypeOK, RegistryOK
  <2>3. Served'
    BY <1>4, <2>1, <2>2 DEF EndLocked, ForegroundInv, Served, Starting, system
  <2> QED
    BY <1>4, <1>b, <1>d, <2>1, <2>3 DEF EndLocked, system
<1>5. ASSUME NEW t \in Threads, BeginLocked(t) PROVE ForegroundInv'
  <2>1. (\A u \in Threads : thr'[u].inst \in {0, thr[u].inst}) /\ thr'[t].pc = "beginRead"
    BY <1>5 DEF BeginLocked, Goto, At, TypeOK, ThreadsOK
  <2>2. Served'
    BY <2>1 DEF Served, Starting
  <2> QED
    BY <1>5, <1>b, <1>d, <2>1, <2>2 DEF BeginLocked, system
<1>6. ASSUME NEW t \in Threads, ProgressLocked(t) \/ Return(t) PROVE ForegroundInv'
  <2>1. \A u \in Threads : thr'[u].inst \in {0, thr[u].inst} /\ (Starting(u) => thr'[u] = thr[u])
    BY <1>6 DEF ProgressLocked, Return, Goto, At, Idle, TypeOK, ThreadsOK, Starting
  <2>2. Served'
    BY <1>6, <2>1 DEF ProgressLocked, Return, ForegroundInv, Served, Starting, registry, system
  <2> QED
    BY <1>6, <1>b, <1>d, <2>1, <2>2 DEF ProgressLocked, Return, system
<1>7. ASSUME NEW t \in Threads, ReadInstance(t) PROVE ForegroundInv'
  <2>1. (\A u \in Threads : thr'[u].inst \in {0, instance, thr[u].inst})
        /\ (\A u \in Threads \ {t} : thr'[u] = thr[u])
    BY <1>7 DEF ReadInstance, Goto, At, Idle, TypeOK, ThreadsOK
  <2>2. \/ instance = 0 /\ thr[t].pc = "beginRead" /\ thr'[t].pc = "beginStart"
        \/ instance # 0 /\ thr[t].pc = "beginRead" /\ (instance = ams \/ "dying" \in events')
        \/ ~Starting(t)
    BY <1>7 DEF ReadInstance, Goto, At, TypeOK, ThreadsOK, Starting
  <2>3. events \subseteq events' /\ ("broken" \in events' => "broken" \in events)
    BY <1>7 DEF ReadInstance
  <2>4. Served'
    BY <1>7, <2>1, <2>2, <2>3 DEF ReadInstance, ForegroundInv, Served, Starting, registry, system
  <2>5. ObjectsKnown'
    BY <1>7, <1>a, <1>b, <2>1 DEF ReadInstance, ForegroundInv, ObjectsKnown, service, system
  <2>6. Entered' /\ PromiseKept'
    BY <1>7, <2>3 DEF ReadInstance, ForegroundInv, Entered, PromiseKept, service, system
  <2> QED
    BY <2>4, <2>5, <2>6 DEF ForegroundInv
<1>8. ASSUME NEW t \in Threads, PostRender(t) PROVE ForegroundInv'
  <2>1. \A u \in Threads : thr'[u].inst \in {0, thr[u].inst} /\ (Starting(u) => thr'[u] = thr[u])
    BY <1>8 DEF PostRender, Idle, At, TypeOK, ThreadsOK, Starting
  <2>2. Served'
    BY <1>8, <2>1 DEF PostRender, ForegroundInv, Served, Starting, registry, system
  <2>3. thr[t].inst \in Instances
    BY <1>8 DEF PostRender, TypeOK, ThreadsOK, Thread
  <2>4. Known(mainQ', created)
    BY <1>8, <1>b, <1>c, <2>3 DEF PostRender
  <2> QED
    BY <1>8, <1>b, <1>d, <2>1, <2>2, <2>4 DEF PostRender, system
<1>9. ASSUME NEW t \in Threads, BeginStart(t) PROVE ForegroundInv'
  <2>1. \A u \in Threads : thr'[u].inst \in {0, thr[u].inst}
    BY <1>9 DEF BeginStart, Idle, At, TypeOK, ThreadsOK
  <2>2. CASE SystemStart(NoMode) /\ UNCHANGED events
    BY <1>9, <1>a, <2>1, <2>2, SystemStartForeground DEF BeginStart, ForegroundInv, PromiseKept
  <2>3. CASE UNCHANGED <<ams, created, binderQ, promise>> /\ events' = events \cup {"refused"}
    <3>1. ObjectsKnown'
      BY <1>9, <1>a, <1>b, <2>1, <2>3 DEF BeginStart, ForegroundInv, ObjectsKnown, service
    <3>2. Served' /\ Entered' /\ PromiseKept'
      BY <1>9, <2>3 DEF BeginStart, ForegroundInv, Served, Entered, PromiseKept, service
    <3> QED
      BY <3>1, <3>2 DEF ForegroundInv
  <2> QED
    BY <1>9, <2>2, <2>3 DEF BeginStart
<1>10. ASSUME NEW m \in Modes, TapStop(m) PROVE ForegroundInv'
  BY <1>10, <1>a, SystemStartForeground DEF TapStop, ForegroundInv, PromiseKept
<1>11. CASE Deliver
  <2>1. Head(binderQ) \in Message /\ Head(binderQ).inst <= created /\ Known(Tail(binderQ), created)
    BY <1>11, <1>a, <1>b, KnownTail DEF Deliver
  <2>2. Known(mainQ', created) /\ Known(binderQ', created)
    BY <1>11, <1>a, <1>b, <2>1, KnownAppend DEF Deliver
  <2> QED
    BY <1>11, <2>2 DEF Deliver, ForegroundInv, ObjectsKnown, Served, Starting, Entered,
       PromiseKept, registry, service
<1>12. CASE MainThread
  <2>1. ASSUME mainQ # <<>>
        PROVE  /\ Head(mainQ) \in Message /\ Head(mainQ).inst <= created
               /\ Head(mainQ).inst \in Instances
               /\ Tail(mainQ) \in Seq(Message) /\ Known(Tail(mainQ), created)
    <3>1. Head(mainQ) \in Message /\ Tail(mainQ) \in Seq(Message)
      BY <1>a, <2>1
    <3> QED
      BY <1>a, <1>b, <2>1, <3>1, KnownTail DEF Message
  <2>2. CASE OnCreate \/ OnDestroy
    <3>1. mainQ # <<>> /\ mainQ' = Tail(mainQ) /\ instance' <= created
      BY <1>a, <2>1, <2>2 DEF OnCreate, OnDestroy, Take
    <3>2. UNCHANGED <<registry, posted, entered, system, thr, events>>
      BY <2>2 DEF OnCreate, OnDestroy
    <3> QED
      BY <2>1, <3>1, <3>2 DEF ForegroundInv, ObjectsKnown, Served, Starting, Entered,
         PromiseKept, registry, system
  <2>3. CASE OnStart \/ OnRender
    <3>1. mainQ # <<>> /\ mainQ' = Tail(mainQ)
      BY <2>3 DEF OnStart, OnRender, Take
    <3> QED
      BY <1>a, <2>1, <2>3, <3>1, RenderForeground DEF OnStart, OnRender, registry
  <2>4. ASSUME NEW t \in Threads, OnStartStop(t) PROVE ForegroundInv'
    <3>1. /\ mainQ # <<>> /\ Render(Head(mainQ).inst)
          /\ UNCHANGED <<states, instance, created>>
          /\ Spawn(t, Head(mainQ).mode, TRUE)
          /\ mainQ' = IF instance = 0 THEN Tail(mainQ)
                      ELSE Append(Tail(mainQ), Msg("render", instance, NoMode))
      BY <2>4 DEF OnStartStop, RunHook
    <3>2. \A u \in Threads : thr'[u].inst \in {0, thr[u].inst} /\ (Starting(u) => thr'[u] = thr[u])
      BY <3>1 DEF Spawn, At, TypeOK, ThreadsOK, Starting
    <3>3. Known(mainQ', created)
      <4>1. CASE instance = 0
        BY <2>1, <3>1, <4>1
      <4>2. CASE instance # 0
        <5> DEFINE x == Msg("render", instance, NoMode)
        <5>1. x \in Message /\ x.inst <= created
          BY <4>2, MsgType DEF Msg, TypeOK, ServiceOK, ForegroundInv, ObjectsKnown
        <5> HIDE DEF x
        <5>2. Known(Append(Tail(mainQ), x), created)
          BY <1>a, <2>1, <3>1, <5>1, KnownAppend
        <5> QED
          BY <3>1, <4>2, <5>2 DEF x
      <4> QED
        BY <4>1, <4>2
    <3> QED
      BY <1>a, <2>1, <3>1, <3>2, <3>3, RenderForeground
  <2> QED
    BY <1>12, <2>2, <2>3, <2>4 DEF MainThread
<1>13. CASE UNCHANGED vars
  BY <1>13 DEF vars, ForegroundInv, ObjectsKnown, Served, Starting, Entered, PromiseKept, Known
<1> QED
  BY <1>1, <1>2, <1>3, <1>4, <1>5, <1>6, <1>7, <1>8, <1>9, <1>10, <1>11, <1>12, <1>13
     DEF Next, Ui, Background

\* A registered mode has its service once everything is delivered, unless Android
\* refused to start one or the service was on its way down; and what was promised
\* with startForegroundService is kept unless startForeground throws: for every
\* number of modes, threads, begins and service objects.
THEOREM ForegroundCorrect == Spec => []ForegroundKept
<1>1. Init => ForegroundInv
  BY DEF Init, ForegroundInv, ObjectsKnown, Served, Entered, PromiseKept, Known, Idle, At
<1>2. TypeOK /\ ForegroundInv /\ [Next]_vars => ForegroundInv'
  BY ForegroundStep
<1>3. ForegroundInv => ForegroundKept
  BY DEF ForegroundInv, ForegroundKept, Served, ServedUnlessDying, Quiet, Starting
<1> QED
  BY <1>1, <1>2, <1>3, TypeCorrect, PTL DEF Spec
=============================================================================
