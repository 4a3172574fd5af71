---------------------------- MODULE DaemonProofs ----------------------------
(***************************************************************************)
(* The application's sessions with dnsmasq, and dnsmasq's log.             *)
(*                                                                         *)
(* Part one, PxeSession: for any number of threads, addresses, starts,     *)
(* operations and faults, as long as operations on the server do not       *)
(* overlap, what phone and screens tell follows the server there is        *)
(* (PhoneFollows).  The invariant has four parts.  TypeOK gives the        *)
(* shapes.  Alone says that one thread and one server are at work at a     *)
(* time, and that a server that is to go on is the one the pid file names. *)
(* Told says, for each place an operation can be at, whether there is a    *)
(* server, and what page and notification make of it.  Placed says whose   *)
(* address is on the interface: the session's, that of a start, or that of *)
(* a stop.                                                                 *)
(*                                                                         *)
(* Part two, LogQueue: for any queue, socket and number of messages and    *)
(* troubles, no message is written twice, out of its turn, or lost without *)
(* a word (LogRight).  LogRight speaks of what has been written.  The      *)
(* invariant adds what is still to be: in each process the messages that   *)
(* wait are in the order they were logged and after all that were written  *)
(* (InTurn), the main process has none but its own, and what its queue,    *)
(* its count of losses and the messages written stand for adds up to what  *)
(* was logged (Booked).                                                    *)
(***************************************************************************)
EXTENDS PxeSession, LogQueue, FiniteSetTheorems, SequenceTheorems, TLAPS


-----------------------------------------------------------------------------
(* Part one, the sessions: the invariant                                   *)

Addrs == Addresses \cup {None}
Pcs == {"idle", "begun", "extract", "writing", "testing", "launched", "save", "stopping"}
ShellPcs == {"idle", "ip", "rmOld", "exec", "server", "kill", "rm", "del", "done"}
ServerPcs == {"off", "ready", "exiting", "gone", "other"} \cup Starting
Ops == [kind : {"none", "start", "stop", "hook"}, pc : Pcs, addr : Addrs, mine : BOOLEAN]
Shells == [pc : ShellPcs, addr : Addrs, code : {0, 1}]
Servers == [pc : ServerPcs, term : BOOLEAN, shell : Threads \cup {None}]
Screens == [page : {"closed", "asking", "setup", "running"}, busy : BOOLEAN, saw : BOOLEAN]

TypeOK ==
    /\ op \in [Threads -> Ops]
    /\ shell \in [Threads -> Shells]
    /\ server \in [Pids -> Servers]
    /\ screen \in Screens
    /\ mode \in [shown : BOOLEAN, stopping : BOOLEAN]
    /\ session \in [memory : Addrs, disk : Addrs]
    /\ pidFile \in Pids \cup {None}
    /\ onIface \subseteq Addrs

\* What the thread of an operation is at, and what its shell may be at.
Fits ==
    \A t \in Threads :
      /\ op[t].kind = "none" <=> op[t].pc = "idle"
      /\ op[t].kind = "start" =>
            op[t].pc \in {"begun", "extract", "writing", "testing", "launched", "save"}
      /\ op[t].kind \in {"stop", "hook"} => op[t].pc \in {"begun", "stopping"}
      /\ op[t].pc \in {"begun", "extract", "writing", "testing", "save"} =>
            shell[t].pc \in {"idle", "done"}
      /\ op[t].pc = "launched" => shell[t].pc \in {"ip", "rmOld", "exec", "server", "done"}
      /\ op[t].pc = "stopping" => shell[t].pc \in {"kill", "rm", "del", "done"}

\* A server that has not been told to end.
Up == {p \in Pids : server[p].pc = "ready" /\ ~server[p].term}

\* A thread for which no server may be there at all.
Clear(t) == op[t].pc \in {"writing", "testing"} \/ shell[t].pc \in {"ip", "rmOld", "exec"}

\* A thread whose server is not there yet, or is to go.
Without(t) ==
    \/ shell[t].pc \in {"ip", "rmOld", "exec", "server", "rm", "del"}
    \/ op[t].pc = "launched" /\ shell[t].pc = "done" /\ shell[t].code # 0
    \/ op[t].pc = "stopping" /\ shell[t].pc = "done" /\ shell[t].code = 0

OneThread == \A t, u \in Threads : InFlight(t) /\ InFlight(u) => t = u
OneServer == \A p, q \in Pids : Live(p) /\ Live(q) => p = q

Parents ==
    \A p \in Pids : server[p].pc \in Starting =>
      /\ server[p].shell \in Threads
      /\ shell[server[p].shell].pc = "server"
      /\ ~server[p].term

Named == \A p \in Pids : server[p].pc = "written" \/ p \in Up => pidFile = p

NoneThere ==
    \A t \in Threads :
      /\ Clear(t) => \A p \in Pids : ~Live(p)
      /\ Without(t) => Up = {}

\* Without crashes, who is named by the pid file is there.
NameHolds ==
    "crash" \notin events /\ pidFile # None =>
      /\ server[pidFile].pc \in {"written", "ready"}
      /\ server[pidFile].term => \E t \in Threads : shell[t].pc = "rm"

Alone ==
    Fits /\ OneThread /\ OneServer /\ Parents /\ Named /\ NoneThere /\ NameHolds

\* The page and the notification.
Resting == \A t \in Threads : op[t].pc = "idle"

Halts ==
    /\ mode.stopping => \E t \in Threads : op[t].kind = "hook"
    /\ screen.page = "closed" => Resting /\ ~mode.shown

\* Nothing has made the screens look at a server that was on its way.
Looked == events \cap {"early", "crash", "denied"} = {}

TellsAt(t) ==
    /\ op[t].kind = "start" =>
          /\ mode.shown /\ op[t].mine
          /\ op[t].pc \in {"begun", "extract"} => Up = {}
          /\ op[t].pc = "save" => Up # {}
    /\ op[t].kind = "stop" =>
          /\ op[t].mine
          /\ ~Without(t) => (mode.shown <=> Up # {})
    /\ op[t].kind = "hook" => mode.shown /\ (~Without(t) => Up # {})

Tells ==
    Looked =>
      /\ screen.page = "asking" =>
            (\A t \in Threads : ~InFlight(t)) /\ (screen.saw <=> Up # {})
      /\ screen.page # "closed" /\ Resting =>
            /\ \A t \in Threads : ~InFlight(t)
            /\ mode.shown => Up # {}
            /\ screen.page = "running" /\ Up # {} => mode.shown
            /\ screen.page = "setup" => Up = {}
      /\ screen.page = "setup" => \A t \in Threads : op[t].kind \in {"none", "start"}
      /\ \A t \in Threads : TellsAt(t)

Told == Halts /\ Tells

\* The addresses on the interface.
Kept == events \cap {"crash", "failed", "lost"} = {}

Owner(a) ==
    \/ /\ Up # {} /\ a = session.memory
       /\ \A t \in Threads : op[t].pc \notin {"launched", "save"}
    \/ \E t \in Threads : op[t].pc \in {"launched", "save"} /\ a = op[t].addr
    \/ \E t \in Threads : shell[t].pc \in {"rm", "del"} /\ a = shell[t].addr

Owned == Kept => \A a \in onIface : Owner(a)

Places ==
    Kept => \A t \in Threads :
      /\ shell[t].pc \in {"ip", "rmOld", "exec", "server"} =>
            op[t].pc = "launched" /\ shell[t].addr = op[t].addr
      /\ op[t].pc = "save" => Up # {}
      /\ shell[t].pc = "kill" => shell[t].addr = session.memory

Placed == Owned /\ Places

PxeInv == TypeOK /\ Alone /\ Told /\ Placed

-----------------------------------------------------------------------------
(* Types                                                                   *)

\* The words that places, shells and servers are told apart by.
LEMMA Words ==
  /\ /\ "begun" \in Pcs /\ "extract" \in Pcs /\ "writing" \in Pcs /\ "testing" \in Pcs
     /\ "launched" \in Pcs /\ "save" \in Pcs /\ "stopping" \in Pcs
  /\ /\ "ip" \in ShellPcs /\ "rmOld" \in ShellPcs /\ "exec" \in ShellPcs /\ "server" \in ShellPcs
     /\ "kill" \in ShellPcs /\ "rm" \in ShellPcs /\ "del" \in ShellPcs /\ "done" \in ShellPcs
  /\ /\ "load" \in ServerPcs /\ "forked" \in ServerPcs /\ "unlinked" \in ServerPcs
     /\ "written" \in ServerPcs /\ "ready" \in ServerPcs /\ "exiting" \in ServerPcs
     /\ "gone" \in ServerPcs /\ "other" \in ServerPcs
  /\ 0 \in {0, 1} /\ 1 \in {0, 1}
  /\ None \in Addrs /\ Addresses \subseteq Addrs
BY DEF Pcs, ShellPcs, ServerPcs, Starting, Addrs

\* The records of operations that the actions make.
LEMMA OpForms ==
  ASSUME op \in [Threads -> Ops], NEW t \in Threads
  PROVE  /\ \A pc \in Pcs : [op EXCEPT ![t].pc = pc] \in [Threads -> Ops]
         /\ [op EXCEPT ![t] = NoOp] \in [Threads -> Ops]
         /\ \A k \in {"start", "stop", "hook"}, a \in Addrs, b \in BOOLEAN :
               [op EXCEPT ![t] = [kind |-> k, pc |-> "begun", addr |-> a, mine |-> b]]
                 \in [Threads -> Ops]
<1>1. ASSUME NEW pc \in Pcs PROVE [op EXCEPT ![t].pc = pc] \in [Threads -> Ops]
  BY DEF Ops
<1>2. NoOp \in Ops
  BY DEF NoOp, Ops, Pcs, Addrs
<1>3. ASSUME NEW k \in {"start", "stop", "hook"}, NEW a \in Addrs, NEW b \in BOOLEAN
      PROVE  [kind |-> k, pc |-> "begun", addr |-> a, mine |-> b] \in Ops
  BY Words DEF Ops
<1> QED
  BY <1>1, <1>2, <1>3

\* The commands of the shells.
LEMMA ShellForms ==
  ASSUME shell \in [Threads -> Shells], NEW t \in Threads
  PROVE  /\ \A pc \in ShellPcs : [shell EXCEPT ![t].pc = pc] \in [Threads -> Shells]
         /\ \A c \in {0, 1} :
               [shell EXCEPT ![t].pc = "done", ![t].code = c] \in [Threads -> Shells]
         /\ [shell EXCEPT ![t] = NoShell] \in [Threads -> Shells]
         /\ \A pc \in ShellPcs, a \in Addrs, c \in {0, 1} :
               [shell EXCEPT ![t] = [pc |-> pc, addr |-> a, code |-> c]] \in [Threads -> Shells]
<1>1. ASSUME NEW pc \in ShellPcs PROVE [shell EXCEPT ![t].pc = pc] \in [Threads -> Shells]
  BY DEF Shells
<1>2. ASSUME NEW c \in {0, 1}
      PROVE  [shell EXCEPT ![t].pc = "done", ![t].code = c] \in [Threads -> Shells]
  <2>1. "done" \in ShellPcs
    BY Words
  <2> QED
    BY <2>1 DEF Shells
<1>3. NoShell \in Shells
  BY DEF NoShell, Shells, ShellPcs, Addrs
<1>4. ASSUME NEW pc \in ShellPcs, NEW a \in Addrs, NEW c \in {0, 1}
      PROVE  [pc |-> pc, addr |-> a, code |-> c] \in Shells
  BY DEF Shells
<1> QED
  BY <1>1, <1>2, <1>3, <1>4

\* The records of servers.
LEMMA ServerForms ==
  ASSUME server \in [Pids -> Servers], NEW p \in Pids
  PROVE  /\ \A pc \in ServerPcs : [server EXCEPT ![p].pc = pc] \in [Pids -> Servers]
         /\ [server EXCEPT ![p].term = TRUE] \in [Pids -> Servers]
         /\ \A t \in Threads :
               [server EXCEPT ![p] = [pc |-> "load", term |-> FALSE, shell |-> t]]
                 \in [Pids -> Servers]
<1>1. ASSUME NEW pc \in ServerPcs PROVE [server EXCEPT ![p].pc = pc] \in [Pids -> Servers]
  BY DEF Servers
<1>2. [server EXCEPT ![p].term = TRUE] \in [Pids -> Servers]
  BY DEF Servers
<1>3. ASSUME NEW t \in Threads
      PROVE  [pc |-> "load", term |-> FALSE, shell |-> t] \in Servers
  BY Words DEF Servers
<1> QED
  BY <1>1, <1>2, <1>3

\* The pages.
LEMMA ScreenForms ==
  ASSUME screen \in Screens
  PROVE  /\ \A b \in BOOLEAN : [screen EXCEPT !.busy = b] \in Screens
         /\ \A b \in BOOLEAN, pg \in {"setup", "running"} :
               [screen EXCEPT !.busy = b, !.page = pg] \in Screens
         /\ \A pg \in {"setup", "running"} : [screen EXCEPT !.page = pg] \in Screens
         /\ \A pg \in {"closed", "asking"}, s \in BOOLEAN :
               [page |-> pg, busy |-> FALSE, saw |-> s] \in Screens
BY DEF Screens

\* The end of an operation.
LEMMA FinishTypes ==
  ASSUME TypeOK, NEW t \in Threads, NEW word, NEW pg \in {"setup", "running"},
         Finish(t, word, pg)
  PROVE  op' \in [Threads -> Ops] /\ shell' \in [Threads -> Shells] /\ screen' \in Screens
<1>1. op' \in [Threads -> Ops]
  BY OpForms DEF TypeOK, Finish
<1>2. shell' \in [Threads -> Shells]
  BY ShellForms DEF TypeOK, Finish
<1>3. screen' \in Screens
  <2>1. screen \in Screens
    BY DEF TypeOK
  <2>2. [screen EXCEPT !.busy = FALSE, !.page = pg] \in Screens
    BY <2>1, ScreenForms
  <2> QED
    BY <2>1, <2>2 DEF Finish
<1> QED
  BY <1>1, <1>2, <1>3

\* A start that fails.
LEMMA StartFailsTypes ==
  ASSUME TypeOK, NEW t \in Threads, StartFails(t)
  PROVE  TypeOK'
<1>1. op' \in [Threads -> Ops] /\ shell' \in [Threads -> Shells] /\ screen' \in Screens
  BY FinishTypes DEF StartFails
<1>2. mode' \in [shown : BOOLEAN, stopping : BOOLEAN]
  BY DEF StartFails, End
<1> QED
  BY <1>1, <1>2 DEF TypeOK, StartFails

\* A start-up of dnsmasq that is given up.
LEMMA GivesUpTypes ==
  ASSUME TypeOK, NEW p \in Pids, server[p].shell \in Threads, GivesUp(p)
  PROVE  TypeOK'
<1>1. server' \in [Pids -> Servers]
  BY ServerForms, Words DEF TypeOK, GivesUp, ServerGoes
<1>2. shell' \in [Threads -> Shells]
  BY ShellForms, Words DEF TypeOK, GivesUp, Parent, ShellEnds
<1> QED
  BY <1>1, <1>2 DEF TypeOK, GivesUp, app

\* Every step keeps the shapes.
LEMMA TypeStep == TypeOK /\ Parents /\ [Next]_vars => TypeOK'
<1> SUFFICES ASSUME TypeOK, Parents, [Next]_vars PROVE TypeOK'
  OBVIOUS
<1>0. /\ op \in [Threads -> Ops] /\ shell \in [Threads -> Shells]
      /\ server \in [Pids -> Servers] /\ screen \in Screens
      /\ mode \in [shown : BOOLEAN, stopping : BOOLEAN]
      /\ session \in [memory : Addrs, disk : Addrs]
      /\ pidFile \in Pids \cup {None} /\ onIface \subseteq Addrs
  BY DEF TypeOK
<1>a. [shown |-> TRUE, stopping |-> FALSE] \in [shown : BOOLEAN, stopping : BOOLEAN]
  OBVIOUS
<1>b. \A t \in Threads : op[t].addr \in Addrs /\ shell[t].addr \in Addrs
  BY <1>0 DEF Ops, Shells
<1>c. session.memory \in Addrs /\ session.disk \in Addrs
  BY <1>0
<1>1. ASSUME NEW t \in Threads, TapStart(t) PROVE TypeOK'
  <2>1. PICK a \in Addresses : Tap(t, "start", a, TRUE)
    BY <1>1 DEF TapStart
  <2>2. op' \in [Threads -> Ops]
    BY <1>0, <2>1, OpForms, Words DEF Tap
  <2>3. screen' \in Screens
    BY <1>0, <1>1, ScreenForms DEF TapStart
  <2> QED
    BY <1>0, <1>1, <1>a, <2>2, <2>3 DEF TypeOK, TapStart, Begin, phone
<1>2. ASSUME NEW t \in Threads, TapStop(t) PROVE TypeOK'
  <2>1. op' \in [Threads -> Ops]
    BY <1>0, <1>2, OpForms, Words DEF TapStop, Tap
  <2>2. screen' \in Screens
    BY <1>0, <1>2, ScreenForms DEF TapStop
  <2> QED
    BY <1>0, <1>2, <2>1, <2>2 DEF TypeOK, TapStop, phone
<1>3. ASSUME NEW t \in Threads, TapHook(t) PROVE TypeOK'
  <2>1. op' \in [Threads -> Ops]
    BY <1>0, <1>3, OpForms, Words DEF TapHook, Tap
  <2> QED
    BY <1>0, <1>3, <2>1 DEF TypeOK, TapHook, phone
<1>4. ASSUME NEW t \in Threads, Prepare(t) PROVE TypeOK'
  <2>1. CASE StartFails(t)
    BY <2>1, StartFailsTypes
  <2>2. CASE Goto(t, "extract") /\ UNCHANGED <<screen, mode, session, told, phone, ghosts>>
    BY <1>0, <2>2, OpForms, Words DEF TypeOK, Goto, phone
  <2> QED
    BY <1>4, <2>1, <2>2 DEF Prepare
<1>5. ASSUME NEW t \in Threads, Extract(t) PROVE TypeOK'
  <2>1. CASE StartFails(t)
    BY <2>1, StartFailsTypes
  <2>2. CASE Goto(t, "writing") /\ UNCHANGED <<screen, mode, session, told, phone, ghosts>>
    BY <1>0, <2>2, OpForms, Words DEF TypeOK, Goto, phone
  <2> QED
    BY <1>5, <2>1, <2>2 DEF Extract
<1>6. ASSUME NEW t \in Threads, WriteConfig(t) PROVE TypeOK'
  BY <1>0, <1>6, OpForms, Words DEF TypeOK, WriteConfig, Goto
<1>7. ASSUME NEW t \in Threads, Test(t) PROVE TypeOK'
  <2>1. CASE StartFails(t)
    BY <2>1, StartFailsTypes
  <2>2. CASE ~Writing
    <3>1. op' \in [Threads -> Ops]
      BY <1>0, <1>7, <2>2, OpForms, Words DEF Test, Goto
    <3>2. [shell EXCEPT ![t] = [pc |-> "ip", addr |-> op[t].addr, code |-> 0]]
            \in [Threads -> Shells]
      BY <1>0, <1>b, ShellForms, Words
    <3>3. shell' \in [Threads -> Shells]
      BY <1>7, <2>2, <3>2 DEF Test
    <3> QED
      BY <1>0, <1>7, <2>2, <3>1, <3>3 DEF TypeOK, Test
  <2> QED
    BY <1>7, <2>1, <2>2 DEF Test
<1>8. ASSUME NEW t \in Threads, Confirm(t) PROVE TypeOK'
  <2>1. CASE StartFails(t)
    BY <2>1, StartFailsTypes
  <2>2. CASE Goto(t, "save") /\ UNCHANGED <<screen, mode, session, told, phone, ghosts>>
    BY <1>0, <2>2, OpForms, Words DEF TypeOK, Goto, phone
  <2> QED
    BY <1>8, <2>1, <2>2 DEF Confirm
<1>9. ASSUME NEW t \in Threads, SaveSession(t) PROVE TypeOK'
  <2>1. op' \in [Threads -> Ops] /\ shell' \in [Threads -> Shells] /\ screen' \in Screens
    BY <1>9, FinishTypes DEF SaveSession
  <2>2. session' \in [memory : Addrs, disk : Addrs]
    BY <1>0, <1>9, <1>b DEF SaveSession
  <2> QED
    BY <1>0, <1>9, <2>1, <2>2 DEF TypeOK, SaveSession
<1>10. ASSUME NEW t \in Threads, StopPxe(t) PROVE TypeOK'
  <2>1. op' \in [Threads -> Ops]
    BY <1>0, <1>10, OpForms, Words DEF StopPxe, Goto
  <2>2. /\ [shell EXCEPT ![t] = [pc |-> "kill", addr |-> session.memory, code |-> 0]]
              \in [Threads -> Shells]
        /\ [shell EXCEPT ![t] = [pc |-> "done", addr |-> None, code |-> 1]]
              \in [Threads -> Shells]
    BY <1>0, <1>c, ShellForms, Words
  <2>3. shell' \in [Threads -> Shells]
    BY <1>10, <2>2 DEF StopPxe
  <2> QED
    BY <1>0, <1>10, <2>1, <2>3 DEF TypeOK, StopPxe
<1>11. ASSUME NEW t \in Threads, Stopped(t) PROVE TypeOK'
  <2>1. op' \in [Threads -> Ops] /\ shell' \in [Threads -> Shells] /\ screen' \in Screens
    BY <1>11, FinishTypes DEF Stopped
  <2> QED
    BY <1>0, <1>11, <2>1 DEF TypeOK, Stopped, End
<1>12. ASSUME NEW t \in Threads, NotStopped(t) PROVE TypeOK'
  <2>1. op' \in [Threads -> Ops] /\ shell' \in [Threads -> Shells] /\ screen' \in Screens
    BY <1>12, FinishTypes DEF NotStopped
  <2>2. mode' \in [shown : BOOLEAN, stopping : BOOLEAN]
    BY <1>0, <1>12, <1>a DEF NotStopped, Begin
  <2> QED
    BY <1>0, <1>12, <2>1, <2>2 DEF TypeOK, NotStopped
<1>13. ASSUME NEW t \in Threads, IpReplace(t) PROVE TypeOK'
  <2>0. /\ [shell EXCEPT ![t].pc = "rmOld"] \in [Threads -> Shells]
        /\ [shell EXCEPT ![t].pc = "done", ![t].code = 1] \in [Threads -> Shells]
    BY <1>0, ShellForms, Words
  <2>1. shell' \in [Threads -> Shells]
    BY <1>13, <2>0 DEF IpReplace, ShellGoes, ShellEnds
  <2>2. onIface' \subseteq Addrs
    BY <1>0, <1>13, <1>b DEF IpReplace
  <2> QED
    BY <1>0, <1>13, <2>1, <2>2 DEF TypeOK, IpReplace, app
<1>14. ASSUME NEW t \in Threads, RemoveOld(t) PROVE TypeOK'
  BY <1>0, <1>14, ShellForms, Words DEF TypeOK, RemoveOld, ShellGoes, app
<1>15. ASSUME NEW t \in Threads, Exec(t) PROVE TypeOK'
  <2>0. /\ [shell EXCEPT ![t].pc = "server"] \in [Threads -> Shells]
        /\ [shell EXCEPT ![t].pc = "done", ![t].code = 1] \in [Threads -> Shells]
    BY <1>0, ShellForms, Words
  <2>1. shell' \in [Threads -> Shells]
    BY <1>15, <2>0 DEF Exec, ShellGoes, ShellEnds
  <2>a. \A p \in Pids : [server EXCEPT ![p] = [pc |-> "load", term |-> FALSE, shell |-> t]]
                          \in [Pids -> Servers]
    BY <1>0, ServerForms
  <2>b. \/ server' = server
        \/ \E p \in Pids :
             server' = [server EXCEPT ![p] = [pc |-> "load", term |-> FALSE, shell |-> t]]
    BY <1>15 DEF Exec
  <2>2. server' \in [Pids -> Servers]
    BY <1>0, <2>a, <2>b
  <2> QED
    BY <1>0, <1>15, <2>1, <2>2 DEF TypeOK, Exec, app
<1>16. ASSUME NEW t \in Threads, Kill(t) PROVE TypeOK'
  <2>1. \A u \in Threads : /\ [shell[u] EXCEPT !.pc = "rm"] \in Shells
                           /\ [shell[u] EXCEPT !.pc = "done"] \in Shells
    BY <1>0, Words DEF Shells
  <2>2. shell' \in [Threads -> Shells]
    BY <1>0, <1>16, <2>1 DEF Kill
  <2>3. server' \in [Pids -> Servers]
    <3>1. CASE pidFile = None
      BY <1>0, <1>16, <3>1 DEF Kill
    <3>2. CASE pidFile # None
      <4>1. pidFile \in Pids /\ server' = Killed(pidFile)
        BY <1>0, <1>16, <3>2 DEF Kill
      <4> QED
        BY <1>0, <4>1, ServerForms, Words DEF Killed
    <3> QED
      BY <3>1, <3>2
  <2> QED
    BY <1>0, <1>16, <2>2, <2>3 DEF TypeOK, Kill, app
<1>17. ASSUME NEW t \in Threads, RemoveFile(t) PROVE TypeOK'
  BY <1>0, <1>17, ShellForms, Words DEF TypeOK, RemoveFile, ShellGoes, app
<1>18. ASSUME NEW t \in Threads, IpDelete(t) PROVE TypeOK'
  BY <1>0, <1>18, ShellForms, Words DEF TypeOK, IpDelete, ShellEnds, app
<1>19. CASE Look
  <2>1. op' \in [Threads -> Ops]
    <3>1. \A t \in Threads : [op[t] EXCEPT !.mine = FALSE] \in Ops
      BY <1>0 DEF Ops
    <3> QED
      BY <1>19, <3>1 DEF Look
  <2>2. screen' \in Screens
    BY <1>0, <1>19, ScreenForms DEF Look, IsPxeRunning
  <2> QED
    BY <1>0, <1>19, <2>1, <2>2 DEF TypeOK, Look, phone
<1>20. CASE Show
  <2>1. screen' \in Screens
    BY <1>0, <1>20, ScreenForms DEF Show
  <2>2. mode' \in [shown : BOOLEAN, stopping : BOOLEAN]
    BY <1>0, <1>20, <1>a DEF Show, Begin
  <2> QED
    BY <1>0, <1>20, <2>1, <2>2 DEF TypeOK, Show, phone
<1>21. CASE Persist
  BY <1>0, <1>21 DEF TypeOK, Persist, phone
<1>22. ASSUME NEW p \in Pids, Load(p) PROVE TypeOK'
  <2>1. server[p].shell \in Threads
    BY <1>22 DEF Parents, Load, Starting
  <2>2. CASE GivesUp(p)
    BY <2>1, <2>2, GivesUpTypes
  <2>3. CASE ServerGoes(p, "forked") /\ UNCHANGED <<app, shell, config, pidFile, onIface, ghosts>>
    BY <1>0, <2>3, ServerForms, Words DEF TypeOK, ServerGoes, app
  <2> QED
    BY <1>22, <2>2, <2>3 DEF Load
<1>23. ASSUME NEW p \in Pids, Unlink(p) PROVE TypeOK'
  BY <1>0, <1>23, ServerForms, Words DEF TypeOK, Unlink, ServerGoes, app
<1>24. ASSUME NEW p \in Pids, WritePid(p) PROVE TypeOK'
  <2>1. server[p].shell \in Threads
    BY <1>24 DEF Parents, WritePid, Starting
  <2>2. CASE GivesUp(p)
    BY <2>1, <2>2, GivesUpTypes
  <2>3. CASE /\ pidFile' = p /\ ServerGoes(p, "written")
             /\ UNCHANGED <<app, shell, config, onIface>>
    BY <1>0, <2>3, ServerForms, Words DEF TypeOK, ServerGoes, app
  <2> QED
    BY <1>24, <2>2, <2>3 DEF WritePid
<1>25. ASSUME NEW p \in Pids, Release(p) PROVE TypeOK'
  <2>1. server[p].shell \in Threads
    BY <1>25 DEF Parents, Release, Starting
  <2>2. CASE GivesUp(p)
    BY <2>1, <2>2, GivesUpTypes
  <2>3. CASE /\ ServerGoes(p, "ready") /\ Parent(p, 0)
             /\ UNCHANGED <<app, config, pidFile, onIface, ghosts>>
    <3>1. server' \in [Pids -> Servers]
      BY <1>0, <2>3, ServerForms, Words DEF ServerGoes
    <3>2. shell' \in [Threads -> Shells]
      BY <1>0, <2>1, <2>3, ShellForms, Words DEF Parent, ShellEnds
    <3> QED
      BY <1>0, <2>3, <3>1, <3>2 DEF TypeOK, app
  <2> QED
    BY <1>25, <2>2, <2>3 DEF Release
<1>26. ASSUME NEW p \in Pids, Terminate(p) PROVE TypeOK'
  BY <1>0, <1>26, ServerForms, Words DEF TypeOK, Terminate, ServerGoes, app
<1>27. ASSUME NEW p \in Pids, Exit(p) \/ Crash(p) \/ Reuse(p) PROVE TypeOK'
  <2>1. /\ server' = [server EXCEPT ![p].pc = "gone"] \/ server' = [server EXCEPT ![p].pc = "other"]
        /\ UNCHANGED <<app, shell, config, pidFile, onIface>>
    BY <1>27 DEF Exit, Crash, Reuse, ServerGoes
  <2>a. /\ [server EXCEPT ![p].pc = "gone"] \in [Pids -> Servers]
        /\ [server EXCEPT ![p].pc = "other"] \in [Pids -> Servers]
    BY <1>0, ServerForms, Words
  <2>2. server' \in [Pids -> Servers]
    BY <2>1, <2>a
  <2> QED
    BY <1>0, <2>1, <2>2 DEF TypeOK, app
<1>28. CASE Death \/ Reboot
  <2>1. /\ op' \in [Threads -> Ops] /\ screen' \in Screens
        /\ mode' \in [shown : BOOLEAN, stopping : BOOLEAN]
        /\ session' \in [memory : Addrs, disk : Addrs]
    <3>1. NoOp \in Ops
      BY DEF NoOp, Ops, Pcs, Addrs
    <3>2. AppGone
      BY <1>28 DEF Death, Reboot
    <3>3. screen' \in Screens
      BY <1>0, <3>2, ScreenForms DEF AppGone
    <3>4. session' \in [memory : Addrs, disk : Addrs]
      BY <1>0, <1>c, <3>2 DEF AppGone
    <3> QED
      BY <3>1, <3>2, <3>3, <3>4 DEF AppGone
  <2>2. CASE Death
    BY <1>0, <2>1, <2>2 DEF TypeOK, Death, phone
  <2>3. CASE Reboot
    <3>1. NoShell \in Shells
      BY DEF NoShell, Shells, ShellPcs, Addrs
    <3>2. \A p \in Pids : [server[p] EXCEPT !.pc = "gone"] \in Servers
      BY <1>0, Words DEF Servers
    <3>3. server' \in [Pids -> Servers]
      BY <1>0, <2>3, <3>2 DEF Reboot
    <3> QED
      BY <1>0, <2>1, <2>3, <3>1, <3>3 DEF TypeOK, Reboot
  <2> QED
    BY <1>28, <2>2, <2>3
<1>29. CASE UNCHANGED vars
  BY <1>29 DEF TypeOK, vars
<1> QED
  BY <1>1, <1>2, <1>3, <1>4, <1>5, <1>6, <1>7, <1>8, <1>9, <1>10, <1>11, <1>12, <1>13, <1>14,
     <1>15, <1>16, <1>17, <1>18, <1>19, <1>20, <1>21, <1>22, <1>23, <1>24, <1>25, <1>26, <1>27,
     <1>28, <1>29 DEF Next, ThreadStep, ShellStep, ServerStep

-----------------------------------------------------------------------------
(* One thread, one server                                                  *)

\* A stop's signal: no server is on its way, and the one that is up is told
\* to end.
LEMMA KillFacts ==
  ASSUME TypeOK, Alone, NEW t \in Threads, Kill(t)
  PROVE  /\ \A p \in Pids : server[p].pc \notin Starting
         /\ shell[t].pc = "kill" /\ shell' = [shell EXCEPT ![t].pc = "rm"]
         /\ Up' = {}
         /\ \A p \in Pids : /\ server'[p].pc = server[p].pc /\ server'[p].shell = server[p].shell
                            /\ server'[p].term => server[p].term \/ p = pidFile
<1>0. /\ shell \in [Threads -> Shells] /\ server \in [Pids -> Servers]
      /\ pidFile \in Pids \cup {None}
  BY DEF TypeOK
<1>1. ASSUME NEW p \in Pids PROVE server[p].pc \notin Starting
  <2> SUFFICES ASSUME server[p].pc \in Starting PROVE FALSE
    OBVIOUS
  <2>1. server[p].shell \in Threads /\ shell[server[p].shell].pc = "server"
    BY DEF Alone, Parents
  <2>2. InFlight(t) /\ InFlight(server[p].shell) /\ t # server[p].shell
    BY <2>1 DEF InFlight, Kill, ShellAt
  <2> QED
    BY <2>1, <2>2 DEF Alone, OneThread
<1>2. shell[t].pc = "kill" /\ shell' = [shell EXCEPT ![t].pc = "rm"]
  <2>1. shell' = [u \in Threads |-> IF u = t THEN [shell[u] EXCEPT !.pc = "rm"] ELSE shell[u]]
    BY <1>0, <1>1 DEF Kill
  <2> QED
    BY <1>0, <2>1 DEF Kill, ShellAt
<1>3. CASE pidFile = None \/ server[pidFile].pc # "ready"
  <2>1. server' = server
    BY <1>0, <1>1, <1>3 DEF Kill, Killed
  <2>2. Up = {}
    BY <1>3 DEF Alone, Named, Up, Pids, None
  <2> QED
    BY <1>1, <1>2, <2>1, <2>2 DEF Up
<1>4. CASE pidFile # None /\ server[pidFile].pc = "ready"
  <2>1. server' = [server EXCEPT ![pidFile].term = TRUE]
    BY <1>0, <1>1, <1>4 DEF Kill, Killed
  <2>2. \A p \in Pids : /\ server'[p].pc = server[p].pc /\ server'[p].shell = server[p].shell
                        /\ server'[p].term = (server[p].term \/ p = pidFile)
    BY <1>0, <1>4, <2>1 DEF Servers
  <2>3. Up' = {}
    BY <2>2 DEF Alone, Named, Up
  <2> QED
    BY <1>1, <1>2, <2>2, <2>3
<1> QED
  BY <1>0, <1>3, <1>4

\* Where no server is on its way and no stop is half done, isPxeRunning tells
\* whether there is a server, if none has crashed.
LEMMA RunningMeansUp ==
  ASSUME TypeOK, Alone, \A t \in Threads : shell[t].pc \notin {"server", "rm"}
  PROVE  /\ Up # {} => IsPxeRunning
         /\ "crash" \notin events /\ IsPxeRunning => Up # {}
<1>0. pidFile \in Pids \cup {None} /\ server \in [Pids -> Servers]
  BY DEF TypeOK
<1>1. ASSUME Up # {} PROVE IsPxeRunning
  <2>1. PICK p \in Up : TRUE
    BY <1>1
  <2>2. p \in Pids /\ pidFile = p /\ Live(p)
    BY <2>1 DEF Up, Alone, Named, Live
  <2> QED
    BY <2>2 DEF IsPxeRunning, Pids, None
<1>2. ASSUME "crash" \notin events, IsPxeRunning PROVE Up # {}
  <2>1. pidFile \in Pids /\ server[pidFile].pc \in {"written", "ready"}
    BY <1>0, <1>2 DEF IsPxeRunning, Alone, NameHolds
  <2>2. server[pidFile].pc # "written"
    BY <2>1 DEF Alone, Parents, Starting
  <2>3. ~server[pidFile].term
    BY <1>2, <2>1 DEF IsPxeRunning, Alone, NameHolds
  <2> QED
    BY <2>1, <2>2, <2>3 DEF Up
<1> QED
  BY <1>1, <1>2

\* What an operation is at goes with what its shell is at.
LEMMA FitsStep == TypeOK /\ Alone /\ ~MayOverlap /\ [Next]_vars => Fits'
<1> SUFFICES ASSUME TypeOK, Alone, ~MayOverlap, [Next]_vars PROVE Fits'
  OBVIOUS
<1>0. /\ op \in [Threads -> Ops] /\ shell \in [Threads -> Shells]
      /\ server \in [Pids -> Servers]
  BY DEF TypeOK
<1>1. CASE UNCHANGED <<op, shell>>
  BY <1>1 DEF Shells, Alone, Fits
<1>2. ASSUME NEW p \in Pids,
             Unlink(p) \/ Terminate(p) \/ Exit(p) \/ Crash(p) \/ Reuse(p)
      PROVE  UNCHANGED <<op, shell>>
  BY <1>2 DEF Unlink, ServerGoes, app, Terminate, Exit, Crash, Reuse
<1>3. ASSUME Show \/ Persist
      PROVE  UNCHANGED <<op, shell>>
  BY <1>3 DEF Show, Begin, phone, Persist
<1>4. ASSUME NEW t \in Threads, TapStart(t) PROVE Fits'
  BY <1>4, <1>0 DEF TapStart, Tap, Begin, phone, Alone, Fits, InFlight
<1>5. ASSUME NEW t \in Threads, TapStop(t) PROVE Fits'
  BY <1>5, <1>0 DEF TapStop, Tap, phone, Alone, Fits, InFlight
<1>6. ASSUME NEW t \in Threads, TapHook(t) PROVE Fits'
  BY <1>6, <1>0 DEF TapHook, Tap, phone, Alone, Fits, InFlight
<1>7. ASSUME NEW t \in Threads, Prepare(t) PROVE Fits'
  <2>0. op[t].kind = "start" /\ op[t].pc = "begun"
    BY <1>7 DEF Prepare
  <2>1. CASE Fault({}) /\ StartFails(t)
    BY <2>0, <2>1, <1>0 DEF StartFails, Finish, End, NoOp, Alone, Fits
  <2>2. CASE Goto(t, "extract") /\ UNCHANGED <<screen, mode, session, told, phone, ghosts>>
    BY <2>0, <2>2, <1>0 DEF Goto, phone, Alone, Fits
  <2> QED
    BY <1>7, <2>1, <2>2 DEF Prepare
<1>8. ASSUME NEW t \in Threads, Extract(t) PROVE Fits'
  <2>0. op[t].kind = "start" /\ op[t].pc = "extract"
    BY <1>8 DEF Extract
  <2>1. CASE BinaryBusy /\ StartFails(t) /\ UNCHANGED ghosts
    BY <2>0, <2>1, <1>0 DEF StartFails, Finish, End, NoOp, Alone, Fits
  <2>2. CASE /\ ~BinaryBusy /\ Goto(t, "writing")
             /\ UNCHANGED <<screen, mode, session, told, phone, ghosts>>
    BY <2>0, <2>2, <1>0 DEF Goto, phone, Alone, Fits
  <2> QED
    BY <1>8, <2>1, <2>2 DEF Extract
<1>9. ASSUME NEW t \in Threads, WriteConfig(t) PROVE Fits'
  BY <1>9, <1>0 DEF WriteConfig, Goto, Alone, Fits
<1>10. ASSUME NEW t \in Threads, Test(t) PROVE Fits'
  <2>0. op[t].pc = "testing"
    BY <1>10 DEF Test
  <2>1. CASE StartFails(t) /\ UNCHANGED ghosts
    BY <2>0, <2>1, <1>0 DEF StartFails, Finish, End, NoOp, Alone, Fits
  <2>2. CASE /\ Goto(t, "launched")
             /\ shell' = [shell EXCEPT ![t] = [pc |-> "ip", addr |-> op[t].addr, code |-> 0]]
             /\ UNCHANGED <<screen, mode, session, told, config, pidFile, onIface, server,
                            ghosts>>
    BY <2>0, <2>2, <1>0 DEF Goto, Alone, Fits
  <2> QED
    BY <1>10, <2>1, <2>2 DEF Test
<1>11. ASSUME NEW t \in Threads, Confirm(t) PROVE Fits'
  <2>0. op[t].pc = "launched" /\ shell[t].pc = "done"
    BY <1>11 DEF Confirm
  <2>1. CASE /\ shell[t].code # 0 \/ ~IsPxeRunning
             /\ StartFails(t) /\ events' = events \cup {"failed"}
    BY <2>0, <2>1, <1>0 DEF StartFails, Finish, End, NoOp, Alone, Fits
  <2>2. CASE Fault({"failed", "denied"}) /\ StartFails(t)
    BY <2>0, <2>2, <1>0 DEF StartFails, Finish, End, NoOp, Alone, Fits
  <2>3. CASE /\ shell[t].code = 0 /\ IsPxeRunning /\ Goto(t, "save")
             /\ UNCHANGED <<screen, mode, session, told, phone, ghosts>>
    BY <2>0, <2>3, <1>0 DEF Goto, phone, Alone, Fits
  <2> QED
    BY <1>11, <2>1, <2>2, <2>3 DEF Confirm
<1>12. ASSUME NEW t \in Threads, SaveSession(t) PROVE Fits'
  BY <1>12, <1>0 DEF SaveSession, Finish, NoOp, Alone, Fits
<1>13. ASSUME NEW t \in Threads, StopPxe(t) PROVE Fits'
  <2>0. op[t].kind \in {"stop", "hook"} /\ op[t].pc = "begun" /\ Goto(t, "stopping")
    BY <1>13 DEF StopPxe
  <2>1. CASE /\ shell' = [shell EXCEPT ![t] = [pc |-> "kill", addr |-> session.memory, code |-> 0]]
             /\ UNCHANGED ghosts
             /\ UNCHANGED <<screen, mode, session, told, config, pidFile, onIface, server>>
    BY <2>0, <2>1, <1>0 DEF Goto, Alone, Fits
  <2>2. CASE /\ shell' = [shell EXCEPT ![t] = [pc |-> "done", addr |-> None, code |-> 1]]
             /\ Fault({})
             /\ UNCHANGED <<screen, mode, session, told, config, pidFile, onIface, server>>
    BY <2>0, <2>2, <1>0 DEF Goto, Alone, Fits
  <2> QED
    BY <1>13, <2>1, <2>2 DEF StopPxe
<1>14. ASSUME NEW t \in Threads, Stopped(t) PROVE Fits'
  BY <1>14, <1>0 DEF Stopped, Finish, End, NoOp, Alone, Fits
<1>15. ASSUME NEW t \in Threads, NotStopped(t) PROVE Fits'
  <2>0. /\ op[t].pc = "stopping" /\ shell[t].pc = "done" /\ shell[t].code # 0
        /\ Finish(t, "not stopped", "running")
        /\ UNCHANGED <<session, config, pidFile, onIface, server, ghosts>>
    BY <1>15 DEF NotStopped
  <2>1. CASE op[t].kind = "hook" /\ Begin
    BY <2>0, <2>1, <1>0 DEF Finish, Begin, NoOp, Alone, Fits
  <2>2. CASE op[t].kind # "hook" /\ UNCHANGED mode
    BY <2>0, <2>2, <1>0 DEF Finish, NoOp, Alone, Fits
  <2> QED
    BY <1>15, <2>1, <2>2 DEF NotStopped
<1>16. ASSUME NEW t \in Threads, IpReplace(t) PROVE Fits'
  <2>0. shell[t].pc = "ip" /\ UNCHANGED <<app, config, pidFile, server>>
    BY <1>16 DEF IpReplace, ShellAt
  <2>1. CASE Fault({}) /\ ShellEnds(t, 1) /\ UNCHANGED onIface
    BY <2>0, <2>1, <1>0 DEF ShellEnds, app, Alone, Fits
  <2>2. CASE /\ onIface' = onIface \cup {shell[t].addr}
             /\ ShellGoes(t, "rmOld") /\ UNCHANGED ghosts
    BY <2>0, <2>2, <1>0 DEF ShellGoes, app, Alone, Fits
  <2> QED
    BY <1>16, <2>1, <2>2 DEF IpReplace, ShellAt
<1>17. ASSUME NEW t \in Threads, RemoveOld(t) PROVE Fits'
  BY <1>17, <1>0 DEF RemoveOld, ShellAt, ShellGoes, app, Alone, Fits
<1>18. ASSUME NEW t \in Threads, Exec(t) PROVE Fits'
  <2>0. shell[t].pc = "exec" /\ UNCHANGED <<app, config, pidFile, onIface, ghosts>>
    BY <1>18 DEF Exec, ShellAt, Writing
  <2>1. CASE ShellEnds(t, 1) /\ UNCHANGED server
    BY <2>0, <2>1, <1>0 DEF ShellEnds, app, Alone, Fits
  <2>2. CASE \E p \in Pids :
             /\ server[p].pc = "off"
             /\ server' = [server EXCEPT ![p] = [pc |-> "load", term |-> FALSE, shell |-> t]]
             /\ ShellGoes(t, "server")
    BY <2>0, <2>2, <1>0 DEF ShellGoes, app, Alone, Fits
  <2> QED
    BY <1>18, <2>1, <2>2 DEF Exec, ShellAt, Writing
<1>19. ASSUME NEW t \in Threads, Kill(t) PROVE Fits'
  BY <1>19, <1>0 DEF Kill, ShellAt, Killed, app, Alone, Fits
<1>20. ASSUME NEW t \in Threads, RemoveFile(t) PROVE Fits'
  BY <1>20, <1>0 DEF RemoveFile, ShellAt, ShellGoes, app, Alone, Fits
<1>21. ASSUME NEW t \in Threads, IpDelete(t) PROVE Fits'
  BY <1>21, <1>0 DEF IpDelete, ShellAt, ShellEnds, app, Alone, Fits
<1>22. CASE Look
  BY <1>22, <1>0 DEF Look, Early, phone, Ops, Alone, Fits
<1>23. ASSUME NEW p \in Pids, Load(p) PROVE Fits'
  <2>0. server[p].pc = "load" /\ events \subseteq events'
    BY <1>23 DEF Load, Fault, ghosts, GivesUp
  <2>1. CASE GivesUp(p)
    BY <2>0, <2>1, <1>0 DEF GivesUp, ServerGoes, Parent, ShellEnds, app, Alone, Fits
  <2>2. CASE ServerGoes(p, "forked") /\ UNCHANGED <<app, shell, config, pidFile, onIface, ghosts>>
    BY <2>0, <2>2, <1>0 DEF ServerGoes, app, Alone, Fits
  <2> QED
    BY <1>23, <2>1, <2>2 DEF Load, Fault, GivesUp
<1>24. ASSUME NEW p \in Pids, WritePid(p) PROVE Fits'
  <2>0. server[p].pc = "unlinked" /\ UNCHANGED ghosts
    BY <1>24 DEF WritePid
  <2>1. CASE GivesUp(p) /\ pidFile # None
    BY <2>0, <2>1, <1>0 DEF GivesUp, ServerGoes, Parent, ShellEnds, app, Alone, Fits
  <2>2. CASE /\ pidFile = None /\ pidFile' = p /\ ServerGoes(p, "written")
             /\ UNCHANGED <<app, shell, config, onIface>>
    BY <2>0, <2>2, <1>0 DEF ServerGoes, app, Alone, Fits
  <2> QED
    BY <1>24, <2>1, <2>2 DEF WritePid
<1>25. ASSUME NEW p \in Pids, Release(p) PROVE Fits'
  <2>0. server[p].pc = "written"
    BY <1>25 DEF Release, Fault, GivesUp
  <2>1. CASE GivesUp(p) /\ Fault({"crash"})
    BY <2>0, <2>1, <1>0 DEF GivesUp, ServerGoes, Parent, ShellEnds, app, Alone, Fits
  <2>2. CASE /\ ServerGoes(p, "ready") /\ Parent(p, 0)
             /\ UNCHANGED <<app, config, pidFile, onIface, ghosts>>
    BY <2>0, <2>2, <1>0 DEF ServerGoes, Parent, ShellEnds, app, Alone, Fits
  <2> QED
    BY <1>25, <2>1, <2>2 DEF Release, Fault, GivesUp
<1>26. CASE Death
  BY <1>26, <1>0 DEF Death, AppGone, NoOp, Fits
<1>27. CASE Reboot
  BY <1>27, <1>0 DEF Reboot, AppGone, NoOp, Fits
<1>28. CASE UNCHANGED vars
  BY <1>1, <1>28 DEF vars
<1> QED
  BY <1>1, <1>2, <1>3, <1>4, <1>5, <1>6, <1>7, <1>8, <1>9, <1>10, <1>11, <1>12, <1>13, <1>14,
     <1>15, <1>16, <1>17, <1>18, <1>19, <1>20, <1>21, <1>22, <1>23, <1>24, <1>25, <1>26, <1>27,
     <1>28 DEF Next, ThreadStep, ShellStep, ServerStep

\* Operations are begun one after the other; the shell of one that is lost
\* with the application counts until it is done.
LEMMA OneThreadStep == TypeOK /\ Alone /\ ~MayOverlap /\ [Next]_vars => OneThread'
<1> SUFFICES ASSUME TypeOK, Alone, ~MayOverlap, [Next]_vars PROVE OneThread'
  OBVIOUS
<1>0. /\ op \in [Threads -> Ops] /\ shell \in [Threads -> Shells]
      /\ server \in [Pids -> Servers]
  BY DEF TypeOK
<1>1. CASE UNCHANGED <<op, shell>>
  BY <1>1 DEF Alone, OneThread, InFlight
<1>2. ASSUME NEW p \in Pids,
             Unlink(p) \/ Terminate(p) \/ Exit(p) \/ Crash(p) \/ Reuse(p)
      PROVE  UNCHANGED <<op, shell>>
  BY <1>2 DEF Unlink, ServerGoes, app, Terminate, Exit, Crash, Reuse
<1>3. ASSUME Show \/ Persist
      PROVE  UNCHANGED <<op, shell>>
  BY <1>3 DEF Show, Begin, phone, Persist
<1>4. ASSUME NEW t \in Threads, TapStart(t) PROVE OneThread'
  BY <1>4, <1>0 DEF TapStart, Tap, Begin, phone, OneThread, InFlight
<1>5. ASSUME NEW t \in Threads, TapStop(t) PROVE OneThread'
  BY <1>5, <1>0 DEF TapStop, Tap, phone, OneThread, InFlight
<1>6. ASSUME NEW t \in Threads, TapHook(t) PROVE OneThread'
  BY <1>6, <1>0 DEF TapHook, Tap, phone, OneThread, InFlight
<1>7. ASSUME NEW t \in Threads, Prepare(t) PROVE OneThread'
  <2>0. op[t].kind = "start" /\ op[t].pc = "begun"
    BY <1>7 DEF Prepare
  <2>1. CASE Fault({}) /\ StartFails(t)
    BY <2>0, <2>1, <1>0 DEF StartFails, Finish, End, Alone, OneThread, InFlight
  <2>2. CASE Goto(t, "extract") /\ UNCHANGED <<screen, mode, session, told, phone, ghosts>>
    BY <2>0, <2>2, <1>0 DEF Goto, phone, Alone, OneThread, InFlight
  <2> QED
    BY <1>7, <2>1, <2>2 DEF Prepare
<1>8. ASSUME NEW t \in Threads, Extract(t) PROVE OneThread'
  <2>0. op[t].kind = "start" /\ op[t].pc = "extract"
    BY <1>8 DEF Extract
  <2>1. CASE BinaryBusy /\ StartFails(t) /\ UNCHANGED ghosts
    BY <2>0, <2>1, <1>0 DEF StartFails, Finish, End, Alone, OneThread, InFlight
  <2>2. CASE /\ ~BinaryBusy /\ Goto(t, "writing")
             /\ UNCHANGED <<screen, mode, session, told, phone, ghosts>>
    BY <2>0, <2>2, <1>0 DEF Goto, phone, Alone, OneThread, InFlight
  <2> QED
    BY <1>8, <2>1, <2>2 DEF Extract
<1>9. ASSUME NEW t \in Threads, WriteConfig(t) PROVE OneThread'
  BY <1>9, <1>0 DEF WriteConfig, Goto, Alone, OneThread, InFlight
<1>10. ASSUME NEW t \in Threads, Test(t) PROVE OneThread'
  <2>0. op[t].pc = "testing"
    BY <1>10 DEF Test
  <2>1. CASE StartFails(t) /\ UNCHANGED ghosts
    BY <2>0, <2>1, <1>0 DEF StartFails, Finish, End, Alone, OneThread, InFlight
  <2>2. CASE /\ Goto(t, "launched")
             /\ shell' = [shell EXCEPT ![t] = [pc |-> "ip", addr |-> op[t].addr, code |-> 0]]
             /\ UNCHANGED <<screen, mode, session, told, config, pidFile, onIface, server,
                            ghosts>>
    BY <2>0, <2>2, <1>0 DEF Goto, Alone, OneThread, InFlight
  <2> QED
    BY <1>10, <2>1, <2>2 DEF Test
<1>11. ASSUME NEW t \in Threads, Confirm(t) PROVE OneThread'
  <2>0. op[t].pc = "launched" /\ shell[t].pc = "done"
    BY <1>11 DEF Confirm
  <2>1. CASE /\ shell[t].code # 0 \/ ~IsPxeRunning
             /\ StartFails(t) /\ events' = events \cup {"failed"}
    BY <2>0, <2>1, <1>0 DEF StartFails, Finish, End, Alone, OneThread, InFlight
  <2>2. CASE Fault({"failed", "denied"}) /\ StartFails(t)
    BY <2>0, <2>2, <1>0 DEF StartFails, Finish, End, Alone, OneThread, InFlight
  <2>3. CASE /\ shell[t].code = 0 /\ IsPxeRunning /\ Goto(t, "save")
             /\ UNCHANGED <<screen, mode, session, told, phone, ghosts>>
    BY <2>0, <2>3, <1>0 DEF Goto, phone, Alone, OneThread, InFlight
  <2> QED
    BY <1>11, <2>1, <2>2, <2>3 DEF Confirm
<1>12. ASSUME NEW t \in Threads, SaveSession(t) PROVE OneThread'
  BY <1>12, <1>0 DEF SaveSession, Finish, Alone, OneThread, InFlight
<1>13. ASSUME NEW t \in Threads, StopPxe(t) PROVE OneThread'
  <2>0. op[t].kind \in {"stop", "hook"} /\ op[t].pc = "begun" /\ Goto(t, "stopping")
    BY <1>13 DEF StopPxe
  <2>1. CASE /\ shell' = [shell EXCEPT ![t] = [pc |-> "kill", addr |-> session.memory, code |-> 0]]
             /\ UNCHANGED ghosts
             /\ UNCHANGED <<screen, mode, session, told, config, pidFile, onIface, server>>
    BY <2>0, <2>1, <1>0 DEF Goto, Alone, OneThread, InFlight
  <2>2. CASE /\ shell' = [shell EXCEPT ![t] = [pc |-> "done", addr |-> None, code |-> 1]]
             /\ Fault({})
             /\ UNCHANGED <<screen, mode, session, told, config, pidFile, onIface, server>>
    BY <2>0, <2>2, <1>0 DEF Goto, Alone, OneThread, InFlight
  <2> QED
    BY <1>13, <2>1, <2>2 DEF StopPxe
<1>14. ASSUME NEW t \in Threads, Stopped(t) PROVE OneThread'
  BY <1>14, <1>0 DEF Stopped, Finish, End, Alone, OneThread, InFlight
<1>15. ASSUME NEW t \in Threads, NotStopped(t) PROVE OneThread'
  <2>0. /\ op[t].pc = "stopping" /\ shell[t].pc = "done" /\ shell[t].code # 0
        /\ Finish(t, "not stopped", "running")
        /\ UNCHANGED <<session, config, pidFile, onIface, server, ghosts>>
    BY <1>15 DEF NotStopped
  <2>1. CASE op[t].kind = "hook" /\ Begin
    BY <2>0, <2>1, <1>0 DEF Finish, Begin, Alone, OneThread, InFlight
  <2>2. CASE op[t].kind # "hook" /\ UNCHANGED mode
    BY <2>0, <2>2, <1>0 DEF Finish, Alone, OneThread, InFlight
  <2> QED
    BY <1>15, <2>1, <2>2 DEF NotStopped
<1>16. ASSUME NEW t \in Threads, IpReplace(t) PROVE OneThread'
  <2>0. shell[t].pc = "ip" /\ UNCHANGED <<app, config, pidFile, server>>
    BY <1>16 DEF IpReplace, ShellAt
  <2>1. CASE Fault({}) /\ ShellEnds(t, 1) /\ UNCHANGED onIface
    BY <2>0, <2>1, <1>0 DEF ShellEnds, app, Alone, OneThread, InFlight
  <2>2. CASE /\ onIface' = onIface \cup {shell[t].addr}
             /\ ShellGoes(t, "rmOld") /\ UNCHANGED ghosts
    BY <2>0, <2>2, <1>0 DEF ShellGoes, app, Alone, OneThread, InFlight
  <2> QED
    BY <1>16, <2>1, <2>2 DEF IpReplace, ShellAt
<1>17. ASSUME NEW t \in Threads, RemoveOld(t) PROVE OneThread'
  BY <1>17, <1>0 DEF RemoveOld, ShellAt, ShellGoes, app, Alone, OneThread, InFlight
<1>18. ASSUME NEW t \in Threads, Exec(t) PROVE OneThread'
  <2>0. shell[t].pc = "exec" /\ UNCHANGED <<app, config, pidFile, onIface, ghosts>>
    BY <1>18 DEF Exec, ShellAt, Writing
  <2>1. CASE ShellEnds(t, 1) /\ UNCHANGED server
    BY <2>0, <2>1, <1>0 DEF ShellEnds, app, Alone, OneThread, InFlight
  <2>2. CASE \E p \in Pids :
             /\ server[p].pc = "off"
             /\ server' = [server EXCEPT ![p] = [pc |-> "load", term |-> FALSE, shell |-> t]]
             /\ ShellGoes(t, "server")
    BY <2>0, <2>2, <1>0 DEF ShellGoes, app, Alone, OneThread, InFlight
  <2> QED
    BY <1>18, <2>1, <2>2 DEF Exec, ShellAt, Writing
<1>19. ASSUME NEW t \in Threads, Kill(t) PROVE OneThread'
  BY <1>19, <1>0 DEF Kill, ShellAt, Killed, app, Alone, OneThread, InFlight
<1>20. ASSUME NEW t \in Threads, RemoveFile(t) PROVE OneThread'
  BY <1>20, <1>0 DEF RemoveFile, ShellAt, ShellGoes, app, Alone, OneThread, InFlight
<1>21. ASSUME NEW t \in Threads, IpDelete(t) PROVE OneThread'
  BY <1>21, <1>0 DEF IpDelete, ShellAt, ShellEnds, app, Alone, OneThread, InFlight
<1>22. CASE Look
  BY <1>22, <1>0 DEF Look, Early, phone, Ops, Alone, OneThread, InFlight
<1>23. ASSUME NEW p \in Pids, Load(p) PROVE OneThread'
  <2>0. server[p].pc = "load" /\ events \subseteq events'
    BY <1>23 DEF Load, Fault, ghosts, GivesUp
  <2>1. CASE GivesUp(p)
    BY <2>0, <2>1, <1>0 DEF GivesUp, ServerGoes, Parent, ShellEnds, app, Alone, OneThread,
       InFlight
  <2>2. CASE ServerGoes(p, "forked") /\ UNCHANGED <<app, shell, config, pidFile, onIface, ghosts>>
    BY <2>0, <2>2, <1>0 DEF ServerGoes, app, Alone, OneThread, InFlight
  <2> QED
    BY <1>23, <2>1, <2>2 DEF Load, Fault, GivesUp
<1>24. ASSUME NEW p \in Pids, WritePid(p) PROVE OneThread'
  <2>0. server[p].pc = "unlinked" /\ UNCHANGED ghosts
    BY <1>24 DEF WritePid
  <2>1. CASE GivesUp(p) /\ pidFile # None
    BY <2>0, <2>1, <1>0 DEF GivesUp, ServerGoes, Parent, ShellEnds, app, Alone, OneThread,
       InFlight
  <2>2. CASE /\ pidFile = None /\ pidFile' = p /\ ServerGoes(p, "written")
             /\ UNCHANGED <<app, shell, config, onIface>>
    BY <2>0, <2>2, <1>0 DEF ServerGoes, app, Alone, OneThread, InFlight
  <2> QED
    BY <1>24, <2>1, <2>2 DEF WritePid
<1>25. ASSUME NEW p \in Pids, Release(p) PROVE OneThread'
  <2>0. server[p].pc = "written"
    BY <1>25 DEF Release, Fault, GivesUp
  <2>1. CASE GivesUp(p) /\ Fault({"crash"})
    BY <2>0, <2>1, <1>0 DEF GivesUp, ServerGoes, Parent, ShellEnds, app, Alone, OneThread,
       InFlight
  <2>2. CASE /\ ServerGoes(p, "ready") /\ Parent(p, 0)
             /\ UNCHANGED <<app, config, pidFile, onIface, ghosts>>
    BY <2>0, <2>2, <1>0 DEF ServerGoes, Parent, ShellEnds, app, Alone, OneThread, InFlight
  <2> QED
    BY <1>25, <2>1, <2>2 DEF Release, Fault, GivesUp
<1>26. CASE Death
  BY <1>26, <1>0 DEF Death, AppGone, phone, NoOp, Alone, OneThread, InFlight
<1>27. CASE Reboot
  BY <1>27, <1>0 DEF Reboot, AppGone, NoOp, NoShell, OneThread, InFlight
<1>28. CASE UNCHANGED vars
  BY <1>1, <1>28 DEF vars
<1> QED
  BY <1>1, <1>2, <1>3, <1>4, <1>5, <1>6, <1>7, <1>8, <1>9, <1>10, <1>11, <1>12, <1>13, <1>14,
     <1>15, <1>16, <1>17, <1>18, <1>19, <1>20, <1>21, <1>22, <1>23, <1>24, <1>25, <1>26, <1>27,
     <1>28 DEF Next, ThreadStep, ShellStep, ServerStep

\* A server is started only where none lives.
LEMMA OneServerStep == TypeOK /\ Alone /\ ~MayOverlap /\ [Next]_vars => OneServer'
<1> SUFFICES ASSUME TypeOK, Alone, ~MayOverlap, [Next]_vars PROVE OneServer'
  OBVIOUS
<1>0. /\ op \in [Threads -> Ops] /\ shell \in [Threads -> Shells]
      /\ server \in [Pids -> Servers]
  BY DEF TypeOK
<1>1. CASE UNCHANGED server
  BY <1>1 DEF Alone, OneServer, Live
<1>2. ASSUME NEW t \in Threads,
             \/ TapStart(t) \/ TapStop(t) \/ TapHook(t) \/ Prepare(t) \/ Extract(t)
             \/ WriteConfig(t) \/ Test(t) \/ Confirm(t) \/ SaveSession(t) \/ StopPxe(t)
             \/ Stopped(t) \/ NotStopped(t) \/ IpReplace(t) \/ RemoveOld(t)
             \/ RemoveFile(t) \/ IpDelete(t)
      PROVE  UNCHANGED server
  BY <1>2 DEF TapStart, Tap, Begin, phone, TapStop, TapHook, Prepare, Goto, StartFails, Finish,
     End, Extract, WriteConfig, Test, Confirm, SaveSession, StopPxe, Stopped, NotStopped,
     IpReplace, ShellAt, ShellGoes, ShellEnds, RemoveOld, RemoveFile, IpDelete
<1>3. ASSUME Look \/ Show \/ Persist \/ Death
      PROVE  UNCHANGED server
  BY <1>3 DEF Look, Early, phone, Show, Begin, Persist, Death, AppGone
<1>4. ASSUME NEW t \in Threads, Exec(t) PROVE OneServer'
  <2>0. shell[t].pc = "exec" /\ UNCHANGED <<app, config, pidFile, onIface, ghosts>>
    BY <1>4 DEF Exec, ShellAt, Writing
  <2>1. CASE ShellEnds(t, 1) /\ UNCHANGED server
    BY <2>0, <2>1, <1>0 DEF ShellEnds, Alone, OneServer, Live
  <2>2. CASE \E p \in Pids :
             /\ server[p].pc = "off"
             /\ server' = [server EXCEPT ![p] = [pc |-> "load", term |-> FALSE, shell |-> t]]
             /\ ShellGoes(t, "server")
    BY <2>0, <2>2, <1>0 DEF ShellGoes, Alone, OneServer, Live, NoneThere, Clear
  <2> QED
    BY <1>4, <2>1, <2>2 DEF Exec, ShellAt, Writing
<1>5. ASSUME NEW t \in Threads, Kill(t) PROVE OneServer'
  BY <1>5, <1>0 DEF Kill, ShellAt, Killed, Alone, OneServer, Live
<1>6. ASSUME NEW p \in Pids, Load(p) PROVE OneServer'
  <2>0. server[p].pc = "load" /\ events \subseteq events'
    BY <1>6 DEF Load, Fault, ghosts, GivesUp
  <2>1. CASE GivesUp(p)
    BY <2>0, <2>1, <1>0 DEF GivesUp, ServerGoes, Parent, ShellEnds, Alone, OneServer, Live,
       Starting
  <2>2. CASE ServerGoes(p, "forked") /\ UNCHANGED <<app, shell, config, pidFile, onIface, ghosts>>
    BY <2>0, <2>2, <1>0 DEF ServerGoes, Alone, OneServer, Live, Starting
  <2> QED
    BY <1>6, <2>1, <2>2 DEF Load, Fault, GivesUp
<1>7. ASSUME NEW p \in Pids, Unlink(p) PROVE OneServer'
  BY <1>7, <1>0 DEF Unlink, ServerGoes, Alone, OneServer, Live, Starting
<1>8. ASSUME NEW p \in Pids, WritePid(p) PROVE OneServer'
  <2>0. server[p].pc = "unlinked" /\ UNCHANGED ghosts
    BY <1>8 DEF WritePid
  <2>1. CASE GivesUp(p) /\ pidFile # None
    BY <2>0, <2>1, <1>0 DEF GivesUp, ServerGoes, Parent, ShellEnds, Alone, OneServer, Live,
       Starting
  <2>2. CASE /\ pidFile = None /\ pidFile' = p /\ ServerGoes(p, "written")
             /\ UNCHANGED <<app, shell, config, onIface>>
    BY <2>0, <2>2, <1>0 DEF ServerGoes, Alone, OneServer, Live, Starting
  <2> QED
    BY <1>8, <2>1, <2>2 DEF WritePid
<1>9. ASSUME NEW p \in Pids, Release(p) PROVE OneServer'
  <2>0. server[p].pc = "written"
    BY <1>9 DEF Release, Fault, GivesUp
  <2>1. CASE GivesUp(p) /\ Fault({"crash"})
    BY <2>0, <2>1, <1>0 DEF GivesUp, ServerGoes, Parent, ShellEnds, Alone, OneServer, Live,
       Starting
  <2>2. CASE /\ ServerGoes(p, "ready") /\ Parent(p, 0)
             /\ UNCHANGED <<app, config, pidFile, onIface, ghosts>>
    BY <2>0, <2>2, <1>0 DEF ServerGoes, Parent, ShellEnds, Alone, OneServer, Live, Starting
  <2> QED
    BY <1>9, <2>1, <2>2 DEF Release, Fault, GivesUp
<1>10. ASSUME NEW p \in Pids, Terminate(p) PROVE OneServer'
  BY <1>10, <1>0 DEF Terminate, ServerGoes, Alone, OneServer, Live
<1>11. ASSUME NEW p \in Pids, Exit(p) PROVE OneServer'
  BY <1>11, <1>0 DEF Exit, ServerGoes, Alone, OneServer, Live
<1>12. ASSUME NEW p \in Pids, Crash(p) PROVE OneServer'
  BY <1>12, <1>0 DEF Crash, ServerGoes, Alone, OneServer, Live
<1>13. ASSUME NEW p \in Pids, Reuse(p) PROVE OneServer'
  BY <1>13, <1>0 DEF Reuse, ServerGoes, Alone, OneServer, Live, Starting
<1>14. CASE Reboot
  BY <1>14, <1>0 DEF Reboot, AppGone, OneServer, Live, Starting
<1>15. CASE UNCHANGED vars
  BY <1>1, <1>15 DEF vars
<1> QED
  BY <1>1, <1>2, <1>3, <1>4, <1>5, <1>6, <1>7, <1>8, <1>9, <1>10, <1>11, <1>12, <1>13, <1>14,
     <1>15 DEF Next, ThreadStep, ShellStep, ServerStep

\* A server on its way has a shell that waits for it, and no signal comes.
LEMMA ParentsStep == TypeOK /\ Alone /\ ~MayOverlap /\ [Next]_vars => Parents'
<1> SUFFICES ASSUME TypeOK, Alone, ~MayOverlap, [Next]_vars PROVE Parents'
  OBVIOUS
<1>0. /\ op \in [Threads -> Ops] /\ shell \in [Threads -> Shells]
      /\ server \in [Pids -> Servers]
  BY DEF TypeOK
<1>1. CASE UNCHANGED <<server, shell>>
  BY <1>1 DEF Alone, Parents, Starting
<1>2. ASSUME NEW t \in Threads,
             TapStart(t) \/ TapStop(t) \/ TapHook(t) \/ WriteConfig(t)
      PROVE  UNCHANGED <<server, shell>>
  BY <1>2 DEF TapStart, Tap, Begin, phone, TapStop, TapHook, WriteConfig, Goto
<1>3. ASSUME Look \/ Show \/ Persist \/ Death
      PROVE  UNCHANGED <<server, shell>>
  BY <1>3 DEF Look, Early, phone, Show, Begin, Persist, Death, AppGone
<1>4. ASSUME NEW t \in Threads, Prepare(t) PROVE Parents'
  <2>0. op[t].kind = "start" /\ op[t].pc = "begun"
    BY <1>4 DEF Prepare
  <2>1. CASE Fault({}) /\ StartFails(t)
    BY <2>0, <2>1, <1>0 DEF StartFails, Finish, End, Alone, Fits, Parents
  <2>2. CASE Goto(t, "extract") /\ UNCHANGED <<screen, mode, session, told, phone, ghosts>>
    BY <2>0, <2>2, <1>0 DEF Goto, phone, Alone, Parents
  <2> QED
    BY <1>4, <2>1, <2>2 DEF Prepare
<1>5. ASSUME NEW t \in Threads, Extract(t) PROVE Parents'
  <2>0. op[t].kind = "start" /\ op[t].pc = "extract"
    BY <1>5 DEF Extract
  <2>1. CASE BinaryBusy /\ StartFails(t) /\ UNCHANGED ghosts
    BY <2>0, <2>1, <1>0 DEF StartFails, Finish, End, Alone, Fits, Parents
  <2>2. CASE /\ ~BinaryBusy /\ Goto(t, "writing")
             /\ UNCHANGED <<screen, mode, session, told, phone, ghosts>>
    BY <2>0, <2>2, <1>0 DEF Goto, phone, Alone, Parents
  <2> QED
    BY <1>5, <2>1, <2>2 DEF Extract
<1>6. ASSUME NEW t \in Threads, Test(t) PROVE Parents'
  <2>0. op[t].pc = "testing"
    BY <1>6 DEF Test
  <2>1. CASE StartFails(t) /\ UNCHANGED ghosts
    BY <2>0, <2>1, <1>0 DEF StartFails, Finish, End, Alone, Fits, Parents
  <2>2. CASE /\ Goto(t, "launched")
             /\ shell' = [shell EXCEPT ![t] = [pc |-> "ip", addr |-> op[t].addr, code |-> 0]]
             /\ UNCHANGED <<screen, mode, session, told, config, pidFile, onIface, server,
                            ghosts>>
    BY <2>0, <2>2, <1>0 DEF Goto, Alone, Fits, Parents
  <2> QED
    BY <1>6, <2>1, <2>2 DEF Test
<1>7. ASSUME NEW t \in Threads, Confirm(t) PROVE Parents'
  <2>0. op[t].pc = "launched" /\ shell[t].pc = "done"
    BY <1>7 DEF Confirm
  <2>1. CASE /\ shell[t].code # 0 \/ ~IsPxeRunning
             /\ StartFails(t) /\ events' = events \cup {"failed"}
    BY <2>0, <2>1, <1>0 DEF StartFails, Finish, End, Alone, Parents
  <2>2. CASE Fault({"failed", "denied"}) /\ StartFails(t)
    BY <2>0, <2>2, <1>0 DEF StartFails, Finish, End, Alone, Parents
  <2>3. CASE /\ shell[t].code = 0 /\ IsPxeRunning /\ Goto(t, "save")
             /\ UNCHANGED <<screen, mode, session, told, phone, ghosts>>
    BY <2>0, <2>3, <1>0 DEF Goto, phone, Alone, Parents
  <2> QED
    BY <1>7, <2>1, <2>2, <2>3 DEF Confirm
<1>8. ASSUME NEW t \in Threads, SaveSession(t) PROVE Parents'
  BY <1>8, <1>0 DEF SaveSession, Finish, Alone, Fits, Parents
<1>9. ASSUME NEW t \in Threads, StopPxe(t) PROVE Parents'
  <2>0. op[t].kind \in {"stop", "hook"} /\ op[t].pc = "begun" /\ Goto(t, "stopping")
    BY <1>9 DEF StopPxe
  <2>1. CASE /\ shell' = [shell EXCEPT ![t] = [pc |-> "kill", addr |-> session.memory, code |-> 0]]
             /\ UNCHANGED ghosts
             /\ UNCHANGED <<screen, mode, session, told, config, pidFile, onIface, server>>
    BY <2>0, <2>1, <1>0 DEF Goto, Alone, Fits, Parents
  <2>2. CASE /\ shell' = [shell EXCEPT ![t] = [pc |-> "done", addr |-> None, code |-> 1]]
             /\ Fault({})
             /\ UNCHANGED <<screen, mode, session, told, config, pidFile, onIface, server>>
    BY <2>0, <2>2, <1>0 DEF Goto, Alone, Fits, Parents
  <2> QED
    BY <1>9, <2>1, <2>2 DEF StopPxe
<1>10. ASSUME NEW t \in Threads, Stopped(t) PROVE Parents'
  BY <1>10, <1>0 DEF Stopped, Finish, End, Alone, Parents
<1>11. ASSUME NEW t \in Threads, NotStopped(t) PROVE Parents'
  <2>0. /\ op[t].pc = "stopping" /\ shell[t].pc = "done" /\ shell[t].code # 0
        /\ Finish(t, "not stopped", "running")
        /\ UNCHANGED <<session, config, pidFile, onIface, server, ghosts>>
    BY <1>11 DEF NotStopped
  <2>1. CASE op[t].kind = "hook" /\ Begin
    BY <2>0, <2>1, <1>0 DEF Finish, Begin, Alone, Parents
  <2>2. CASE op[t].kind # "hook" /\ UNCHANGED mode
    BY <2>0, <2>2, <1>0 DEF Finish, Alone, Parents
  <2> QED
    BY <1>11, <2>1, <2>2 DEF NotStopped
<1>12. ASSUME NEW t \in Threads, IpReplace(t) PROVE Parents'
  <2>0. shell[t].pc = "ip" /\ UNCHANGED <<app, config, pidFile, server>>
    BY <1>12 DEF IpReplace, ShellAt
  <2>1. CASE Fault({}) /\ ShellEnds(t, 1) /\ UNCHANGED onIface
    BY <2>0, <2>1, <1>0 DEF ShellEnds, Alone, Parents
  <2>2. CASE /\ onIface' = onIface \cup {shell[t].addr}
             /\ ShellGoes(t, "rmOld") /\ UNCHANGED ghosts
    BY <2>0, <2>2, <1>0 DEF ShellGoes, Alone, Parents
  <2> QED
    BY <1>12, <2>1, <2>2 DEF IpReplace, ShellAt
<1>13. ASSUME NEW t \in Threads, RemoveOld(t) PROVE Parents'
  BY <1>13, <1>0 DEF RemoveOld, ShellAt, ShellGoes, Alone, Parents
<1>14. ASSUME NEW t \in Threads, Exec(t) PROVE Parents'
  <2>0. shell[t].pc = "exec" /\ UNCHANGED <<app, config, pidFile, onIface, ghosts>>
    BY <1>14 DEF Exec, ShellAt, Writing
  <2>1. CASE ShellEnds(t, 1) /\ UNCHANGED server
    BY <2>0, <2>1, <1>0 DEF ShellEnds, Alone, Parents
  <2>2. CASE \E p \in Pids :
             /\ server[p].pc = "off"
             /\ server' = [server EXCEPT ![p] = [pc |-> "load", term |-> FALSE, shell |-> t]]
             /\ ShellGoes(t, "server")
    BY <2>0, <2>2, <1>0 DEF ShellGoes, Alone, Parents
  <2> QED
    BY <1>14, <2>1, <2>2 DEF Exec, ShellAt, Writing
<1>15. ASSUME NEW t \in Threads, Kill(t) PROVE Parents'
  <2>1. \A p \in Pids : server'[p].pc \notin Starting
    BY <1>15, KillFacts
  <2> QED
    BY <2>1 DEF Parents
<1>16. ASSUME NEW t \in Threads, RemoveFile(t) PROVE Parents'
  BY <1>16, <1>0 DEF RemoveFile, ShellAt, ShellGoes, Alone, Parents
<1>17. ASSUME NEW t \in Threads, IpDelete(t) PROVE Parents'
  BY <1>17, <1>0 DEF IpDelete, ShellAt, ShellEnds, Alone, Parents
<1>18. ASSUME NEW p \in Pids, Load(p) PROVE Parents'
  <2>0. server[p].pc = "load" /\ events \subseteq events'
    BY <1>18 DEF Load, Fault, ghosts, GivesUp
  <2>1. CASE GivesUp(p)
    BY <2>0, <2>1, <1>0 DEF GivesUp, ServerGoes, Parent, ShellEnds, Alone, OneServer, Parents,
       Live, Starting, NoneThere, Clear
  <2>2. CASE ServerGoes(p, "forked") /\ UNCHANGED <<app, shell, config, pidFile, onIface, ghosts>>
    BY <2>0, <2>2, <1>0 DEF ServerGoes, Alone, Parents, Starting
  <2> QED
    BY <1>18, <2>1, <2>2 DEF Load, Fault, GivesUp
<1>19. ASSUME NEW p \in Pids, Unlink(p) PROVE Parents'
  BY <1>19, <1>0 DEF Unlink, ServerGoes, Alone, Parents, Starting
<1>20. ASSUME NEW p \in Pids, WritePid(p) PROVE Parents'
  <2>0. server[p].pc = "unlinked" /\ UNCHANGED ghosts
    BY <1>20 DEF WritePid
  <2>1. CASE GivesUp(p) /\ pidFile # None
    BY <2>0, <2>1, <1>0 DEF GivesUp, ServerGoes, Parent, ShellEnds, Alone, OneServer, Parents,
       Live, Starting, NoneThere, Clear
  <2>2. CASE /\ pidFile = None /\ pidFile' = p /\ ServerGoes(p, "written")
             /\ UNCHANGED <<app, shell, config, onIface>>
    BY <2>0, <2>2, <1>0 DEF ServerGoes, Alone, Parents, Starting
  <2> QED
    BY <1>20, <2>1, <2>2 DEF WritePid
<1>21. ASSUME NEW p \in Pids, Release(p) PROVE Parents'
  <2>0. server[p].pc = "written"
    BY <1>21 DEF Release, Fault, GivesUp
  <2>1. CASE GivesUp(p) /\ Fault({"crash"})
    BY <2>0, <2>1, <1>0 DEF GivesUp, ServerGoes, Parent, ShellEnds, Alone, OneServer, Parents,
       Live, Starting, NoneThere, Clear
  <2>2. CASE /\ ServerGoes(p, "ready") /\ Parent(p, 0)
             /\ UNCHANGED <<app, config, pidFile, onIface, ghosts>>
    BY <2>0, <2>2, <1>0 DEF ServerGoes, Parent, ShellEnds, Alone, OneServer, Parents, Live,
       Starting, NoneThere, Clear
  <2> QED
    BY <1>21, <2>1, <2>2 DEF Release, Fault, GivesUp
<1>22. ASSUME NEW p \in Pids, Terminate(p) PROVE Parents'
  BY <1>22, <1>0 DEF Terminate, ServerGoes, Alone, Parents, Starting
<1>23. ASSUME NEW p \in Pids, Exit(p) PROVE Parents'
  BY <1>23, <1>0 DEF Exit, ServerGoes, Alone, Parents, Starting
<1>24. ASSUME NEW p \in Pids, Crash(p) PROVE Parents'
  BY <1>24, <1>0 DEF Crash, ServerGoes, Alone, Parents, Starting
<1>25. ASSUME NEW p \in Pids, Reuse(p) PROVE Parents'
  BY <1>25, <1>0 DEF Reuse, ServerGoes, Alone, Parents, Starting
<1>26. CASE Reboot
  BY <1>26, <1>0 DEF Reboot, AppGone, Parents, Live, Starting
<1>27. CASE UNCHANGED vars
  BY <1>1, <1>27 DEF vars
<1> QED
  BY <1>1, <1>2, <1>3, <1>4, <1>5, <1>6, <1>7, <1>8, <1>9, <1>10, <1>11, <1>12, <1>13, <1>14,
     <1>15, <1>16, <1>17, <1>18, <1>19, <1>20, <1>21, <1>22, <1>23, <1>24, <1>25, <1>26, <1>27
     DEF Next, ThreadStep, ShellStep, ServerStep

\* What removes the pid file finds no server that is to go on.
LEMMA NamedStep == TypeOK /\ Alone /\ ~MayOverlap /\ [Next]_vars => Named'
<1> SUFFICES ASSUME TypeOK, Alone, ~MayOverlap, [Next]_vars PROVE Named'
  OBVIOUS
<1>0. /\ op \in [Threads -> Ops] /\ shell \in [Threads -> Shells]
      /\ server \in [Pids -> Servers] /\ pidFile \in Pids \cup {None}
  BY DEF TypeOK
<1>1. CASE UNCHANGED <<server, pidFile>>
  BY <1>1 DEF Alone, Named, Up
<1>2. ASSUME NEW t \in Threads,
             \/ TapStart(t) \/ TapStop(t) \/ TapHook(t) \/ Prepare(t) \/ Extract(t)
             \/ WriteConfig(t) \/ Test(t) \/ Confirm(t) \/ SaveSession(t) \/ StopPxe(t)
             \/ Stopped(t) \/ NotStopped(t) \/ IpReplace(t) \/ IpDelete(t)
      PROVE  UNCHANGED <<server, pidFile>>
  BY <1>2 DEF TapStart, Tap, Begin, phone, TapStop, TapHook, Prepare, Goto, StartFails, Finish,
     End, Extract, WriteConfig, Test, Confirm, SaveSession, StopPxe, Stopped, NotStopped,
     IpReplace, ShellAt, ShellGoes, ShellEnds, IpDelete
<1>3. ASSUME Look \/ Show \/ Persist \/ Death
      PROVE  UNCHANGED <<server, pidFile>>
  BY <1>3 DEF Look, Early, phone, Show, Begin, Persist, Death, AppGone
<1>4. ASSUME NEW t \in Threads, RemoveOld(t) PROVE Named'
  BY <1>4, <1>0 DEF RemoveOld, ShellAt, ShellGoes, Alone, OneServer, Parents, Named, Up,
     Starting, NoneThere, Clear, Without, OneThread, InFlight
<1>5. ASSUME NEW t \in Threads, Exec(t) PROVE Named'
  <2>0. shell[t].pc = "exec" /\ UNCHANGED <<app, config, pidFile, onIface, ghosts>>
    BY <1>5 DEF Exec, ShellAt, Writing
  <2>1. CASE ShellEnds(t, 1) /\ UNCHANGED server
    BY <2>0, <2>1, <1>0 DEF ShellEnds, Alone, Named, Up
  <2>2. CASE \E p \in Pids :
             /\ server[p].pc = "off"
             /\ server' = [server EXCEPT ![p] = [pc |-> "load", term |-> FALSE, shell |-> t]]
             /\ ShellGoes(t, "server")
    BY <2>0, <2>2, <1>0 DEF ShellGoes, Alone, Named, Up
  <2> QED
    BY <1>5, <2>1, <2>2 DEF Exec, ShellAt, Writing
<1>6. ASSUME NEW t \in Threads, Kill(t) PROVE Named'
  BY <1>6, <1>0 DEF Kill, ShellAt, Killed, Alone, Named, Up
<1>7. ASSUME NEW t \in Threads, RemoveFile(t) PROVE Named'
  BY <1>7, <1>0 DEF RemoveFile, ShellAt, ShellGoes, Alone, OneServer, Parents, Named, Up,
     Starting, NoneThere, Clear, Without, OneThread, InFlight
<1>8. ASSUME NEW p \in Pids, Load(p) PROVE Named'
  <2>0. server[p].pc = "load" /\ events \subseteq events'
    BY <1>8 DEF Load, Fault, ghosts, GivesUp
  <2>1. CASE GivesUp(p)
    BY <2>0, <2>1, <1>0 DEF GivesUp, ServerGoes, Parent, ShellEnds, Alone, Named, Up
  <2>2. CASE ServerGoes(p, "forked") /\ UNCHANGED <<app, shell, config, pidFile, onIface, ghosts>>
    BY <2>0, <2>2, <1>0 DEF ServerGoes, Alone, Named, Up
  <2> QED
    BY <1>8, <2>1, <2>2 DEF Load, Fault, GivesUp
<1>9. ASSUME NEW p \in Pids, Unlink(p) PROVE Named'
  BY <1>9, <1>0 DEF Unlink, ServerGoes, Alone, OneServer, Parents, Named, Up, Live, Starting,
     NoneThere, Clear, Without, OneThread
<1>10. ASSUME NEW p \in Pids, WritePid(p) PROVE Named'
  <2>0. server[p].pc = "unlinked" /\ UNCHANGED ghosts
    BY <1>10 DEF WritePid
  <2>1. CASE GivesUp(p) /\ pidFile # None
    BY <2>0, <2>1, <1>0 DEF GivesUp, ServerGoes, Parent, ShellEnds, Alone, Named, Up
  <2>2. CASE /\ pidFile = None /\ pidFile' = p /\ ServerGoes(p, "written")
             /\ UNCHANGED <<app, shell, config, onIface>>
    BY <2>0, <2>2, <1>0 DEF ServerGoes, Alone, OneServer, Parents, Named, Up, Live, Starting,
       NoneThere, Clear, Without, OneThread
  <2> QED
    BY <1>10, <2>1, <2>2 DEF WritePid
<1>11. ASSUME NEW p \in Pids, Release(p) PROVE Named'
  <2>0. server[p].pc = "written"
    BY <1>11 DEF Release, Fault, GivesUp
  <2>1. CASE GivesUp(p) /\ Fault({"crash"})
    BY <2>0, <2>1, <1>0 DEF GivesUp, ServerGoes, Parent, ShellEnds, Alone, Named, Up
  <2>2. CASE /\ ServerGoes(p, "ready") /\ Parent(p, 0)
             /\ UNCHANGED <<app, config, pidFile, onIface, ghosts>>
    BY <2>0, <2>2, <1>0 DEF ServerGoes, Parent, ShellEnds, Alone, Named, Up
  <2> QED
    BY <1>11, <2>1, <2>2 DEF Release, Fault, GivesUp
<1>12. ASSUME NEW p \in Pids, Terminate(p) PROVE Named'
  BY <1>12, <1>0 DEF Terminate, ServerGoes, Alone, OneServer, Parents, Named, Up, Live,
     Starting, NoneThere, Clear, Without, OneThread
<1>13. ASSUME NEW p \in Pids, Exit(p) PROVE Named'
  BY <1>13, <1>0 DEF Exit, ServerGoes, Alone, Named, Up
<1>14. ASSUME NEW p \in Pids, Crash(p) PROVE Named'
  BY <1>14, <1>0 DEF Crash, ServerGoes, Alone, Named, Up
<1>15. ASSUME NEW p \in Pids, Reuse(p) PROVE Named'
  BY <1>15, <1>0 DEF Reuse, ServerGoes, Alone, Named, Up
<1>16. CASE Reboot
  BY <1>16, <1>0 DEF Reboot, AppGone, Alone, Named, Up
<1>17. CASE UNCHANGED vars
  BY <1>1, <1>17 DEF vars
<1> QED
  BY <1>1, <1>2, <1>3, <1>4, <1>5, <1>6, <1>7, <1>8, <1>9, <1>10, <1>11, <1>12, <1>13, <1>14,
     <1>15, <1>16, <1>17 DEF Next, ThreadStep, ShellStep, ServerStep

\* Between the check for a running program and the start there is no server;
\* after the signal of a stop there is none that goes on.
LEMMA NoneThereStep == TypeOK /\ Alone /\ ~MayOverlap /\ [Next]_vars => NoneThere'
<1> SUFFICES ASSUME TypeOK, Alone, ~MayOverlap, [Next]_vars PROVE NoneThere'
  OBVIOUS
<1>0. /\ op \in [Threads -> Ops] /\ shell \in [Threads -> Shells]
      /\ server \in [Pids -> Servers] /\ pidFile \in Pids \cup {None}
  BY DEF TypeOK
<1>1. CASE UNCHANGED <<op, shell, server>>
  BY <1>1 DEF Alone, Up, Live, NoneThere, Clear, Without
<1>2. ASSUME Show \/ Persist
      PROVE  UNCHANGED <<op, shell, server>>
  BY <1>2 DEF Show, Begin, phone, Persist
<1>3. ASSUME NEW t \in Threads, TapStart(t) PROVE NoneThere'
  BY <1>3, <1>0 DEF TapStart, Tap, Begin, phone, Alone, Up, Live, NoneThere, Clear, Without
<1>4. ASSUME NEW t \in Threads, TapStop(t) PROVE NoneThere'
  BY <1>4, <1>0 DEF TapStop, Tap, phone, Alone, Up, Live, NoneThere, Clear, Without
<1>5. ASSUME NEW t \in Threads, TapHook(t) PROVE NoneThere'
  BY <1>5, <1>0 DEF TapHook, Tap, phone, Alone, Up, Live, NoneThere, Clear, Without
<1>6. ASSUME NEW t \in Threads, Prepare(t) PROVE NoneThere'
  <2>0. op[t].kind = "start" /\ op[t].pc = "begun"
    BY <1>6 DEF Prepare
  <2>1. CASE Fault({}) /\ StartFails(t)
    BY <2>0, <2>1, <1>0 DEF StartFails, Finish, End, NoOp, NoShell, Alone, Up, Live, NoneThere,
       Clear, Without
  <2>2. CASE Goto(t, "extract") /\ UNCHANGED <<screen, mode, session, told, phone, ghosts>>
    BY <2>0, <2>2, <1>0 DEF Goto, phone, Alone, Up, Live, NoneThere, Clear, Without
  <2> QED
    BY <1>6, <2>1, <2>2 DEF Prepare
<1>7. ASSUME NEW t \in Threads, Extract(t) PROVE NoneThere'
  <2>0. op[t].kind = "start" /\ op[t].pc = "extract"
    BY <1>7 DEF Extract
  <2>1. CASE BinaryBusy /\ StartFails(t) /\ UNCHANGED ghosts
    BY <2>0, <2>1, <1>0 DEF StartFails, Finish, End, NoOp, NoShell, Alone, Up, Live, NoneThere,
       Clear, Without, BinaryBusy, Executing
  <2>2. CASE /\ ~BinaryBusy /\ Goto(t, "writing")
             /\ UNCHANGED <<screen, mode, session, told, phone, ghosts>>
    BY <2>0, <2>2, <1>0 DEF Goto, phone, Up, Live, NoneThere, Clear, Without, BinaryBusy,
       Executing
  <2> QED
    BY <1>7, <2>1, <2>2 DEF Extract
<1>8. ASSUME NEW t \in Threads, WriteConfig(t) PROVE NoneThere'
  BY <1>8, <1>0 DEF WriteConfig, Goto, Alone, Up, Live, NoneThere, Clear, Without
<1>9. ASSUME NEW t \in Threads, Test(t) PROVE NoneThere'
  <2>0. op[t].pc = "testing"
    BY <1>9 DEF Test
  <2>1. CASE StartFails(t) /\ UNCHANGED ghosts
    BY <2>0, <2>1, <1>0 DEF StartFails, Finish, End, Alone, Up, Live, NoneThere, Clear, Without
  <2>2. CASE /\ Goto(t, "launched")
             /\ shell' = [shell EXCEPT ![t] = [pc |-> "ip", addr |-> op[t].addr, code |-> 0]]
             /\ UNCHANGED <<screen, mode, session, told, config, pidFile, onIface, server,
                            ghosts>>
    BY <2>0, <2>2, <1>0 DEF Goto, Alone, Up, Live, NoneThere, Clear, Without
  <2> QED
    BY <1>9, <2>1, <2>2 DEF Test
<1>10. ASSUME NEW t \in Threads, Confirm(t) PROVE NoneThere'
  <2>0. op[t].pc = "launched" /\ shell[t].pc = "done"
    BY <1>10 DEF Confirm
  <2>1. CASE /\ shell[t].code # 0 \/ ~IsPxeRunning
             /\ StartFails(t) /\ events' = events \cup {"failed"}
    BY <2>0, <2>1, <1>0 DEF StartFails, Finish, End, NoOp, NoShell, Alone, Up, Live, NoneThere,
       Clear, Without
  <2>2. CASE Fault({"failed", "denied"}) /\ StartFails(t)
    BY <2>0, <2>2, <1>0 DEF StartFails, Finish, End, NoOp, NoShell, Alone, Up, Live, NoneThere,
       Clear, Without
  <2>3. CASE /\ shell[t].code = 0 /\ IsPxeRunning /\ Goto(t, "save")
             /\ UNCHANGED <<screen, mode, session, told, phone, ghosts>>
    BY <2>0, <2>3, <1>0 DEF Goto, phone, Alone, Up, Live, NoneThere, Clear, Without
  <2> QED
    BY <1>10, <2>1, <2>2, <2>3 DEF Confirm
<1>11. ASSUME NEW t \in Threads, SaveSession(t) PROVE NoneThere'
  BY <1>11, <1>0 DEF SaveSession, Finish, NoOp, NoShell, Alone, Up, Live, NoneThere, Clear,
     Without
<1>12. ASSUME NEW t \in Threads, StopPxe(t) PROVE NoneThere'
  <2>0. op[t].kind \in {"stop", "hook"} /\ op[t].pc = "begun" /\ Goto(t, "stopping")
    BY <1>12 DEF StopPxe
  <2>1. CASE /\ shell' = [shell EXCEPT ![t] = [pc |-> "kill", addr |-> session.memory, code |-> 0]]
             /\ UNCHANGED ghosts
             /\ UNCHANGED <<screen, mode, session, told, config, pidFile, onIface, server>>
    BY <2>0, <2>1, <1>0 DEF Goto, Alone, Up, Live, NoneThere, Clear, Without
  <2>2. CASE /\ shell' = [shell EXCEPT ![t] = [pc |-> "done", addr |-> None, code |-> 1]]
             /\ Fault({})
             /\ UNCHANGED <<screen, mode, session, told, config, pidFile, onIface, server>>
    BY <2>0, <2>2, <1>0 DEF Goto, Alone, Up, Live, NoneThere, Clear, Without
  <2> QED
    BY <1>12, <2>1, <2>2 DEF StopPxe
<1>13. ASSUME NEW t \in Threads, Stopped(t) PROVE NoneThere'
  BY <1>13, <1>0 DEF Stopped, Finish, End, NoOp, NoShell, Alone, Up, Live, NoneThere, Clear,
     Without
<1>14. ASSUME NEW t \in Threads, NotStopped(t) PROVE NoneThere'
  <2>0. /\ op[t].pc = "stopping" /\ shell[t].pc = "done" /\ shell[t].code # 0
        /\ Finish(t, "not stopped", "running")
        /\ UNCHANGED <<session, config, pidFile, onIface, server, ghosts>>
    BY <1>14 DEF NotStopped
  <2>1. CASE op[t].kind = "hook" /\ Begin
    BY <2>0, <2>1, <1>0 DEF Finish, Begin, NoOp, NoShell, Alone, Up, Live, NoneThere, Clear,
       Without
  <2>2. CASE op[t].kind # "hook" /\ UNCHANGED mode
    BY <2>0, <2>2, <1>0 DEF Finish, NoOp, NoShell, Alone, Up, Live, NoneThere, Clear, Without
  <2> QED
    BY <1>14, <2>1, <2>2 DEF NotStopped
<1>15. ASSUME NEW t \in Threads, IpReplace(t) PROVE NoneThere'
  <2>0. shell[t].pc = "ip" /\ UNCHANGED <<app, config, pidFile, server>>
    BY <1>15 DEF IpReplace, ShellAt
  <2>1. CASE Fault({}) /\ ShellEnds(t, 1) /\ UNCHANGED onIface
    BY <2>0, <2>1, <1>0 DEF ShellEnds, Alone, Up, Live, NoneThere, Clear, Without
  <2>2. CASE /\ onIface' = onIface \cup {shell[t].addr}
             /\ ShellGoes(t, "rmOld") /\ UNCHANGED ghosts
    BY <2>0, <2>2, <1>0 DEF ShellGoes, Alone, Up, Live, NoneThere, Clear, Without
  <2> QED
    BY <1>15, <2>1, <2>2 DEF IpReplace, ShellAt
<1>16. ASSUME NEW t \in Threads, RemoveOld(t) PROVE NoneThere'
  BY <1>16, <1>0 DEF RemoveOld, ShellAt, ShellGoes, Alone, Up, Live, NoneThere, Clear, Without
<1>17. ASSUME NEW t \in Threads, Exec(t) PROVE NoneThere'
  <2>0. shell[t].pc = "exec" /\ UNCHANGED <<app, config, pidFile, onIface, ghosts>>
    BY <1>17 DEF Exec, ShellAt, Writing
  <2>1. CASE ShellEnds(t, 1) /\ UNCHANGED server
    BY <2>0, <2>1, <1>0 DEF ShellEnds, Alone, Up, Live, NoneThere, Clear, Without
  <2>2. CASE \E p \in Pids :
             /\ server[p].pc = "off"
             /\ server' = [server EXCEPT ![p] = [pc |-> "load", term |-> FALSE, shell |-> t]]
             /\ ShellGoes(t, "server")
    <3>1. ~Clear(t)' /\ \A u \in Threads : u # t => ~Clear(u)'
      BY <1>0, <2>0, <2>2 DEF Clear, ShellGoes, app, Alone, OneThread, InFlight, Fits
    <3>2. Up' = Up
      BY <1>0, <2>2 DEF Up, Servers
    <3>3. Up = {}
      BY <2>0 DEF Alone, NoneThere, Without
    <3> QED
      BY <3>1, <3>2, <3>3 DEF NoneThere
  <2> QED
    BY <1>17, <2>1, <2>2 DEF Exec, ShellAt, Writing
<1>18. ASSUME NEW t \in Threads, Kill(t) PROVE NoneThere'
  <2>1. shell'[t].pc = "rm" /\ op' = op /\ op[t].pc \notin {"writing", "testing"}
    <3>1. shell[t].pc = "kill" /\ shell' = [shell EXCEPT ![t].pc = "rm"]
      BY <1>18, KillFacts
    <3>2. op' = op
      BY <1>18 DEF Kill, app
    <3> QED
      BY <1>0, <3>1, <3>2 DEF Shells, Alone, Fits
  <2>2. ~Clear(t)' /\ \A u \in Threads : u # t => (Clear(u)' <=> Clear(u))
    BY <1>0, <1>18, <2>1, KillFacts DEF Clear
  <2>3. (\A p \in Pids : Live(p)' <=> Live(p)) /\ Up' = {}
    BY <1>18, KillFacts DEF Live
  <2> QED
    BY <2>2, <2>3 DEF Alone, NoneThere
<1>19. ASSUME NEW t \in Threads, RemoveFile(t) PROVE NoneThere'
  BY <1>19, <1>0 DEF RemoveFile, ShellAt, ShellGoes, app, Alone, Up, Live, NoneThere, Clear,
     Without
<1>20. ASSUME NEW t \in Threads, IpDelete(t) PROVE NoneThere'
  BY <1>20, <1>0 DEF IpDelete, ShellAt, ShellEnds, app, Alone, Up, Live, NoneThere, Clear,
     Without
<1>21. CASE Look
  BY <1>21, <1>0 DEF Look, Early, phone, Ops, Alone, Up, Live, NoneThere, Clear, Without
<1>22. ASSUME NEW p \in Pids, Load(p) PROVE NoneThere'
  <2>0. server[p].pc = "load" /\ events \subseteq events'
    BY <1>22 DEF Load, Fault, ghosts, GivesUp
  <2>1. CASE GivesUp(p)
    BY <2>0, <2>1, <1>0 DEF GivesUp, ServerGoes, Parent, ShellEnds, app, Shells, Alone, Fits,
       Up, Live, Starting, NoneThere, Clear, Without
  <2>2. CASE ServerGoes(p, "forked") /\ UNCHANGED <<app, shell, config, pidFile, onIface, ghosts>>
    BY <2>0, <2>2, <1>0 DEF ServerGoes, app, Alone, Up, Live, Starting, NoneThere, Clear,
       Without
  <2> QED
    BY <1>22, <2>1, <2>2 DEF Load, Fault, GivesUp
<1>23. ASSUME NEW p \in Pids, Unlink(p) PROVE NoneThere'
  BY <1>23, <1>0 DEF Unlink, ServerGoes, app, Alone, Up, Live, Starting, NoneThere, Clear,
     Without
<1>24. ASSUME NEW p \in Pids, WritePid(p) PROVE NoneThere'
  <2>0. server[p].pc = "unlinked" /\ UNCHANGED ghosts
    BY <1>24 DEF WritePid
  <2>1. CASE GivesUp(p) /\ pidFile # None
    BY <2>0, <2>1, <1>0 DEF GivesUp, ServerGoes, Parent, ShellEnds, app, Shells, Alone, Fits,
       Up, Live, Starting, NoneThere, Clear, Without
  <2>2. CASE /\ pidFile = None /\ pidFile' = p /\ ServerGoes(p, "written")
             /\ UNCHANGED <<app, shell, config, onIface>>
    BY <2>0, <2>2, <1>0 DEF ServerGoes, app, Alone, Up, Live, Starting, NoneThere, Clear,
       Without
  <2> QED
    BY <1>24, <2>1, <2>2 DEF WritePid
<1>25. ASSUME NEW p \in Pids, Release(p) PROVE NoneThere'
  <2>0. server[p].pc = "written"
    BY <1>25 DEF Release, Fault, GivesUp
  <2>1. CASE GivesUp(p) /\ Fault({"crash"})
    BY <2>0, <2>1, <1>0 DEF GivesUp, ServerGoes, Parent, ShellEnds, app, Shells, Alone, Fits,
       Up, Live, Starting, NoneThere, Clear, Without
  <2>2. CASE /\ ServerGoes(p, "ready") /\ Parent(p, 0)
             /\ UNCHANGED <<app, config, pidFile, onIface, ghosts>>
    BY <2>0, <2>2, <1>0 DEF ServerGoes, Parent, ShellEnds, app, Servers, Alone, Parents, Fits,
       Starting, NoneThere, Clear, Without, OneThread, InFlight
  <2> QED
    BY <1>25, <2>1, <2>2 DEF Release, Fault, GivesUp
<1>26. ASSUME NEW p \in Pids, Terminate(p) PROVE NoneThere'
  BY <1>26, <1>0 DEF Terminate, ServerGoes, app, Alone, Up, Live, NoneThere, Clear, Without
<1>27. ASSUME NEW p \in Pids, Exit(p) PROVE NoneThere'
  BY <1>27, <1>0 DEF Exit, ServerGoes, app, Alone, Up, Live, NoneThere, Clear, Without
<1>28. ASSUME NEW p \in Pids, Crash(p) PROVE NoneThere'
  BY <1>28, <1>0 DEF Crash, ServerGoes, app, Alone, Up, Live, NoneThere, Clear, Without
<1>29. ASSUME NEW p \in Pids, Reuse(p) PROVE NoneThere'
  BY <1>29, <1>0 DEF Reuse, ServerGoes, app, Alone, Up, Live, Starting, NoneThere, Clear,
     Without
<1>30. CASE Death
  BY <1>30, <1>0 DEF Death, AppGone, phone, NoOp, Alone, Up, Live, NoneThere, Clear, Without
<1>31. CASE Reboot
  BY <1>31, <1>0 DEF Reboot, AppGone, NoOp, NoShell, NoneThere, Clear, Without
<1>32. CASE UNCHANGED vars
  BY <1>1, <1>32 DEF vars
<1> QED
  BY <1>1, <1>2, <1>3, <1>4, <1>5, <1>6, <1>7, <1>8, <1>9, <1>10, <1>11, <1>12, <1>13, <1>14,
     <1>15, <1>16, <1>17, <1>18, <1>19, <1>20, <1>21, <1>22, <1>23, <1>24, <1>25, <1>26, <1>27,
     <1>28, <1>29, <1>30, <1>31, <1>32 DEF Next, ThreadStep, ShellStep, ServerStep

\* Servers that end in order take their pid file with them.
LEMMA NameHoldsStep == TypeOK /\ Alone /\ ~MayOverlap /\ [Next]_vars => NameHolds'
<1> SUFFICES ASSUME TypeOK, Alone, ~MayOverlap, [Next]_vars PROVE NameHolds'
  OBVIOUS
<1>0. /\ op \in [Threads -> Ops] /\ shell \in [Threads -> Shells]
      /\ server \in [Pids -> Servers] /\ pidFile \in Pids \cup {None}
  BY DEF TypeOK
<1>1. ASSUME NEW t \in Threads, TapStart(t) PROVE NameHolds'
  BY <1>1, <1>0 DEF TapStart, Tap, Begin, phone, Alone, NameHolds
<1>2. ASSUME NEW t \in Threads, TapStop(t) PROVE NameHolds'
  BY <1>2, <1>0 DEF TapStop, Tap, phone, Alone, NameHolds
<1>3. ASSUME NEW t \in Threads, TapHook(t) PROVE NameHolds'
  BY <1>3, <1>0 DEF TapHook, Tap, phone, Alone, NameHolds
<1>4. ASSUME NEW t \in Threads, Prepare(t) PROVE NameHolds'
  <2>0. op[t].kind = "start" /\ op[t].pc = "begun"
    BY <1>4 DEF Prepare
  <2>1. CASE Fault({}) /\ StartFails(t)
    BY <2>0, <2>1, <1>0 DEF StartFails, Finish, End, Fault, Alone, NameHolds, Fits
  <2>2. CASE Goto(t, "extract") /\ UNCHANGED <<screen, mode, session, told, phone, ghosts>>
    BY <2>0, <2>2, <1>0 DEF Goto, phone, ghosts, Alone, NameHolds
  <2> QED
    BY <1>4, <2>1, <2>2 DEF Prepare
<1>5. ASSUME NEW t \in Threads, Extract(t) PROVE NameHolds'
  <2>0. op[t].kind = "start" /\ op[t].pc = "extract"
    BY <1>5 DEF Extract
  <2>1. CASE BinaryBusy /\ StartFails(t) /\ UNCHANGED ghosts
    BY <2>0, <2>1, <1>0 DEF StartFails, Finish, End, ghosts, Alone, NameHolds, Fits
  <2>2. CASE /\ ~BinaryBusy /\ Goto(t, "writing")
             /\ UNCHANGED <<screen, mode, session, told, phone, ghosts>>
    BY <2>0, <2>2, <1>0 DEF Goto, phone, ghosts, Alone, NameHolds
  <2> QED
    BY <1>5, <2>1, <2>2 DEF Extract
<1>6. ASSUME NEW t \in Threads, WriteConfig(t) PROVE NameHolds'
  BY <1>6, <1>0 DEF WriteConfig, Goto, ghosts, Alone, NameHolds
<1>7. ASSUME NEW t \in Threads, Test(t) PROVE NameHolds'
  <2>0. op[t].pc = "testing"
    BY <1>7 DEF Test
  <2>1. CASE StartFails(t) /\ UNCHANGED ghosts
    BY <2>0, <2>1, <1>0 DEF StartFails, Finish, End, ghosts, Alone, NameHolds, Fits
  <2>2. CASE /\ Goto(t, "launched")
             /\ shell' = [shell EXCEPT ![t] = [pc |-> "ip", addr |-> op[t].addr, code |-> 0]]
             /\ UNCHANGED <<screen, mode, session, told, config, pidFile, onIface, server,
                            ghosts>>
    BY <2>0, <2>2, <1>0 DEF Goto, ghosts, Alone, NameHolds, Fits
  <2> QED
    BY <1>7, <2>1, <2>2 DEF Test
<1>8. ASSUME NEW t \in Threads, Confirm(t) PROVE NameHolds'
  <2>0. op[t].pc = "launched" /\ shell[t].pc = "done"
    BY <1>8 DEF Confirm
  <2>1. CASE /\ shell[t].code # 0 \/ ~IsPxeRunning
             /\ StartFails(t) /\ events' = events \cup {"failed"}
    BY <2>0, <2>1, <1>0 DEF StartFails, Finish, End, Alone, NameHolds
  <2>2. CASE Fault({"failed", "denied"}) /\ StartFails(t)
    BY <2>0, <2>2, <1>0 DEF StartFails, Finish, End, Fault, Alone, NameHolds
  <2>3. CASE /\ shell[t].code = 0 /\ IsPxeRunning /\ Goto(t, "save")
             /\ UNCHANGED <<screen, mode, session, told, phone, ghosts>>
    BY <2>0, <2>3, <1>0 DEF Goto, phone, ghosts, Alone, NameHolds
  <2> QED
    BY <1>8, <2>1, <2>2, <2>3 DEF Confirm
<1>9. ASSUME NEW t \in Threads, SaveSession(t) PROVE NameHolds'
  BY <1>9, <1>0 DEF SaveSession, Finish, ghosts, Alone, NameHolds, Fits
<1>10. ASSUME NEW t \in Threads, StopPxe(t) PROVE NameHolds'
  <2>0. op[t].kind \in {"stop", "hook"} /\ op[t].pc = "begun" /\ Goto(t, "stopping")
    BY <1>10 DEF StopPxe
  <2>1. CASE /\ shell' = [shell EXCEPT ![t] = [pc |-> "kill", addr |-> session.memory, code |-> 0]]
             /\ UNCHANGED ghosts
             /\ UNCHANGED <<screen, mode, session, told, config, pidFile, onIface, server>>
    BY <2>0, <2>1, <1>0 DEF Goto, ghosts, Alone, NameHolds, Fits
  <2>2. CASE /\ shell' = [shell EXCEPT ![t] = [pc |-> "done", addr |-> None, code |-> 1]]
             /\ Fault({})
             /\ UNCHANGED <<screen, mode, session, told, config, pidFile, onIface, server>>
    BY <2>0, <2>2, <1>0 DEF Goto, Fault, Alone, NameHolds, Fits
  <2> QED
    BY <1>10, <2>1, <2>2 DEF StopPxe
<1>11. ASSUME NEW t \in Threads, Stopped(t) PROVE NameHolds'
  BY <1>11, <1>0 DEF Stopped, Finish, End, ghosts, Alone, NameHolds
<1>12. ASSUME NEW t \in Threads, NotStopped(t) PROVE NameHolds'
  <2>0. /\ op[t].pc = "stopping" /\ shell[t].pc = "done" /\ shell[t].code # 0
        /\ Finish(t, "not stopped", "running")
        /\ UNCHANGED <<session, config, pidFile, onIface, server, ghosts>>
    BY <1>12 DEF NotStopped
  <2>1. CASE op[t].kind = "hook" /\ Begin
    BY <2>0, <2>1, <1>0 DEF Finish, Begin, ghosts, Alone, NameHolds
  <2>2. CASE op[t].kind # "hook" /\ UNCHANGED mode
    BY <2>0, <2>2, <1>0 DEF Finish, ghosts, Alone, NameHolds
  <2> QED
    BY <1>12, <2>1, <2>2 DEF NotStopped
<1>13. ASSUME NEW t \in Threads, IpReplace(t) PROVE NameHolds'
  <2>0. shell[t].pc = "ip" /\ UNCHANGED <<app, config, pidFile, server>>
    BY <1>13 DEF IpReplace, ShellAt
  <2>1. CASE Fault({}) /\ ShellEnds(t, 1) /\ UNCHANGED onIface
    BY <2>0, <2>1, <1>0 DEF ShellEnds, Fault, Alone, NameHolds
  <2>2. CASE /\ onIface' = onIface \cup {shell[t].addr}
             /\ ShellGoes(t, "rmOld") /\ UNCHANGED ghosts
    BY <2>0, <2>2, <1>0 DEF ShellGoes, ghosts, Alone, NameHolds
  <2> QED
    BY <1>13, <2>1, <2>2 DEF IpReplace, ShellAt
<1>14. ASSUME NEW t \in Threads, RemoveOld(t) PROVE NameHolds'
  BY <1>14, <1>0 DEF RemoveOld, ShellAt, ShellGoes, NameHolds
<1>15. ASSUME NEW t \in Threads, Exec(t) PROVE NameHolds'
  <2>0. shell[t].pc = "exec" /\ UNCHANGED <<app, config, pidFile, onIface, ghosts>>
    BY <1>15 DEF Exec, ShellAt, Writing
  <2>1. CASE ShellEnds(t, 1) /\ UNCHANGED server
    BY <2>0, <2>1, <1>0 DEF ShellEnds, ghosts, Alone, NameHolds
  <2>2. CASE \E p \in Pids :
             /\ server[p].pc = "off"
             /\ server' = [server EXCEPT ![p] = [pc |-> "load", term |-> FALSE, shell |-> t]]
             /\ ShellGoes(t, "server")
    BY <2>0, <2>2, <1>0 DEF ShellGoes, ghosts, Alone, NameHolds
  <2> QED
    BY <1>15, <2>1, <2>2 DEF Exec, ShellAt, Writing
<1>16. ASSUME NEW t \in Threads, Kill(t) PROVE NameHolds'
  BY <1>16, <1>0 DEF Kill, ShellAt, Killed, app, Ops, Servers, Alone, OneServer, Parents, Named,
     NameHolds, Fits, Live, NoneThere, Clear, Without, OneThread, InFlight
<1>17. ASSUME NEW t \in Threads, RemoveFile(t) PROVE NameHolds'
  BY <1>17, <1>0 DEF RemoveFile, ShellAt, ShellGoes, NameHolds
<1>18. ASSUME NEW t \in Threads, IpDelete(t) PROVE NameHolds'
  BY <1>18, <1>0 DEF IpDelete, ShellAt, ShellEnds, ghosts, Alone, NameHolds
<1>19. CASE Look
  BY <1>19, <1>0 DEF Look, Fault, Early, phone, Alone, NameHolds
<1>20. CASE Show
  BY <1>20, <1>0 DEF Show, Begin, phone, ghosts, Alone, NameHolds
<1>21. CASE Persist
  BY <1>21, <1>0 DEF Persist, phone, ghosts, Alone, NameHolds
<1>22. ASSUME NEW p \in Pids, Load(p) PROVE NameHolds'
  <2>0. server[p].pc = "load" /\ events \subseteq events'
    BY <1>22 DEF Load, Fault, ghosts, GivesUp
  <2>1. CASE GivesUp(p)
    BY <2>0, <2>1, <1>0 DEF GivesUp, ServerGoes, Parent, ShellEnds, Alone, Parents, NameHolds,
       Starting, OneThread
  <2>2. CASE ServerGoes(p, "forked") /\ UNCHANGED <<app, shell, config, pidFile, onIface, ghosts>>
    BY <2>0, <2>2, <1>0 DEF ServerGoes, Alone, NameHolds
  <2> QED
    BY <1>22, <2>1, <2>2 DEF Load, Fault, GivesUp
<1>23. ASSUME NEW p \in Pids, Unlink(p) PROVE NameHolds'
  BY <1>23, <1>0 DEF Unlink, ServerGoes, NameHolds
<1>24. ASSUME NEW p \in Pids, WritePid(p) PROVE NameHolds'
  <2>0. server[p].pc = "unlinked" /\ UNCHANGED ghosts
    BY <1>24 DEF WritePid
  <2>1. CASE GivesUp(p) /\ pidFile # None
    BY <2>0, <2>1, <1>0 DEF GivesUp, ServerGoes, Parent, ShellEnds, ghosts, Alone, Parents,
       NameHolds, Starting, OneThread
  <2>2. CASE /\ pidFile = None /\ pidFile' = p /\ ServerGoes(p, "written")
             /\ UNCHANGED <<app, shell, config, onIface>>
    BY <2>0, <2>2, <1>0 DEF ServerGoes, Alone, Parents, NameHolds, Starting, OneThread
  <2> QED
    BY <1>24, <2>1, <2>2 DEF WritePid
<1>25. ASSUME NEW p \in Pids, Release(p) PROVE NameHolds'
  <2>0. server[p].pc = "written"
    BY <1>25 DEF Release, Fault, GivesUp
  <2>1. CASE GivesUp(p) /\ Fault({"crash"})
    BY <2>0, <2>1, <1>0 DEF GivesUp, ServerGoes, Parent, ShellEnds, Fault, NameHolds
  <2>2. CASE /\ ServerGoes(p, "ready") /\ Parent(p, 0)
             /\ UNCHANGED <<app, config, pidFile, onIface, ghosts>>
    BY <2>0, <2>2, <1>0 DEF ServerGoes, Parent, ShellEnds, ghosts, Alone, Parents, NameHolds,
       Starting, OneThread
  <2> QED
    BY <1>25, <2>1, <2>2 DEF Release, Fault, GivesUp
<1>26. ASSUME NEW p \in Pids, Terminate(p) PROVE NameHolds'
  BY <1>26, <1>0 DEF Terminate, ServerGoes, NameHolds
<1>27. ASSUME NEW p \in Pids, Exit(p) PROVE NameHolds'
  BY <1>27, <1>0 DEF Exit, ServerGoes, ghosts, Alone, NameHolds
<1>28. ASSUME NEW p \in Pids, Crash(p) PROVE NameHolds'
  BY <1>28, <1>0 DEF Crash, ServerGoes, Fault, NameHolds
<1>29. ASSUME NEW p \in Pids, Reuse(p) PROVE NameHolds'
  BY <1>29, <1>0 DEF Reuse, ServerGoes, Fault, Alone, NameHolds
<1>30. CASE Death
  BY <1>30, <1>0 DEF Death, AppGone, Fault, phone, Alone, NameHolds
<1>31. CASE Reboot
  BY <1>31, <1>0 DEF Reboot, AppGone, Fault, NameHolds
<1>32. CASE UNCHANGED vars
  BY <1>32 DEF vars, Alone, NameHolds
<1> QED
  BY <1>1, <1>2, <1>3, <1>4, <1>5, <1>6, <1>7, <1>8, <1>9, <1>10, <1>11, <1>12, <1>13, <1>14,
     <1>15, <1>16, <1>17, <1>18, <1>19, <1>20, <1>21, <1>22, <1>23, <1>24, <1>25, <1>26, <1>27,
     <1>28, <1>29, <1>30, <1>31, <1>32 DEF Next, ThreadStep, ShellStep, ServerStep

-----------------------------------------------------------------------------
(* Pages, notification and addresses                                       *)

\* A mode is marked as stopping by a hook only.
LEMMA HaltsStep == TypeOK /\ Alone /\ ~MayOverlap /\ Halts /\ [Next]_vars => Halts'
<1> SUFFICES ASSUME TypeOK, Alone, ~MayOverlap, Halts, [Next]_vars PROVE Halts'
  OBVIOUS
<1>0. /\ op \in [Threads -> Ops] /\ shell \in [Threads -> Shells]
      /\ server \in [Pids -> Servers]
      /\ screen \in Screens /\ mode \in [shown : BOOLEAN, stopping : BOOLEAN]
  BY DEF TypeOK
<1>1. ASSUME NEW t \in Threads, TapStart(t) PROVE Halts'
  BY <1>1, <1>0 DEF TapStart, Tap, Begin, Halts, Resting
<1>2. ASSUME NEW t \in Threads, TapStop(t) PROVE Halts'
  BY <1>2, <1>0 DEF TapStop, Tap, Fits, Alone, Halts, Resting, InFlight
<1>3. ASSUME NEW t \in Threads, TapHook(t) PROVE Halts'
  BY <1>3, <1>0 DEF TapHook, Tap, Halts, Resting
<1>4. ASSUME NEW t \in Threads, Prepare(t) PROVE Halts'
  <2>0. op[t].kind = "start" /\ op[t].pc = "begun"
    BY <1>4 DEF Prepare
  <2>1. CASE Fault({}) /\ StartFails(t)
    BY <2>0, <2>1, <1>0 DEF StartFails, Finish, End, Halts, Resting
  <2>2. CASE Goto(t, "extract") /\ UNCHANGED <<screen, mode, session, told, phone, ghosts>>
    BY <2>0, <2>2, <1>0 DEF Goto, Halts, Resting
  <2> QED
    BY <1>4, <2>1, <2>2 DEF Prepare
<1>5. ASSUME NEW t \in Threads, Extract(t) PROVE Halts'
  <2>0. op[t].kind = "start" /\ op[t].pc = "extract"
    BY <1>5 DEF Extract
  <2>1. CASE BinaryBusy /\ StartFails(t) /\ UNCHANGED ghosts
    BY <2>0, <2>1, <1>0 DEF StartFails, Finish, End, Halts, Resting
  <2>2. CASE /\ ~BinaryBusy /\ Goto(t, "writing")
             /\ UNCHANGED <<screen, mode, session, told, phone, ghosts>>
    BY <2>0, <2>2, <1>0 DEF Goto, Halts, Resting
  <2> QED
    BY <1>5, <2>1, <2>2 DEF Extract
<1>6. ASSUME NEW t \in Threads, WriteConfig(t) PROVE Halts'
  BY <1>6, <1>0 DEF WriteConfig, Goto, Halts, Resting
<1>7. ASSUME NEW t \in Threads, Test(t) PROVE Halts'
  <2>0. op[t].pc = "testing"
    BY <1>7 DEF Test
  <2>1. CASE StartFails(t) /\ UNCHANGED ghosts
    BY <2>0, <2>1, <1>0 DEF StartFails, Finish, End, Halts, Resting
  <2>2. CASE /\ Goto(t, "launched")
             /\ shell' = [shell EXCEPT ![t] = [pc |-> "ip", addr |-> op[t].addr, code |-> 0]]
             /\ UNCHANGED <<screen, mode, session, told, config, pidFile, onIface, server,
                            ghosts>>
    BY <2>0, <2>2, <1>0 DEF Goto, Halts, Resting
  <2> QED
    BY <1>7, <2>1, <2>2 DEF Test
<1>8. ASSUME NEW t \in Threads, Confirm(t) PROVE Halts'
  <2>0. op[t].pc = "launched" /\ shell[t].pc = "done"
    BY <1>8 DEF Confirm
  <2>1. CASE /\ shell[t].code # 0 \/ ~IsPxeRunning
             /\ StartFails(t) /\ events' = events \cup {"failed"}
    BY <2>0, <2>1, <1>0 DEF StartFails, Finish, End, Halts, Resting
  <2>2. CASE Fault({"failed", "denied"}) /\ StartFails(t)
    BY <2>0, <2>2, <1>0 DEF StartFails, Finish, End, Halts, Resting
  <2>3. CASE /\ shell[t].code = 0 /\ IsPxeRunning /\ Goto(t, "save")
             /\ UNCHANGED <<screen, mode, session, told, phone, ghosts>>
    BY <2>0, <2>3, <1>0 DEF Goto, Halts, Resting
  <2> QED
    BY <1>8, <2>1, <2>2, <2>3 DEF Confirm
<1>9. ASSUME NEW t \in Threads, SaveSession(t) PROVE Halts'
  BY <1>9, <1>0 DEF SaveSession, Finish, Fits, Alone, Halts, Resting
<1>10. ASSUME NEW t \in Threads, StopPxe(t) PROVE Halts'
  <2>0. op[t].kind \in {"stop", "hook"} /\ op[t].pc = "begun" /\ Goto(t, "stopping")
    BY <1>10 DEF StopPxe
  <2>1. CASE /\ shell' = [shell EXCEPT ![t] = [pc |-> "kill", addr |-> session.memory, code |-> 0]]
             /\ UNCHANGED ghosts
             /\ UNCHANGED <<screen, mode, session, told, config, pidFile, onIface, server>>
    BY <2>0, <2>1, <1>0 DEF Goto, Halts, Resting
  <2>2. CASE /\ shell' = [shell EXCEPT ![t] = [pc |-> "done", addr |-> None, code |-> 1]]
             /\ Fault({})
             /\ UNCHANGED <<screen, mode, session, told, config, pidFile, onIface, server>>
    BY <2>0, <2>2, <1>0 DEF Goto, Halts, Resting
  <2> QED
    BY <1>10, <2>1, <2>2 DEF StopPxe
<1>11. ASSUME NEW t \in Threads, Stopped(t) PROVE Halts'
  BY <1>11, <1>0 DEF Stopped, Finish, End, Halts, Resting
<1>12. ASSUME NEW t \in Threads, NotStopped(t) PROVE Halts'
  <2>0. /\ op[t].pc = "stopping" /\ shell[t].pc = "done" /\ shell[t].code # 0
        /\ Finish(t, "not stopped", "running")
        /\ UNCHANGED <<session, config, pidFile, onIface, server, ghosts>>
    BY <1>12 DEF NotStopped
  <2>1. CASE op[t].kind = "hook" /\ Begin
    BY <2>0, <2>1, <1>0 DEF Finish, Begin, Screens, Halts, Resting
  <2>2. CASE op[t].kind # "hook" /\ UNCHANGED mode
    BY <2>0, <2>2, <1>0 DEF Finish, Screens, Halts, Resting
  <2> QED
    BY <1>12, <2>1, <2>2 DEF NotStopped
<1>13. ASSUME NEW t \in Threads, IpReplace(t) PROVE Halts'
  <2>0. shell[t].pc = "ip" /\ UNCHANGED <<app, config, pidFile, server>>
    BY <1>13 DEF IpReplace, ShellAt
  <2>1. CASE Fault({}) /\ ShellEnds(t, 1) /\ UNCHANGED onIface
    BY <2>0, <2>1, <1>0 DEF ShellEnds, app, Halts, Resting
  <2>2. CASE /\ onIface' = onIface \cup {shell[t].addr}
             /\ ShellGoes(t, "rmOld") /\ UNCHANGED ghosts
    BY <2>0, <2>2, <1>0 DEF ShellGoes, app, Halts, Resting
  <2> QED
    BY <1>13, <2>1, <2>2 DEF IpReplace, ShellAt
<1>14. ASSUME NEW t \in Threads, RemoveOld(t) PROVE Halts'
  BY <1>14, <1>0 DEF RemoveOld, ShellAt, ShellGoes, app, Halts, Resting
<1>15. ASSUME NEW t \in Threads, Exec(t) PROVE Halts'
  <2>0. shell[t].pc = "exec" /\ UNCHANGED <<app, config, pidFile, onIface, ghosts>>
    BY <1>15 DEF Exec, ShellAt, Writing
  <2>1. CASE ShellEnds(t, 1) /\ UNCHANGED server
    BY <2>0, <2>1, <1>0 DEF ShellEnds, app, Halts, Resting
  <2>2. CASE \E p \in Pids :
             /\ server[p].pc = "off"
             /\ server' = [server EXCEPT ![p] = [pc |-> "load", term |-> FALSE, shell |-> t]]
             /\ ShellGoes(t, "server")
    BY <2>0, <2>2, <1>0 DEF ShellGoes, app, Halts, Resting
  <2> QED
    BY <1>15, <2>1, <2>2 DEF Exec, ShellAt, Writing
<1>16. ASSUME NEW t \in Threads, Kill(t) PROVE Halts'
  BY <1>16, <1>0 DEF Kill, ShellAt, Killed, app, Halts, Resting
<1>17. ASSUME NEW t \in Threads, RemoveFile(t) PROVE Halts'
  BY <1>17, <1>0 DEF RemoveFile, ShellAt, ShellGoes, app, Halts, Resting
<1>18. ASSUME NEW t \in Threads, IpDelete(t) PROVE Halts'
  BY <1>18, <1>0 DEF IpDelete, ShellAt, ShellEnds, app, Halts, Resting
<1>19. CASE Look
  <2>1. \A t \in Threads : op'[t].kind = op[t].kind /\ op'[t].pc = op[t].pc
    BY <1>0, <1>19 DEF Look, Ops
  <2>2. screen'.page = "asking" /\ mode' = mode
    BY <1>19 DEF Look
  <2> QED
    BY <2>1, <2>2 DEF Halts, Resting
<1>20. CASE Show
  BY <1>20, <1>0 DEF Show, Begin, Halts, Resting
<1>21. CASE Persist
  BY <1>21, <1>0 DEF Persist, Halts, Resting
<1>22. ASSUME NEW p \in Pids, Load(p) PROVE Halts'
  <2>0. server[p].pc = "load" /\ events \subseteq events'
    BY <1>22 DEF Load, Fault, ghosts, GivesUp
  <2>1. CASE GivesUp(p)
    BY <2>0, <2>1, <1>0 DEF GivesUp, ServerGoes, Parent, ShellEnds, app, Halts, Resting
  <2>2. CASE ServerGoes(p, "forked") /\ UNCHANGED <<app, shell, config, pidFile, onIface, ghosts>>
    BY <2>0, <2>2, <1>0 DEF ServerGoes, app, Halts, Resting
  <2> QED
    BY <1>22, <2>1, <2>2 DEF Load, Fault, GivesUp
<1>23. ASSUME NEW p \in Pids, Unlink(p) PROVE Halts'
  BY <1>23, <1>0 DEF Unlink, ServerGoes, app, Halts, Resting
<1>24. ASSUME NEW p \in Pids, WritePid(p) PROVE Halts'
  <2>0. server[p].pc = "unlinked" /\ UNCHANGED ghosts
    BY <1>24 DEF WritePid
  <2>1. CASE GivesUp(p) /\ pidFile # None
    BY <2>0, <2>1, <1>0 DEF GivesUp, ServerGoes, Parent, ShellEnds, app, Halts, Resting
  <2>2. CASE /\ pidFile = None /\ pidFile' = p /\ ServerGoes(p, "written")
             /\ UNCHANGED <<app, shell, config, onIface>>
    BY <2>0, <2>2, <1>0 DEF ServerGoes, app, Halts, Resting
  <2> QED
    BY <1>24, <2>1, <2>2 DEF WritePid
<1>25. ASSUME NEW p \in Pids, Release(p) PROVE Halts'
  <2>0. server[p].pc = "written"
    BY <1>25 DEF Release, Fault, GivesUp
  <2>1. CASE GivesUp(p) /\ Fault({"crash"})
    BY <2>0, <2>1, <1>0 DEF GivesUp, ServerGoes, Parent, ShellEnds, app, Halts, Resting
  <2>2. CASE /\ ServerGoes(p, "ready") /\ Parent(p, 0)
             /\ UNCHANGED <<app, config, pidFile, onIface, ghosts>>
    BY <2>0, <2>2, <1>0 DEF ServerGoes, Parent, ShellEnds, app, Halts, Resting
  <2> QED
    BY <1>25, <2>1, <2>2 DEF Release, Fault, GivesUp
<1>26. ASSUME NEW p \in Pids, Terminate(p) PROVE Halts'
  BY <1>26, <1>0 DEF Terminate, ServerGoes, app, Halts, Resting
<1>27. ASSUME NEW p \in Pids, Exit(p) PROVE Halts'
  BY <1>27, <1>0 DEF Exit, ServerGoes, app, Halts, Resting
<1>28. ASSUME NEW p \in Pids, Crash(p) PROVE Halts'
  BY <1>28, <1>0 DEF Crash, ServerGoes, app, Halts, Resting
<1>29. ASSUME NEW p \in Pids, Reuse(p) PROVE Halts'
  BY <1>29, <1>0 DEF Reuse, ServerGoes, app, Halts, Resting
<1>30. CASE Death
  BY <1>30, <1>0 DEF Death, AppGone, NoOp, Halts, Resting
<1>31. CASE Reboot
  BY <1>31, <1>0 DEF Reboot, AppGone, NoOp, Halts, Resting
<1>32. CASE UNCHANGED vars
  BY <1>32 DEF vars, Halts, Resting
<1> QED
  BY <1>1, <1>2, <1>3, <1>4, <1>5, <1>6, <1>7, <1>8, <1>9, <1>10, <1>11, <1>12, <1>13, <1>14,
     <1>15, <1>16, <1>17, <1>18, <1>19, <1>20, <1>21, <1>22, <1>23, <1>24, <1>25, <1>26, <1>27,
     <1>28, <1>29, <1>30, <1>31, <1>32 DEF Next, ThreadStep, ShellStep, ServerStep

\* Each operation leaves the page and the notification as the server is.
LEMMA TellsStep == TypeOK /\ Alone /\ ~MayOverlap /\ Halts /\ Tells /\ [Next]_vars => Tells'
<1> SUFFICES ASSUME TypeOK, Alone, ~MayOverlap, Halts, Tells, [Next]_vars PROVE Tells'
  OBVIOUS
<1>0. /\ op \in [Threads -> Ops] /\ shell \in [Threads -> Shells]
      /\ server \in [Pids -> Servers]
      /\ screen \in Screens /\ mode \in [shown : BOOLEAN, stopping : BOOLEAN]
  BY DEF TypeOK
<1>1. ASSUME NEW t \in Threads, TapStart(t) PROVE Tells'
  BY <1>1, <1>0 DEF TapStart, Tap, Begin, phone, InFlight, Up, Looked, Tells, TellsAt, Resting
<1>2. ASSUME NEW t \in Threads, TapStop(t) PROVE Tells'
  BY <1>2, <1>0 DEF TapStop, Tap, phone, InFlight, Up, Looked, Tells, TellsAt, Resting
<1>3. ASSUME NEW t \in Threads, TapHook(t) PROVE Tells'
  <2> SUFFICES ASSUME Looked' PROVE Tells'
    BY DEF Tells
  <2>1. /\ mode.shown /\ mode'.shown /\ \A u \in Threads : ~InFlight(u)
        /\ op' = [op EXCEPT ![t] = [kind |-> "hook", pc |-> "begun", addr |-> None, mine |-> FALSE]]
        /\ screen' = screen /\ shell' = shell
    BY <1>0, <1>3 DEF TapHook, Tap, phone
  <2>2. Looked /\ screen.page # "asking"
    BY <1>3 DEF TapHook, Tap, Occurs, Looked
  <2>3. screen.page # "closed" /\ Resting
    BY <2>1 DEF Halts, Resting, InFlight
  <2>4. Up # {} /\ screen.page # "setup" /\ Up' = Up
    BY <1>3, <2>1, <2>2, <2>3 DEF Tells, TapHook, phone, Up
  <2>5. ~Resting' /\ op'[t].kind = "hook"
    BY <1>0, <2>1 DEF Resting
  <2>6. \A u \in Threads : u # t => op'[u].kind = "none"
    BY <1>0, <2>1, <2>3 DEF Resting, Alone, Fits
  <2>7. \A u \in Threads : TellsAt(u)'
    BY <2>1, <2>4, <2>5, <2>6 DEF TellsAt
  <2> QED
    BY <2>1, <2>2, <2>4, <2>5, <2>7 DEF Tells
<1>4. ASSUME NEW t \in Threads, Prepare(t) PROVE Tells'
  <2>0. op[t].kind = "start" /\ op[t].pc = "begun"
    BY <1>4 DEF Prepare
  <2>1. CASE Fault({}) /\ StartFails(t)
    BY <2>0, <2>1, <1>0 DEF StartFails, Finish, End, NoOp, NoShell, Fault, Ops, Alone, Parents,
       Fits, OneThread, InFlight, Up, Looked, Tells, TellsAt, Halts, Resting
  <2>2. CASE Goto(t, "extract") /\ UNCHANGED <<screen, mode, session, told, phone, ghosts>>
    BY <2>0, <2>2, <1>0 DEF Goto, phone, ghosts, Alone, Parents, Fits, OneThread, InFlight, Up,
       Looked, Tells, TellsAt, Halts, Resting
  <2> QED
    BY <1>4, <2>1, <2>2 DEF Prepare
<1>5. ASSUME NEW t \in Threads, Extract(t) PROVE Tells'
  <2>0. op[t].kind = "start" /\ op[t].pc = "extract"
    BY <1>5 DEF Extract
  <2>1. CASE BinaryBusy /\ StartFails(t) /\ UNCHANGED ghosts
    BY <2>0, <2>1, <1>0 DEF StartFails, Finish, End, NoOp, NoShell, ghosts, Alone, Parents,
       Fits, OneThread, InFlight, Up, Looked, Tells, TellsAt, Halts, Resting
  <2>2. CASE /\ ~BinaryBusy /\ Goto(t, "writing")
             /\ UNCHANGED <<screen, mode, session, told, phone, ghosts>>
    BY <2>0, <2>2, <1>0 DEF Goto, ghosts, Alone, Parents, Fits, OneThread, InFlight, Looked,
       Tells, TellsAt, Halts, Resting
  <2> QED
    BY <1>5, <2>1, <2>2 DEF Extract
<1>6. ASSUME NEW t \in Threads, WriteConfig(t) PROVE Tells'
  BY <1>6, <1>0 DEF WriteConfig, Goto, ghosts, Alone, Parents, Fits, OneThread, InFlight,
     Looked, Tells, TellsAt, Halts, Resting
<1>7. ASSUME NEW t \in Threads, Test(t) PROVE Tells'
  <2>0. op[t].pc = "testing"
    BY <1>7 DEF Test
  <2>1. CASE StartFails(t) /\ UNCHANGED ghosts
    BY <2>0, <2>1, <1>0 DEF StartFails, Finish, End, NoOp, NoShell, ghosts, Alone, OneServer,
       Parents, Named, NameHolds, Fits, Live, NoneThere, Clear, Without, OneThread, InFlight,
       Up, Looked, Tells, TellsAt, Halts, Resting
  <2>2. CASE /\ Goto(t, "launched")
             /\ shell' = [shell EXCEPT ![t] = [pc |-> "ip", addr |-> op[t].addr, code |-> 0]]
             /\ UNCHANGED <<screen, mode, session, told, config, pidFile, onIface, server,
                            ghosts>>
    BY <2>0, <2>2, <1>0 DEF Goto, ghosts, Alone, Parents, Fits, OneThread, InFlight, Looked,
       Tells, TellsAt, Halts, Resting
  <2> QED
    BY <1>7, <2>1, <2>2 DEF Test
<1>8. ASSUME NEW t \in Threads, Confirm(t) PROVE Tells'
  <2>0. op[t].pc = "launched" /\ shell[t].pc = "done"
    BY <1>8 DEF Confirm
  <2>1. CASE /\ shell[t].code # 0 \/ ~IsPxeRunning
             /\ StartFails(t) /\ events' = events \cup {"failed"}
    <3>1. Up = {} /\ Up' = Up
      <4>1. \A u \in Threads : shell[u].pc \notin {"server", "rm"}
        BY <2>0 DEF Alone, OneThread, InFlight
      <4>2. ~IsPxeRunning => Up = {}
        BY <4>1, RunningMeansUp
      <4> QED
        BY <2>0, <2>1, <4>2 DEF Alone, NoneThere, Without, StartFails, Up
    <3>a. op[t].kind = "start"
      BY <1>0, <2>0 DEF Alone, Fits, Ops
    <3>2. \A u \in Threads : u # t => ~InFlight(u)
      BY <2>0 DEF Alone, OneThread, InFlight
    <3> HIDE DEF Up
    <3> QED
      BY <1>0, <2>0, <2>1, <3>1, <3>a, <3>2 DEF StartFails, Finish, End, NoOp, NoShell, Looked,
         Tells, TellsAt, Resting, InFlight, Alone, Fits
  <2>2. CASE Fault({"failed", "denied"}) /\ StartFails(t)
    BY <2>0, <2>2, <1>0 DEF StartFails, Finish, End, Fault, Looked, Tells, TellsAt, Resting
  <2>3. CASE /\ shell[t].code = 0 /\ IsPxeRunning /\ Goto(t, "save")
             /\ UNCHANGED <<screen, mode, session, told, phone, ghosts>>
    <3>1. \A u \in Threads : shell[u].pc \notin {"server", "rm"}
      BY <2>0 DEF Alone, OneThread, InFlight
    <3>2. Up' = Up /\ ("crash" \notin events => Up # {})
      BY <2>3, <3>1, RunningMeansUp DEF Up, phone
    <3>a. op[t].kind = "start"
      BY <1>0, <2>0 DEF Alone, Fits, Ops
    <3>3. \A u \in Threads : u # t => ~InFlight(u)
      BY <2>0 DEF Alone, OneThread, InFlight
    <3> QED
      BY <1>0, <2>0, <2>3, <3>2, <3>a, <3>3 DEF Goto, ghosts, Looked, Tells, TellsAt, Resting,
         InFlight
  <2> QED
    BY <1>8, <2>1, <2>2, <2>3 DEF Confirm
<1>9. ASSUME NEW t \in Threads, SaveSession(t) PROVE Tells'
  BY <1>9, <1>0 DEF SaveSession, Finish, NoOp, NoShell, ghosts, Ops, Alone, Parents, Fits,
     OneThread, InFlight, Up, Looked, Tells, TellsAt, Halts, Resting
<1>10. ASSUME NEW t \in Threads, StopPxe(t) PROVE Tells'
  <2>0. op[t].kind \in {"stop", "hook"} /\ op[t].pc = "begun" /\ Goto(t, "stopping")
    BY <1>10 DEF StopPxe
  <2>1. CASE /\ shell' = [shell EXCEPT ![t] = [pc |-> "kill", addr |-> session.memory, code |-> 0]]
             /\ UNCHANGED ghosts
             /\ UNCHANGED <<screen, mode, session, told, config, pidFile, onIface, server>>
    BY <2>0, <2>1, <1>0 DEF Goto, ghosts, Alone, OneServer, Parents, Named, NameHolds, Fits,
       NoneThere, Clear, Without, OneThread, InFlight, Up, Looked, Tells, TellsAt, Halts,
       Resting
  <2>2. CASE /\ shell' = [shell EXCEPT ![t] = [pc |-> "done", addr |-> None, code |-> 1]]
             /\ Fault({})
             /\ UNCHANGED <<screen, mode, session, told, config, pidFile, onIface, server>>
    BY <2>0, <2>2, <1>0 DEF Goto, Fault, Alone, OneServer, Parents, Named, NameHolds, Fits,
       NoneThere, Clear, Without, OneThread, InFlight, Up, Looked, Tells, TellsAt, Halts,
       Resting
  <2> QED
    BY <1>10, <2>1, <2>2 DEF StopPxe
<1>11. ASSUME NEW t \in Threads, Stopped(t) PROVE Tells'
  BY <1>11, <1>0 DEF Stopped, Finish, End, NoOp, NoShell, ghosts, Alone, OneServer, Parents,
     Named, NameHolds, Fits, NoneThere, Clear, Without, OneThread, InFlight, Up, Looked, Tells,
     TellsAt, Halts, Resting
<1>12. ASSUME NEW t \in Threads, NotStopped(t) PROVE Tells'
  <2> SUFFICES ASSUME Looked' PROVE Tells'
    BY DEF Tells
  <2>1. /\ op[t].pc = "stopping" /\ shell[t].pc = "done" /\ shell[t].code # 0
        /\ op' = [op EXCEPT ![t] = NoOp] /\ shell' = [shell EXCEPT ![t] = NoShell]
        /\ Up' = Up /\ Looked
    BY <1>12 DEF NotStopped, Finish, Up, Looked, ghosts
  <2>2. op[t].kind \in {"stop", "hook"} /\ ~Without(t)
    BY <1>0, <2>1 DEF Without, Alone, Fits, Ops
  <2>3. screen.page = "running"
    BY <1>0, <2>1, <2>2 DEF Halts, Resting, Tells, InFlight, Screens
  <2>4. screen'.page = "running"
    BY <1>0, <1>12, <2>3 DEF NotStopped, Finish, Screens
  <2>5. mode'.shown <=> Up # {}
    <3>1. TellsAt(t)
      BY <2>1 DEF Tells
    <3>2. CASE op[t].kind = "hook"
      <4>1. mode' = [shown |-> TRUE, stopping |-> FALSE]
        BY <1>12, <3>2 DEF NotStopped, Begin
      <4> QED
        BY <2>2, <3>1, <3>2, <4>1 DEF TellsAt
    <3>3. CASE op[t].kind = "stop"
      BY <1>12, <2>2, <3>1, <3>3 DEF TellsAt, NotStopped
    <3> QED
      BY <2>2, <3>2, <3>3
  <2>6. \A u \in Threads : ~InFlight(u)' /\ op'[u].kind = "none"
    BY <1>0, <2>1 DEF Alone, OneThread, Fits, InFlight, NoOp, NoShell
  <2> QED
    BY <2>1, <2>4, <2>5, <2>6 DEF Tells, TellsAt
<1>13. ASSUME NEW t \in Threads, IpReplace(t) PROVE Tells'
  <2>0. shell[t].pc = "ip" /\ UNCHANGED <<app, config, pidFile, server>>
    BY <1>13 DEF IpReplace, ShellAt
  <2>1. CASE Fault({}) /\ ShellEnds(t, 1) /\ UNCHANGED onIface
    BY <2>0, <2>1, <1>0 DEF ShellEnds, app, Fault, Alone, Parents, Fits, OneThread, InFlight,
       Looked, Tells, TellsAt, Halts, Resting
  <2>2. CASE /\ onIface' = onIface \cup {shell[t].addr}
             /\ ShellGoes(t, "rmOld") /\ UNCHANGED ghosts
    BY <2>0, <2>2, <1>0 DEF ShellGoes, app, ghosts, Alone, Parents, Fits, OneThread, InFlight,
       Looked, Tells, TellsAt, Halts, Resting
  <2> QED
    BY <1>13, <2>1, <2>2 DEF IpReplace, ShellAt
<1>14. ASSUME NEW t \in Threads, RemoveOld(t) PROVE Tells'
  BY <1>14, <1>0 DEF RemoveOld, ShellAt, ShellGoes, app, ghosts, Alone, Parents, Fits,
     OneThread, InFlight, Looked, Tells, TellsAt, Halts, Resting
<1>15. ASSUME NEW t \in Threads, Exec(t) PROVE Tells'
  <2>0. shell[t].pc = "exec" /\ UNCHANGED <<app, config, pidFile, onIface, ghosts>>
    BY <1>15 DEF Exec, ShellAt, Writing
  <2>1. CASE ShellEnds(t, 1) /\ UNCHANGED server
    BY <2>0, <2>1, <1>0 DEF ShellEnds, app, ghosts, Alone, Parents, Fits, OneThread, InFlight,
       Looked, Tells, TellsAt, Halts, Resting
  <2>2. CASE \E p \in Pids :
             /\ server[p].pc = "off"
             /\ server' = [server EXCEPT ![p] = [pc |-> "load", term |-> FALSE, shell |-> t]]
             /\ ShellGoes(t, "server")
    BY <2>0, <2>2, <1>0 DEF ShellGoes, app, ghosts, Alone, Parents, Fits, OneThread, InFlight,
       Looked, Tells, TellsAt, Halts, Resting
  <2> QED
    BY <1>15, <2>1, <2>2 DEF Exec, ShellAt, Writing
<1>16. ASSUME NEW t \in Threads, Kill(t) PROVE Tells'
  BY <1>16, <1>0 DEF Kill, ShellAt, Killed, app, Alone, OneServer, Parents, Named, NameHolds,
     Fits, NoneThere, Clear, Without, OneThread, InFlight, Looked, Tells, TellsAt, Halts,
     Resting
<1>17. ASSUME NEW t \in Threads, RemoveFile(t) PROVE Tells'
  BY <1>17, <1>0 DEF RemoveFile, ShellAt, ShellGoes, app, ghosts, OneServer, Parents, Named,
     NameHolds, NoneThere, Clear, Without, OneThread, InFlight, Up, Looked, Tells, TellsAt,
     Halts, Resting
<1>18. ASSUME NEW t \in Threads, IpDelete(t) PROVE Tells'
  BY <1>18, <1>0 DEF IpDelete, ShellAt, ShellEnds, app, ghosts, Alone, OneServer, Parents,
     Named, NameHolds, Fits, NoneThere, Clear, Without, OneThread, InFlight, Looked, Tells,
     TellsAt, Halts, Resting
<1>19. CASE Look
  <2> SUFFICES ASSUME Looked' PROVE Tells'
    BY DEF Tells
  <2>1. /\ screen' = [page |-> "asking", busy |-> FALSE, saw |-> IsPxeRunning]
        /\ Early = {} /\ "crash" \notin events
    BY <1>19 DEF Look, Fault, Looked, Early
  <2>2. \A u \in Threads : ~InFlight(u)
    BY <2>1 DEF Early
  <2>3. /\ \A u \in Threads : op'[u].pc = op[u].pc /\ op'[u].kind = op[u].kind
        /\ shell' = shell /\ Up' = Up
    BY <1>0, <1>19 DEF Look, Ops, phone, Up
  <2>4. IsPxeRunning <=> Up # {}
    BY <2>1, <2>2, RunningMeansUp DEF InFlight
  <2>5. \A u \in Threads : ~InFlight(u)' /\ op'[u].kind = "none"
    BY <2>2, <2>3 DEF InFlight, Alone, Fits
  <2>6. screen'.page = "asking" /\ (screen'.saw <=> Up' # {})
    BY <2>1, <2>3, <2>4
  <2>7. \A u \in Threads : TellsAt(u)'
    BY <2>5 DEF TellsAt
  <2>8. mode' = mode /\ (mode.shown => Up' # {})
    <3>1. Looked /\ Resting
      BY <1>19, <2>2 DEF Look, Fault, Looked, Resting, InFlight
    <3> QED
      BY <1>19, <2>3, <3>1 DEF Look, Tells, Halts
  <2> QED
    BY <2>5, <2>6, <2>7, <2>8 DEF Tells
<1>20. CASE Show
  BY <1>20, <1>0 DEF Show, Begin, phone, ghosts, Alone, Fits, InFlight, Up, Looked, Tells,
     TellsAt, Resting
<1>21. CASE Persist
  BY <1>21, <1>0 DEF Persist, phone, ghosts, OneServer, Parents, Named, NameHolds, NoneThere,
     Clear, Without, OneThread, InFlight, Up, Looked, Tells, TellsAt, Halts, Resting
<1>22. ASSUME NEW p \in Pids, Load(p) PROVE Tells'
  <2>0. server[p].pc = "load" /\ events \subseteq events'
    BY <1>22 DEF Load, Fault, ghosts, GivesUp
  <2>1. CASE GivesUp(p)
    BY <2>0, <2>1, <1>0 DEF GivesUp, ServerGoes, Parent, ShellEnds, app, Alone, Parents, Fits,
       Starting, OneThread, InFlight, Looked, Tells, TellsAt, Halts, Resting
  <2>2. CASE ServerGoes(p, "forked") /\ UNCHANGED <<app, shell, config, pidFile, onIface, ghosts>>
    BY <2>0, <2>2, <1>0 DEF ServerGoes, app, Alone, Parents, Fits, Starting, OneThread,
       InFlight, Looked, Tells, TellsAt, Halts, Resting
  <2> QED
    BY <1>22, <2>1, <2>2 DEF Load, Fault, GivesUp
<1>23. ASSUME NEW p \in Pids, Unlink(p) PROVE Tells'
  BY <1>23, <1>0 DEF Unlink, ServerGoes, app, ghosts, Alone, Parents, Fits, Starting, OneThread,
     InFlight, Looked, Tells, TellsAt, Halts, Resting
<1>24. ASSUME NEW p \in Pids, WritePid(p) PROVE Tells'
  <2>0. server[p].pc = "unlinked" /\ UNCHANGED ghosts
    BY <1>24 DEF WritePid
  <2>1. CASE GivesUp(p) /\ pidFile # None
    BY <2>0, <2>1, <1>0 DEF GivesUp, ServerGoes, Parent, ShellEnds, app, ghosts, Alone, Parents,
       Fits, Starting, OneThread, InFlight, Looked, Tells, TellsAt, Halts, Resting
  <2>2. CASE /\ pidFile = None /\ pidFile' = p /\ ServerGoes(p, "written")
             /\ UNCHANGED <<app, shell, config, onIface>>
    BY <2>0, <2>2, <1>0 DEF ServerGoes, app, ghosts, Alone, Parents, Fits, Starting, OneThread,
       InFlight, Looked, Tells, TellsAt, Halts, Resting
  <2> QED
    BY <1>24, <2>1, <2>2 DEF WritePid
<1>25. ASSUME NEW p \in Pids, Release(p) PROVE Tells'
  <2>0. server[p].pc = "written"
    BY <1>25 DEF Release, Fault, GivesUp
  <2>1. CASE GivesUp(p) /\ Fault({"crash"})
    BY <2>0, <2>1, <1>0 DEF GivesUp, ServerGoes, Parent, ShellEnds, Fault, Looked, Tells,
       TellsAt, Resting
  <2>2. CASE /\ ServerGoes(p, "ready") /\ Parent(p, 0)
             /\ UNCHANGED <<app, config, pidFile, onIface, ghosts>>
    BY <2>0, <2>2, <1>0 DEF ServerGoes, Parent, ShellEnds, app, ghosts, Alone, Parents, Fits,
       Starting, OneThread, InFlight, Looked, Tells, TellsAt, Halts, Resting
  <2> QED
    BY <1>25, <2>1, <2>2 DEF Release, Fault, GivesUp
<1>26. ASSUME NEW p \in Pids, Terminate(p) PROVE Tells'
  BY <1>26, <1>0 DEF Terminate, ServerGoes, app, ghosts, OneServer, Parents, Named, NameHolds,
     NoneThere, Clear, Without, OneThread, InFlight, Up, Looked, Tells, TellsAt, Halts, Resting
<1>27. ASSUME NEW p \in Pids, Exit(p) PROVE Tells'
  BY <1>27, <1>0 DEF Exit, ServerGoes, app, ghosts, OneServer, Parents, Named, NameHolds,
     NoneThere, Clear, Without, OneThread, InFlight, Up, Looked, Tells, TellsAt, Halts, Resting
<1>28. ASSUME NEW p \in Pids, Crash(p) PROVE Tells'
  BY <1>28, <1>0 DEF Crash, ServerGoes, Fault, Looked, Tells, TellsAt, Resting
<1>29. ASSUME NEW p \in Pids, Reuse(p) PROVE Tells'
  BY <1>29, <1>0 DEF Reuse, ServerGoes, Fault, app, OneServer, Parents, Named, NameHolds,
     NoneThere, Clear, Without, OneThread, InFlight, Up, Looked, Tells, TellsAt, Halts, Resting
<1>30. CASE Death
  BY <1>30, <1>0 DEF Death, AppGone, NoOp, Looked, Tells, TellsAt, Resting
<1>31. CASE Reboot
  BY <1>31, <1>0 DEF Reboot, AppGone, Fault, Looked, Tells, TellsAt, Resting
<1>32. CASE UNCHANGED vars
  BY <1>32 DEF vars, OneServer, Parents, Named, NameHolds, NoneThere, Clear, Without, OneThread,
     InFlight, Up, Looked, Tells, TellsAt, Halts, Resting
<1> QED
  BY <1>1, <1>2, <1>3, <1>4, <1>5, <1>6, <1>7, <1>8, <1>9, <1>10, <1>11, <1>12, <1>13, <1>14,
     <1>15, <1>16, <1>17, <1>18, <1>19, <1>20, <1>21, <1>22, <1>23, <1>24, <1>25, <1>26, <1>27,
     <1>28, <1>29, <1>30, <1>31, <1>32 DEF Next, ThreadStep, ShellStep, ServerStep

\* A start works for the thread that waits for it, and its server is there
\* when the session is saved.
LEMMA PlacesStep == TypeOK /\ Alone /\ ~MayOverlap /\ Placed /\ [Next]_vars => Places'
<1> SUFFICES ASSUME TypeOK, Alone, ~MayOverlap, Placed, [Next]_vars PROVE Places'
  OBVIOUS
<1>0. /\ op \in [Threads -> Ops] /\ shell \in [Threads -> Shells]
      /\ server \in [Pids -> Servers] /\ pidFile \in Pids \cup {None}
      /\ session \in [memory : Addrs, disk : Addrs]
  BY DEF TypeOK
<1>1. ASSUME NEW t \in Threads, TapStart(t) PROVE Places'
  BY <1>1, <1>0 DEF TapStart, Tap, Begin, phone, Parents, OneThread, InFlight, Kept, Places,
     Placed
<1>2. ASSUME NEW t \in Threads, TapStop(t) PROVE Places'
  BY <1>2, <1>0 DEF TapStop, Tap, phone, Parents, OneThread, InFlight, Kept, Places, Placed
<1>3. ASSUME NEW t \in Threads, TapHook(t) PROVE Places'
  BY <1>3, <1>0 DEF TapHook, Tap, phone, Parents, OneThread, InFlight, Kept, Places, Placed
<1>4. ASSUME NEW t \in Threads, Prepare(t) PROVE Places'
  <2>0. op[t].kind = "start" /\ op[t].pc = "begun"
    BY <1>4 DEF Prepare
  <2>1. CASE Fault({}) /\ StartFails(t)
    BY <2>0, <2>1, <1>0 DEF StartFails, Finish, End, NoOp, NoShell, Fault, Up, Kept, Places,
       Placed
  <2>2. CASE Goto(t, "extract") /\ UNCHANGED <<screen, mode, session, told, phone, ghosts>>
    BY <2>0, <2>2, <1>0 DEF Goto, phone, ghosts, Up, Kept, Places, Placed
  <2> QED
    BY <1>4, <2>1, <2>2 DEF Prepare
<1>5. ASSUME NEW t \in Threads, Extract(t) PROVE Places'
  <2>0. op[t].kind = "start" /\ op[t].pc = "extract"
    BY <1>5 DEF Extract
  <2>1. CASE BinaryBusy /\ StartFails(t) /\ UNCHANGED ghosts
    BY <2>0, <2>1, <1>0 DEF StartFails, Finish, End, NoOp, NoShell, ghosts, Up, Kept, Places,
       Placed
  <2>2. CASE /\ ~BinaryBusy /\ Goto(t, "writing")
             /\ UNCHANGED <<screen, mode, session, told, phone, ghosts>>
    BY <2>0, <2>2, <1>0 DEF Goto, phone, ghosts, Up, Kept, Places, Placed
  <2> QED
    BY <1>5, <2>1, <2>2 DEF Extract
<1>6. ASSUME NEW t \in Threads, WriteConfig(t) PROVE Places'
  BY <1>6, <1>0 DEF WriteConfig, Goto, ghosts, Up, Kept, Places, Placed
<1>7. ASSUME NEW t \in Threads, Test(t) PROVE Places'
  <2>0. op[t].pc = "testing"
    BY <1>7 DEF Test
  <2>1. CASE StartFails(t) /\ UNCHANGED ghosts
    BY <2>0, <2>1, <1>0 DEF StartFails, Finish, End, NoOp, NoShell, ghosts, Up, Kept, Places,
       Placed
  <2>2. CASE /\ Goto(t, "launched")
             /\ shell' = [shell EXCEPT ![t] = [pc |-> "ip", addr |-> op[t].addr, code |-> 0]]
             /\ UNCHANGED <<screen, mode, session, told, config, pidFile, onIface, server,
                            ghosts>>
    BY <2>0, <2>2, <1>0 DEF Goto, ghosts, Up, Kept, Places, Placed
  <2> QED
    BY <1>7, <2>1, <2>2 DEF Test
<1>8. ASSUME NEW t \in Threads, Confirm(t) PROVE Places'
  <2>0. op[t].pc = "launched" /\ shell[t].pc = "done"
    BY <1>8 DEF Confirm
  <2>1. CASE /\ shell[t].code # 0 \/ ~IsPxeRunning
             /\ StartFails(t) /\ events' = events \cup {"failed"}
    BY <2>0, <2>1, <1>0 DEF StartFails, Finish, End, Kept, Places, Placed
  <2>2. CASE Fault({"failed", "denied"}) /\ StartFails(t)
    BY <2>0, <2>2, <1>0 DEF StartFails, Finish, End, Fault, Kept, Places, Placed
  <2>3. CASE /\ shell[t].code = 0 /\ IsPxeRunning /\ Goto(t, "save")
             /\ UNCHANGED <<screen, mode, session, told, phone, ghosts>>
    <3>1. \A u \in Threads : shell[u].pc \notin {"server", "rm"}
      BY <2>0 DEF Alone, OneThread, InFlight
    <3>2. Up' = Up /\ ("crash" \notin events => Up # {})
      BY <2>3, <3>1, RunningMeansUp DEF Up, phone
    <3> QED
      BY <1>0, <2>0, <2>3, <3>2 DEF Goto, phone, ghosts, Kept, Placed, Places
  <2> QED
    BY <1>8, <2>1, <2>2, <2>3 DEF Confirm
<1>9. ASSUME NEW t \in Threads, SaveSession(t) PROVE Places'
  BY <1>9, <1>0 DEF SaveSession, Finish, NoOp, NoShell, Alone, Parents, OneThread, InFlight,
     Kept, Places, Placed
<1>10. ASSUME NEW t \in Threads, StopPxe(t) PROVE Places'
  <2>0. op[t].kind \in {"stop", "hook"} /\ op[t].pc = "begun" /\ Goto(t, "stopping")
    BY <1>10 DEF StopPxe
  <2>1. CASE /\ shell' = [shell EXCEPT ![t] = [pc |-> "kill", addr |-> session.memory, code |-> 0]]
             /\ UNCHANGED ghosts
             /\ UNCHANGED <<screen, mode, session, told, config, pidFile, onIface, server>>
    BY <2>0, <2>1, <1>0 DEF Goto, ghosts, Up, Kept, Places, Placed
  <2>2. CASE /\ shell' = [shell EXCEPT ![t] = [pc |-> "done", addr |-> None, code |-> 1]]
             /\ Fault({})
             /\ UNCHANGED <<screen, mode, session, told, config, pidFile, onIface, server>>
    BY <2>0, <2>2, <1>0 DEF Goto, Fault, Up, Kept, Places, Placed
  <2> QED
    BY <1>10, <2>1, <2>2 DEF StopPxe
<1>11. ASSUME NEW t \in Threads, Stopped(t) PROVE Places'
  BY <1>11, <1>0 DEF Stopped, Finish, End, NoOp, NoShell, ghosts, Up, Kept, Places, Placed
<1>12. ASSUME NEW t \in Threads, NotStopped(t) PROVE Places'
  <2>1. /\ op' = [op EXCEPT ![t] = NoOp] /\ shell' = [shell EXCEPT ![t] = NoShell]
        /\ Up' = Up /\ session' = session /\ events' = events
    BY <1>12 DEF NotStopped, Finish, Up, ghosts
  <2> QED
    BY <1>0, <2>1 DEF Placed, Places, Kept, NoOp, NoShell
<1>13. ASSUME NEW t \in Threads, IpReplace(t) PROVE Places'
  <2>0. shell[t].pc = "ip" /\ UNCHANGED <<app, config, pidFile, server>>
    BY <1>13 DEF IpReplace, ShellAt
  <2>1. CASE Fault({}) /\ ShellEnds(t, 1) /\ UNCHANGED onIface
    BY <2>0, <2>1, <1>0 DEF ShellEnds, app, Fault, Up, Kept, Places, Placed
  <2>2. CASE /\ onIface' = onIface \cup {shell[t].addr}
             /\ ShellGoes(t, "rmOld") /\ UNCHANGED ghosts
    BY <2>0, <2>2, <1>0 DEF ShellGoes, app, ghosts, Up, Kept, Places, Placed
  <2> QED
    BY <1>13, <2>1, <2>2 DEF IpReplace, ShellAt
<1>14. ASSUME NEW t \in Threads, RemoveOld(t) PROVE Places'
  BY <1>14, <1>0 DEF RemoveOld, ShellAt, ShellGoes, app, ghosts, Up, Kept, Places, Placed
<1>15. ASSUME NEW t \in Threads, Exec(t) PROVE Places'
  <2>0. shell[t].pc = "exec" /\ UNCHANGED <<app, config, pidFile, onIface, ghosts>>
    BY <1>15 DEF Exec, ShellAt, Writing
  <2>1. CASE ShellEnds(t, 1) /\ UNCHANGED server
    BY <2>0, <2>1, <1>0 DEF ShellEnds, app, ghosts, Up, Kept, Places, Placed
  <2>2. CASE \E p \in Pids :
             /\ server[p].pc = "off"
             /\ server' = [server EXCEPT ![p] = [pc |-> "load", term |-> FALSE, shell |-> t]]
             /\ ShellGoes(t, "server")
    BY <2>0, <2>2, <1>0 DEF ShellGoes, app, ghosts, Up, Kept, Places, Placed
  <2> QED
    BY <1>15, <2>1, <2>2 DEF Exec, ShellAt, Writing
<1>16. ASSUME NEW t \in Threads, Kill(t) PROVE Places'
  <2>1. shell' = [shell EXCEPT ![t].pc = "rm"] /\ op' = op /\ session' = session
    BY <1>16, KillFacts DEF Kill, app
  <2>2. events \subseteq events'
    BY <1>16 DEF Kill
  <2>3. \A u \in Threads : op[u].pc # "save"
    BY <1>16 DEF Kill, ShellAt, Alone, Fits, OneThread, InFlight
  <2> QED
    BY <1>0, <2>1, <2>2, <2>3 DEF Placed, Places, Kept
<1>17. ASSUME NEW t \in Threads, RemoveFile(t) PROVE Places'
  BY <1>17, <1>0 DEF RemoveFile, ShellAt, ShellGoes, app, ghosts, Up, Kept, Places, Placed
<1>18. ASSUME NEW t \in Threads, IpDelete(t) PROVE Places'
  BY <1>18, <1>0 DEF IpDelete, ShellAt, ShellEnds, app, ghosts, Up, Kept, Places, Placed
<1>19. CASE Look
  BY <1>19, <1>0 DEF Look, Fault, Early, phone, Ops, Up, Kept, Places, Placed
<1>20. CASE Show
  BY <1>20, <1>0 DEF Show, Begin, phone, ghosts, Up, Kept, Places, Placed
<1>21. CASE Persist
  BY <1>21, <1>0 DEF Persist, phone, ghosts, Up, Kept, Places, Placed
<1>22. ASSUME NEW p \in Pids, Load(p) PROVE Places'
  <2>0. server[p].pc = "load" /\ events \subseteq events'
    BY <1>22 DEF Load, Fault, ghosts, GivesUp
  <2>1. CASE GivesUp(p)
    BY <2>0, <2>1, <1>0 DEF GivesUp, ServerGoes, Parent, ShellEnds, app, Up, Kept, Places,
       Placed
  <2>2. CASE ServerGoes(p, "forked") /\ UNCHANGED <<app, shell, config, pidFile, onIface, ghosts>>
    BY <2>0, <2>2, <1>0 DEF ServerGoes, app, Up, Kept, Places, Placed
  <2> QED
    BY <1>22, <2>1, <2>2 DEF Load, Fault, GivesUp
<1>23. ASSUME NEW p \in Pids, Unlink(p) PROVE Places'
  BY <1>23, <1>0 DEF Unlink, ServerGoes, app, ghosts, Up, Kept, Places, Placed
<1>24. ASSUME NEW p \in Pids, WritePid(p) PROVE Places'
  <2>0. server[p].pc = "unlinked" /\ UNCHANGED ghosts
    BY <1>24 DEF WritePid
  <2>1. CASE GivesUp(p) /\ pidFile # None
    BY <2>0, <2>1, <1>0 DEF GivesUp, ServerGoes, Parent, ShellEnds, app, ghosts, Up, Kept,
       Places, Placed
  <2>2. CASE /\ pidFile = None /\ pidFile' = p /\ ServerGoes(p, "written")
             /\ UNCHANGED <<app, shell, config, onIface>>
    BY <2>0, <2>2, <1>0 DEF ServerGoes, app, ghosts, Up, Kept, Places, Placed
  <2> QED
    BY <1>24, <2>1, <2>2 DEF WritePid
<1>25. ASSUME NEW p \in Pids, Release(p) PROVE Places'
  <2>0. server[p].pc = "written"
    BY <1>25 DEF Release, Fault, GivesUp
  <2>1. CASE GivesUp(p) /\ Fault({"crash"})
    BY <2>0, <2>1, <1>0 DEF GivesUp, ServerGoes, Parent, ShellEnds, Fault, Kept, Places, Placed
  <2>2. CASE /\ ServerGoes(p, "ready") /\ Parent(p, 0)
             /\ UNCHANGED <<app, config, pidFile, onIface, ghosts>>
    BY <2>0, <2>2, <1>0 DEF ServerGoes, Parent, ShellEnds, app, ghosts, Up, Kept, Places, Placed
  <2> QED
    BY <1>25, <2>1, <2>2 DEF Release, Fault, GivesUp
<1>26. ASSUME NEW p \in Pids, Terminate(p) PROVE Places'
  BY <1>26, <1>0 DEF Terminate, ServerGoes, app, ghosts, Up, Kept, Places, Placed
<1>27. ASSUME NEW p \in Pids, Exit(p) PROVE Places'
  BY <1>27, <1>0 DEF Exit, ServerGoes, app, ghosts, Up, Kept, Places, Placed
<1>28. ASSUME NEW p \in Pids, Crash(p) PROVE Places'
  BY <1>28, <1>0 DEF Crash, ServerGoes, Fault, Kept, Places, Placed
<1>29. ASSUME NEW p \in Pids, Reuse(p) PROVE Places'
  BY <1>29, <1>0 DEF Reuse, ServerGoes, Fault, app, Up, Kept, Places, Placed
<1>30. CASE Death
  <2>0. AppGone /\ events' = events \cup Lost /\ UNCHANGED phone
    BY <1>30 DEF Death, Fault
  <2> SUFFICES ASSUME Kept' PROVE Places'
    BY DEF Places
  <2>1. /\ Kept /\ session.memory = session.disk
        /\ \A u \in Threads : op[u].kind # "start"
    BY <2>0 DEF Kept, Lost
  <2>2. \A u \in Threads : op[u].pc \notin {"launched", "save"} /\ op'[u].pc = "idle"
    BY <1>0, <2>0, <2>1 DEF AppGone, NoOp, Alone, Fits, Ops
  <2>3. session'.memory = session.memory /\ shell' = shell /\ onIface' = onIface /\ Up' = Up
    BY <1>0, <2>0, <2>1 DEF AppGone, phone, Up
  <2> QED
    BY <2>1, <2>2, <2>3 DEF Placed, Places
<1>31. CASE Reboot
  BY <1>31, <1>0 DEF Reboot, AppGone, Fault, Kept, Places, Placed
<1>32. CASE UNCHANGED vars
  BY <1>32 DEF vars, Up, Kept, Places, Placed
<1> QED
  BY <1>1, <1>2, <1>3, <1>4, <1>5, <1>6, <1>7, <1>8, <1>9, <1>10, <1>11, <1>12, <1>13, <1>14,
     <1>15, <1>16, <1>17, <1>18, <1>19, <1>20, <1>21, <1>22, <1>23, <1>24, <1>25, <1>26, <1>27,
     <1>28, <1>29, <1>30, <1>31, <1>32 DEF Next, ThreadStep, ShellStep, ServerStep

\* An address is given by a start and taken by the stop of its session.
LEMMA OwnedStep == TypeOK /\ Alone /\ ~MayOverlap /\ Placed /\ [Next]_vars => Owned'
<1> SUFFICES ASSUME TypeOK, Alone, ~MayOverlap, Placed, [Next]_vars PROVE Owned'
  OBVIOUS
<1>0. /\ op \in [Threads -> Ops] /\ shell \in [Threads -> Shells]
      /\ server \in [Pids -> Servers] /\ pidFile \in Pids \cup {None}
      /\ session \in [memory : Addrs, disk : Addrs]
  BY DEF TypeOK
<1>1. ASSUME NEW t \in Threads, TapStart(t) PROVE Owned'
  BY <1>1, <1>0 DEF TapStart, Tap, Begin, phone, Parents, OneThread, InFlight, Up, Kept, Owner,
     Owned, Placed
<1>2. ASSUME NEW t \in Threads, TapStop(t) PROVE Owned'
  BY <1>2, <1>0 DEF TapStop, Tap, phone, Parents, OneThread, InFlight, Up, Kept, Owner, Owned,
     Placed
<1>3. ASSUME NEW t \in Threads, TapHook(t) PROVE Owned'
  BY <1>3, <1>0 DEF TapHook, Tap, phone, Parents, OneThread, InFlight, Up, Kept, Owner, Owned,
     Placed
<1>4. ASSUME NEW t \in Threads, Prepare(t) PROVE Owned'
  <2>0. op[t].kind = "start" /\ op[t].pc = "begun"
    BY <1>4 DEF Prepare
  <2>1. CASE Fault({}) /\ StartFails(t)
    BY <2>0, <2>1, <1>0 DEF StartFails, Finish, End, NoOp, Fault, Alone, Fits, Up, Kept, Owner,
       Owned, Placed
  <2>2. CASE Goto(t, "extract") /\ UNCHANGED <<screen, mode, session, told, phone, ghosts>>
    BY <2>0, <2>2, <1>0 DEF Goto, phone, ghosts, Up, Kept, Owner, Owned, Placed
  <2> QED
    BY <1>4, <2>1, <2>2 DEF Prepare
<1>5. ASSUME NEW t \in Threads, Extract(t) PROVE Owned'
  <2>0. op[t].kind = "start" /\ op[t].pc = "extract"
    BY <1>5 DEF Extract
  <2>1. CASE BinaryBusy /\ StartFails(t) /\ UNCHANGED ghosts
    BY <2>0, <2>1, <1>0 DEF StartFails, Finish, End, NoOp, ghosts, Ops, Servers, Alone, Fits,
       Up, Kept, Owner, Owned, Placed
  <2>2. CASE /\ ~BinaryBusy /\ Goto(t, "writing")
             /\ UNCHANGED <<screen, mode, session, told, phone, ghosts>>
    BY <2>0, <2>2, <1>0 DEF Goto, phone, ghosts, Up, Kept, Owner, Owned, Placed
  <2> QED
    BY <1>5, <2>1, <2>2 DEF Extract
<1>6. ASSUME NEW t \in Threads, WriteConfig(t) PROVE Owned'
  BY <1>6, <1>0 DEF WriteConfig, Goto, ghosts, Up, Kept, Owner, Owned, Placed
<1>7. ASSUME NEW t \in Threads, Test(t) PROVE Owned'
  <2>0. op[t].pc = "testing"
    BY <1>7 DEF Test
  <2>1. CASE StartFails(t) /\ UNCHANGED ghosts
    BY <2>0, <2>1, <1>0 DEF StartFails, Finish, End, NoOp, ghosts, Alone, Fits, Up, Kept, Owner,
       Owned, Placed
  <2>2. CASE /\ Goto(t, "launched")
             /\ shell' = [shell EXCEPT ![t] = [pc |-> "ip", addr |-> op[t].addr, code |-> 0]]
             /\ UNCHANGED <<screen, mode, session, told, config, pidFile, onIface, server,
                            ghosts>>
    BY <2>0, <2>2, <1>0 DEF Goto, ghosts, Alone, OneServer, Parents, Named, NameHolds, Fits,
       Live, NoneThere, Clear, Without, OneThread, Up, Kept, Owner, Owned, Places, Placed
  <2> QED
    BY <1>7, <2>1, <2>2 DEF Test
<1>8. ASSUME NEW t \in Threads, Confirm(t) PROVE Owned'
  <2>0. op[t].pc = "launched" /\ shell[t].pc = "done"
    BY <1>8 DEF Confirm
  <2>1. CASE /\ shell[t].code # 0 \/ ~IsPxeRunning
             /\ StartFails(t) /\ events' = events \cup {"failed"}
    BY <2>0, <2>1, <1>0 DEF StartFails, Finish, End, Kept, Owner, Owned, Placed
  <2>2. CASE Fault({"failed", "denied"}) /\ StartFails(t)
    BY <2>0, <2>2, <1>0 DEF StartFails, Finish, End, Fault, Kept, Owner, Owned, Placed
  <2>3. CASE /\ shell[t].code = 0 /\ IsPxeRunning /\ Goto(t, "save")
             /\ UNCHANGED <<screen, mode, session, told, phone, ghosts>>
    BY <2>0, <2>3, <1>0 DEF Goto, phone, ghosts, Kept, Owner, Owned, Placed
  <2> QED
    BY <1>8, <2>1, <2>2, <2>3 DEF Confirm
<1>9. ASSUME NEW t \in Threads, SaveSession(t) PROVE Owned'
  <2>1. /\ op[t].pc = "save" /\ session'.memory = op[t].addr
        /\ op' = [op EXCEPT ![t] = NoOp] /\ Up' = Up /\ onIface' = onIface /\ events' = events
    BY <1>0, <1>9 DEF SaveSession, Finish, Up, ghosts
  <2> SUFFICES ASSUME Kept, NEW a \in onIface PROVE Owner(a)'
    BY <2>1 DEF Owned, Kept
  <2>2. Up' # {}
    BY <2>1 DEF Placed, Places
  <2>3. \A u \in Threads : op'[u].pc = "idle"
    BY <1>0, <2>1 DEF Alone, OneThread, InFlight, NoOp
  <2>4. \A u \in Threads : shell[u].pc \notin {"rm", "del"}
    BY <2>1 DEF Alone, OneThread, InFlight, Fits
  <2>5. Owner(a)
    BY DEF Placed, Owned
  <2>6. PICK u \in Threads : op[u].pc \in {"launched", "save"} /\ a = op[u].addr
    BY <2>1, <2>4, <2>5 DEF Owner
  <2>7. a = op[t].addr
    BY <2>1, <2>6 DEF Alone, OneThread, InFlight
  <2> QED
    BY <2>1, <2>2, <2>3, <2>7 DEF Owner
<1>10. ASSUME NEW t \in Threads, StopPxe(t) PROVE Owned'
  <2>1. /\ op[t].pc = "begun" /\ op' = [op EXCEPT ![t].pc = "stopping"]
        /\ \/ shell' = [shell EXCEPT ![t] = [pc |-> "kill", addr |-> session.memory, code |-> 0]]
           \/ shell' = [shell EXCEPT ![t] = [pc |-> "done", addr |-> None, code |-> 1]]
        /\ Up' = Up /\ session' = session /\ onIface' = onIface /\ events \subseteq events'
    BY <1>10 DEF StopPxe, Goto, Up, Fault, ghosts
  <2>2. \A u \in Threads : /\ op'[u].addr = op[u].addr
                          /\ u # t => op'[u].pc = op[u].pc /\ shell'[u] = shell[u]
    BY <1>0, <2>1 DEF Ops
  <2>3. op'[t].pc = "stopping" /\ shell[t].pc \notin {"rm", "del"}
    BY <1>0, <2>1 DEF Ops, Alone, Fits
  <2> SUFFICES ASSUME Kept, NEW a \in onIface PROVE Owner(a)'
    BY <2>1 DEF Owned, Kept
  <2>4. Owner(a)
    BY DEF Placed, Owned
  <2> QED
    BY <2>1, <2>2, <2>3, <2>4 DEF Owner
<1>11. ASSUME NEW t \in Threads, Stopped(t) PROVE Owned'
  BY <1>11, <1>0 DEF Stopped, Finish, End, NoOp, ghosts, Up, Kept, Owner, Owned, Placed
<1>12. ASSUME NEW t \in Threads, NotStopped(t) PROVE Owned'
  <2>1. /\ op[t].pc = "stopping" /\ shell[t].pc = "done"
        /\ op' = [op EXCEPT ![t] = NoOp] /\ shell' = [shell EXCEPT ![t] = NoShell]
        /\ Up' = Up /\ session' = session /\ onIface' = onIface /\ events' = events
    BY <1>12 DEF NotStopped, Finish, Up, ghosts
  <2>2. op'[t].pc = "idle" /\ \A u \in Threads : u # t => op'[u] = op[u] /\ shell'[u] = shell[u]
    BY <1>0, <2>1 DEF NoOp
  <2> SUFFICES ASSUME Kept, NEW a \in onIface PROVE Owner(a)'
    BY <2>1 DEF Owned, Kept
  <2>3. Owner(a)
    BY DEF Placed, Owned
  <2> QED
    BY <2>1, <2>2, <2>3 DEF Owner
<1>13. ASSUME NEW t \in Threads, IpReplace(t) PROVE Owned'
  <2>0. shell[t].pc = "ip" /\ UNCHANGED <<app, config, pidFile, server>>
    BY <1>13 DEF IpReplace, ShellAt
  <2>1. CASE Fault({}) /\ ShellEnds(t, 1) /\ UNCHANGED onIface
    BY <2>0, <2>1, <1>0 DEF ShellEnds, app, Fault, Servers, Alone, OneServer, Parents, Named,
       NameHolds, NoneThere, Clear, Without, OneThread, Kept, Owner, Owned, Places, Placed
  <2>2. CASE /\ onIface' = onIface \cup {shell[t].addr}
             /\ ShellGoes(t, "rmOld") /\ UNCHANGED ghosts
    <3>1. /\ op' = op /\ events' = events /\ Up = {} /\ Up' = Up
          /\ \A u \in Threads : shell[u].pc \notin {"rm", "del"}
      BY <2>0, <2>2 DEF app, ghosts, Up, Alone, NoneThere, Without, OneThread, InFlight
    <3> SUFFICES ASSUME Kept, NEW a \in onIface' PROVE Owner(a)'
      BY <3>1 DEF Owned, Kept
    <3>2. op[t].pc = "launched" /\ shell[t].addr = op[t].addr
      BY <2>0 DEF Placed, Places
    <3>3. a # shell[t].addr => Owner(a)
      BY <2>2 DEF Placed, Owned
    <3>4. \E u \in Threads : op[u].pc \in {"launched", "save"} /\ a = op[u].addr
      BY <3>1, <3>2, <3>3 DEF Owner
    <3> QED
      BY <3>1, <3>4 DEF Owner
  <2> QED
    BY <1>13, <2>1, <2>2 DEF IpReplace, ShellAt
<1>14. ASSUME NEW t \in Threads, RemoveOld(t) PROVE Owned'
  BY <1>14, <1>0 DEF RemoveOld, ShellAt, ShellGoes, app, ghosts, Servers, Up, Kept, Owner,
     Owned, Placed
<1>15. ASSUME NEW t \in Threads, Exec(t) PROVE Owned'
  <2>1. /\ op' = op /\ session' = session /\ onIface' = onIface /\ events' = events
        /\ shell[t].pc = "exec"
    BY <1>15 DEF Exec, ShellAt, app, ghosts
  <2>2. /\ shell'[t].pc \in {"server", "done"}
        /\ \A u \in Threads : u # t => shell'[u] = shell[u]
    BY <1>0, <1>15 DEF Exec, ShellGoes, ShellEnds, Shells
  <2>3. Up' = Up
    BY <1>0, <1>15 DEF Exec, Up, Servers
  <2> SUFFICES ASSUME Kept, NEW a \in onIface PROVE Owner(a)'
    BY <2>1 DEF Owned, Kept
  <2>4. Owner(a)
    BY DEF Placed, Owned
  <2> QED
    BY <2>1, <2>2, <2>3, <2>4 DEF Owner
<1>16. ASSUME NEW t \in Threads, Kill(t) PROVE Owned'
  BY <1>16, <1>0 DEF Kill, ShellAt, Killed, app, Ops, Servers, Alone, OneServer, Parents, Named,
     NameHolds, Live, Starting, NoneThere, Clear, Without, OneThread, Kept, Owner, Owned,
     Places, Placed
<1>17. ASSUME NEW t \in Threads, RemoveFile(t) PROVE Owned'
  BY <1>17, <1>0 DEF RemoveFile, ShellAt, ShellGoes, app, ghosts, OneServer, Parents, Named,
     NameHolds, NoneThere, Clear, Without, OneThread, Up, Kept, Owner, Owned, Places, Placed
<1>18. ASSUME NEW t \in Threads, IpDelete(t) PROVE Owned'
  <2>1. /\ shell[t].pc = "del" /\ onIface' = onIface \ {shell[t].addr}
        /\ events' = events /\ Up = {}
    BY <1>18 DEF IpDelete, ShellAt, ghosts, Alone, NoneThere, Without
  <2> SUFFICES ASSUME Kept, NEW a \in onIface, a # shell[t].addr PROVE FALSE
    BY <2>1 DEF Owned, Kept
  <2>2. Owner(a)
    BY DEF Placed, Owned
  <2>3. \A u \in Threads : shell[u].pc \in {"rm", "del"} => u = t
    BY <2>1 DEF Alone, OneThread, InFlight
  <2>4. \A u \in Threads : op[u].pc \notin {"launched", "save"}
    BY <2>1 DEF Alone, OneThread, InFlight, Fits
  <2> QED
    BY <2>1, <2>2, <2>3, <2>4 DEF Owner
<1>19. CASE Look
  <2>1. /\ \A u \in Threads : op'[u].pc = op[u].pc /\ op'[u].addr = op[u].addr
        /\ shell' = shell /\ session' = session /\ onIface' = onIface /\ events \subseteq events'
    BY <1>0, <1>19 DEF Look, Ops, phone, Fault
  <2>2. Up' = Up
    BY <1>19 DEF Look, phone, Up
  <2> QED
    BY <2>1, <2>2 DEF Placed, Owned, Owner, Kept
<1>20. CASE Show
  BY <1>20, <1>0 DEF Show, Begin, phone, ghosts, Up, Kept, Owner, Owned, Placed
<1>21. CASE Persist
  BY <1>21, <1>0 DEF Persist, phone, ghosts, Up, Kept, Owner, Owned, Placed
<1>22. ASSUME NEW p \in Pids, Load(p) PROVE Owned'
  <2>0. server[p].pc = "load" /\ events \subseteq events'
    BY <1>22 DEF Load, Fault, ghosts, GivesUp
  <2>1. CASE GivesUp(p)
    <3>1. /\ op' = op /\ session' = session /\ onIface' = onIface
      BY <2>1 DEF GivesUp, app
    <3> DEFINE sh == server[p].shell
    <3>2. sh \in Threads /\ shell[sh].pc = "server"
      BY <2>0 DEF Alone, Parents, Starting
    <3>3. /\ shell'[sh].pc = "done" /\ \A u \in Threads : u # sh => shell'[u] = shell[u]
      BY <1>0, <2>1, <3>2 DEF GivesUp, Parent, ShellEnds
    <3>4. Up' = Up
      BY <1>0, <2>0, <2>1 DEF GivesUp, ServerGoes, Up
    <3> SUFFICES ASSUME Kept, NEW a \in onIface PROVE Owner(a)'
      BY <2>0, <3>1 DEF Owned, Kept
    <3>5. Owner(a)
      BY DEF Placed, Owned
    <3> QED
      BY <3>1, <3>2, <3>3, <3>4, <3>5 DEF Owner
  <2>2. CASE ServerGoes(p, "forked") /\ UNCHANGED <<app, shell, config, pidFile, onIface, ghosts>>
    <3>1. /\ op' = op /\ shell' = shell /\ session' = session /\ onIface' = onIface
          /\ events' = events
      BY <2>2 DEF app, ghosts
    <3>2. Up' = Up
      BY <1>0, <2>0, <2>2 DEF Up, ServerGoes, Servers
    <3> QED
      BY <3>1, <3>2 DEF Placed, Owned, Owner, Kept
  <2> QED
    BY <1>22, <2>1, <2>2 DEF Load, Fault, GivesUp
<1>23. ASSUME NEW p \in Pids, Unlink(p) PROVE Owned'
  BY <1>23, <1>0 DEF Unlink, ServerGoes, app, ghosts, Up, Kept, Owner, Owned, Placed
<1>24. ASSUME NEW p \in Pids, WritePid(p) PROVE Owned'
  <2>0. server[p].pc = "unlinked" /\ UNCHANGED ghosts
    BY <1>24 DEF WritePid
  <2>1. CASE GivesUp(p) /\ pidFile # None
    BY <2>0, <2>1, <1>0 DEF GivesUp, ServerGoes, Parent, ShellEnds, ghosts, Alone, OneServer,
       Parents, Named, NameHolds, Live, Starting, NoneThere, Clear, Without, OneThread, Kept,
       Owner, Owned, Places, Placed
  <2>2. CASE /\ pidFile = None /\ pidFile' = p /\ ServerGoes(p, "written")
             /\ UNCHANGED <<app, shell, config, onIface>>
    BY <2>0, <2>2, <1>0 DEF ServerGoes, app, ghosts, Up, Kept, Owner, Owned, Placed
  <2> QED
    BY <1>24, <2>1, <2>2 DEF WritePid
<1>25. ASSUME NEW p \in Pids, Release(p) PROVE Owned'
  <2>0. server[p].pc = "written"
    BY <1>25 DEF Release, Fault, GivesUp
  <2>1. CASE GivesUp(p) /\ Fault({"crash"})
    BY <2>0, <2>1, <1>0 DEF GivesUp, ServerGoes, Parent, ShellEnds, Fault, Kept, Owner, Owned,
       Placed
  <2>2. CASE /\ ServerGoes(p, "ready") /\ Parent(p, 0)
             /\ UNCHANGED <<app, config, pidFile, onIface, ghosts>>
    <3>1. /\ op' = op /\ session' = session /\ onIface' = onIface /\ events' = events
      BY <2>2 DEF app, ghosts
    <3> DEFINE sh == server[p].shell
    <3>2. sh \in Threads /\ shell[sh].pc = "server" /\ ~server[p].term
      BY <2>0 DEF Alone, Parents, Starting
    <3>3. /\ shell'[sh].pc = "done" /\ \A u \in Threads : u # sh => shell'[u] = shell[u]
      BY <1>0, <2>2, <3>2 DEF Parent, ShellEnds, Shells
    <3> SUFFICES ASSUME Kept, NEW a \in onIface PROVE Owner(a)'
      BY <3>1 DEF Owned, Kept
    <3>4. op[sh].pc = "launched"
      BY <3>2 DEF Placed, Places
    <3>5. Owner(a)
      BY DEF Placed, Owned
    <3> QED
      BY <3>1, <3>2, <3>3, <3>4, <3>5 DEF Owner
  <2> QED
    BY <1>25, <2>1, <2>2 DEF Release, Fault, GivesUp
<1>26. ASSUME NEW p \in Pids, Terminate(p) PROVE Owned'
  BY <1>26, <1>0 DEF Terminate, ServerGoes, app, ghosts, Up, Kept, Owner, Owned, Placed
<1>27. ASSUME NEW p \in Pids, Exit(p) PROVE Owned'
  BY <1>27, <1>0 DEF Exit, ServerGoes, app, ghosts, Parents, OneThread, Up, Kept, Owner, Owned,
     Placed
<1>28. ASSUME NEW p \in Pids, Crash(p) PROVE Owned'
  BY <1>28, <1>0 DEF Crash, ServerGoes, Fault, Kept, Owner, Owned, Placed
<1>29. ASSUME NEW p \in Pids, Reuse(p) PROVE Owned'
  BY <1>29, <1>0 DEF Reuse, ServerGoes, Fault, app, Up, Kept, Owner, Owned, Placed
<1>30. CASE Death
  <2>0. AppGone /\ events' = events \cup Lost /\ UNCHANGED phone
    BY <1>30 DEF Death, Fault
  <2> SUFFICES ASSUME Kept' PROVE Owned'
    BY DEF Owned
  <2>1. /\ Kept /\ session.memory = session.disk
        /\ \A u \in Threads : op[u].kind # "start"
    BY <2>0 DEF Kept, Lost
  <2>2. \A u \in Threads : op[u].pc \notin {"launched", "save"} /\ op'[u].pc = "idle"
    BY <1>0, <2>0, <2>1 DEF AppGone, NoOp, Alone, Fits, Ops
  <2>3. session'.memory = session.memory /\ shell' = shell /\ onIface' = onIface /\ Up' = Up
    BY <1>0, <2>0, <2>1 DEF AppGone, phone, Up
  <2>4. \A a \in onIface : Owner(a)
    BY <2>1 DEF Placed, Owned
  <2>5. \A a \in onIface : Owner(a)'
    BY <2>2, <2>3, <2>4 DEF Owner
  <2> QED
    BY <2>3, <2>5 DEF Owned
<1>31. CASE Reboot
  BY <1>31, <1>0 DEF Reboot, AppGone, Kept, Owner, Owned, Placed
<1>32. CASE UNCHANGED vars
  BY <1>32 DEF vars, Up, Kept, Owner, Owned, Placed
<1> QED
  BY <1>1, <1>2, <1>3, <1>4, <1>5, <1>6, <1>7, <1>8, <1>9, <1>10, <1>11, <1>12, <1>13, <1>14,
     <1>15, <1>16, <1>17, <1>18, <1>19, <1>20, <1>21, <1>22, <1>23, <1>24, <1>25, <1>26, <1>27,
     <1>28, <1>29, <1>30, <1>31, <1>32 DEF Next, ThreadStep, ShellStep, ServerStep

-----------------------------------------------------------------------------
(* The theorems                                                            *)

\* At the start nothing runs, and no screen has been opened.
LEMMA InitInv == Init => PxeInv
<1> SUFFICES ASSUME Init PROVE PxeInv
  OBVIOUS
<1>1. TypeOK
  BY DEF Init, TypeOK, NoOp, NoShell, Ops, Shells, Servers, Screens, Pcs, ShellPcs, ServerPcs,
     Addrs
<1>2. Up = {} /\ \A p \in Pids : ~Live(p) /\ server[p].pc = "off"
  BY DEF Init, Up, Live, Starting
<1>3. \A t \in Threads : ~InFlight(t) /\ op[t] = NoOp /\ shell[t] = NoShell
  BY DEF Init, InFlight, NoOp, NoShell
<1>4. Alone
  BY <1>2, <1>3 DEF Init, Alone, Fits, OneThread, OneServer, Parents, Starting, Named,
     NoneThere, NameHolds, NoOp
<1>5. Told
  BY <1>3 DEF Init, Told, Halts, Tells, TellsAt, Resting, NoOp
<1>6. Placed
  BY <1>3 DEF Init, Placed, Owned, Places, NoOp, NoShell
<1> QED
  BY <1>1, <1>4, <1>5, <1>6 DEF PxeInv

\* Without overlapping operations every step keeps the invariant.
LEMMA StepInv == ~MayOverlap /\ PxeInv /\ [Next]_vars => PxeInv'
<1> SUFFICES ASSUME ~MayOverlap, PxeInv, [Next]_vars PROVE PxeInv'
  OBVIOUS
<1>1. TypeOK /\ Alone /\ Parents /\ Halts /\ Tells /\ Placed
  BY DEF PxeInv, Alone, Told
<1>2. TypeOK'
  BY <1>1, TypeStep
<1>3. Alone'
  BY <1>1, FitsStep, OneThreadStep, OneServerStep, ParentsStep, NamedStep, NoneThereStep,
     NameHoldsStep DEF Alone
<1>4. Told' /\ Placed'
  BY <1>1, HaltsStep, TellsStep, PlacesStep, OwnedStep DEF Told, Placed
<1> QED
  BY <1>2, <1>3, <1>4 DEF PxeInv

\* Once everything is quiet, a server that serves is one that is to go on.
LEMMA QuietFollows ==
  ASSUME PxeInv
  PROVE  PhoneFollows
<1>1. ServerFound
  BY DEF ServerFound, Quiet, Serving, Live, PxeInv, Alone, Named, Up
<1>2. Quiet => Serving = Up
  BY DEF Quiet, Serving, Live, Up
<1>3. ShownIsServed
  <2> SUFFICES ASSUME Quiet, screen.page # "closed", Looked
               PROVE  (mode.shown <=> Up # {}) /\ ~mode.stopping
    BY <1>2 DEF ShownIsServed, Looked
  <2>1. Resting /\ \A t \in Threads : op[t].kind = "none"
    BY DEF Quiet, InFlight, Resting, PxeInv, Alone, Fits
  <2>2. screen.page \in {"setup", "running"}
    BY DEF Quiet, PxeInv, TypeOK, Screens
  <2> QED
    BY <2>1, <2>2 DEF PxeInv, Told, Halts, Tells
<1>4. AddressGoes
  <2> SUFFICES ASSUME Quiet, Up = {}, Kept PROVE onIface = {}
    BY <1>2 DEF AddressGoes, Kept
  <2>1. \A t \in Threads : op[t].pc = "idle" /\ shell[t].pc \in {"idle", "done"}
    BY DEF Quiet, InFlight
  <2> QED
    BY <2>1 DEF PxeInv, Placed, Owned, Owner
<1> QED
  BY <1>1, <1>3, <1>4 DEF PhoneFollows

\* As long as operations do not overlap, every reachable state fits the
\* invariant: one thread and one server at work, named by the pid file.
THEOREM PxeInvariant ==
  ASSUME ~MayOverlap
  PROVE  Spec => []PxeInv
<1>1. Init => PxeInv
  BY InitInv
<1>2. PxeInv /\ [Next]_vars => PxeInv'
  BY StepInv
<1> QED
  BY <1>1, <1>2, PTL DEF Spec

\* As long as operations do not overlap, a server that runs can be found by
\* its pid file, the notification is shown exactly while there is a server,
\* and no address outlives its server (TftpMode, TftpActivity, dnsmasq).
THEOREM PhoneAlwaysFollows ==
  ASSUME ~MayOverlap
  PROVE  Spec => []PhoneFollows
<1>1. PxeInv => PhoneFollows
  BY QuietFollows
<1> QED
  BY <1>1, PxeInvariant, PTL

-----------------------------------------------------------------------------
(* Part two, the log: what the invariant speaks of                         *)

\* What a queue holds, what has been written, and the variables of log.c.
Entries == [by : Procs, id : Nat, count : Nat, half : BOOLEAN]
Lines == [by : Procs, id : Nat, count : Nat, part : {"whole", "first", "last"}]
Loggers == [pc : WritingPlaces \cup {"off", "idle"}, fd : {"open", "shut"}, conn : BOOLEAN,
            kind : Kinds, good : BOOLEAN, queue : Seq(Entries), free : Nat, alloced : Nat,
            lost : Nat, reply : BOOLEAN, used : BOOLEAN]

\* Whole and Ends of LogQueue, of any lines g.
WholeIn(p, g) == {i \in DOMAIN g : g[i].by = p /\ g[i].part # "first"}
EndsIn(p, g) == {i \in WholeIn(p, g) : g[i].id # 0}

\* With n messages logged by p, q its queue and g what has been written.
InTurn(p, q, g, n) ==
    /\ \A i \in DOMAIN q : q[i].by = p => q[i].id <= n
    /\ \A i \in DOMAIN g : g[i].by = p => g[i].id <= n
    /\ \A i, j \in DOMAIN q :
          i < j /\ q[i].by = p /\ q[j].by = p /\ q[i].id # 0 /\ q[j].id # 0
          => q[i].id < q[j].id
    /\ \A i \in EndsIn(p, g), j \in DOMAIN q :
          q[j].by = p /\ q[j].id # 0 => g[i].id < q[j].id
    /\ \A i, j \in EndsIn(p, g) : i < j => g[i].id < g[j].id

\* What is waiting in the queue q, is written in g, and was given elsewhere.
Waiting(q) == Cardinality(StandFor(q, DOMAIN q))
Out(g) == Cardinality(StandFor(g, WholeIn("main", g)))
Other(E) == Cardinality({x \in E : x[1] = "main"})

\* With s the variables of log.c, g what is written, n what each process has
\* logged and E what was given elsewhere.
Shaped(s, g, n, E) ==
    /\ s \in [Procs -> Loggers] /\ g \in Seq(Lines) /\ n \in [Procs -> Nat]
    /\ E \subseteq Procs \X Nat /\ IsFiniteSet(E)

Booked(s, g, n, E) ==
    n["main"] = Other(E) + Waiting(s["main"].queue) + s["main"].lost + Out(g)

Sound(s, g, n, E) ==
    /\ Shaped(s, g, n, E)
    /\ \A p \in Procs : InTurn(p, s[p].queue, g, n[p])
    /\ \A i \in DOMAIN s["main"].queue : s["main"].queue[i].by = "main"
    /\ \A x \in E : x[2] <= n[x[1]]
    /\ Booked(s, g, n, E)

LogInv ==
    /\ Sound(st, got, logged, elsewhere)
    /\ syslogd \in [up : BOOLEAN, kind : Kinds, unread : Int]

-----------------------------------------------------------------------------
(* What the entries stand for                                              *)

LEMMA OneStands ==
    ASSUME NEW i, NEW n \in Nat
    PROVE  IsFiniteSet({i} \X (1 .. n)) /\ Cardinality({i} \X (1 .. n)) = n
  <1>1. IsFiniteSet({i}) /\ Cardinality({i}) = 1
    BY FS_Singleton
  <1>2. IsFiniteSet(1 .. n) /\ Cardinality(1 .. n) = n
    BY FS_Interval
  <1>3. /\ IsFiniteSet({i} \X (1 .. n))
        /\ Cardinality({i} \X (1 .. n)) = Cardinality({i}) * Cardinality(1 .. n)
    BY ONLY <1>1, <1>2, FS_Product
  <1> QED BY <1>1, <1>2, <1>3

LEMMA StandsFinite ==
    ASSUME NEW s, NEW S, IsFiniteSet(S), \A i \in S : Worth(s[i]) \in Nat
    PROVE  IsFiniteSet(StandFor(s, S)) /\ Cardinality(StandFor(s, S)) \in Nat
  <1> DEFINE F == {{i} \X (1 .. Worth(s[i])) : i \in S}
             f == [i \in S |-> {i} \X (1 .. Worth(s[i]))]
  <1>1. f \in Surjection(S, F)
    BY DEF Surjection
  <1>2. IsFiniteSet(F)
    BY <1>1, FS_Surjection
  <1>3. \A T \in F : IsFiniteSet(T)
    <2> TAKE T \in F
    <2>1. PICK i \in S : T = {i} \X (1 .. Worth(s[i]))
      OBVIOUS
    <2>2. Worth(s[i]) \in Nat
      OBVIOUS
    <2>3. IsFiniteSet({i} \X (1 .. Worth(s[i])))
      BY ONLY <2>2, OneStands
    <2> QED BY ONLY <2>1, <2>3
  <1>4. IsFiniteSet(UNION F)
    BY <1>2, <1>3, FS_UNION
  <1> QED BY <1>4, FS_CardinalityType DEF StandFor

LEMMA StandsMore ==
    ASSUME NEW s, NEW S, IsFiniteSet(S), NEW a, a \notin S, Worth(s[a]) \in Nat,
           \A i \in S : Worth(s[i]) \in Nat
    PROVE  Cardinality(StandFor(s, S \cup {a})) = Cardinality(StandFor(s, S)) + Worth(s[a])
  <1> DEFINE A == StandFor(s, S)
             B == {a} \X (1 .. Worth(s[a]))
  <1>1. IsFiniteSet(A) /\ Cardinality(A) \in Nat
    BY StandsFinite
  <1>2. IsFiniteSet(B) /\ Cardinality(B) = Worth(s[a])
    BY OneStands
  <1>3. StandFor(s, S \cup {a}) = A \cup B
    BY DEF StandFor
  <1>4. A \cap B = {}
    BY DEF StandFor
  <1> HIDE DEF A, B
  <1>5. Cardinality(A \cup B) = Cardinality(A) + Cardinality(B) - Cardinality(A \cap B)
    BY <1>1, <1>2, FS_Union
  <1>6. Cardinality({}) = 0
    BY FS_EmptySet
  <1>7. Cardinality(A \cup B) = Cardinality(A) + Worth(s[a])
    <2>1. Cardinality(A \cap B) = 0
      BY <1>4, <1>6, Zenon
    <2>2. Cardinality(A \cup B) = Cardinality(A) + Worth(s[a]) - 0
      BY <1>2, <1>5, <2>1, Zenon
    <2>3. Cardinality(A) \in Nat
      BY <1>1
    <2> QED BY ONLY <2>2, <2>3, Worth(s[a]) \in Nat
  <1> QED BY <1>3, <1>7, Zenon DEF A

LEMMA StandsSame ==
    ASSUME NEW s, NEW r, NEW S, \A i \in S : Worth(s[i]) = Worth(r[i])
    PROVE  StandFor(s, S) = StandFor(r, S)
  BY DEF StandFor

LEMMA WorthIs ==
    ASSUME NEW e \in Entries \cup Lines
    PROVE  Worth(e) \in Nat
  BY DEF Entries, Lines, Worth

SameEntries(q, r) ==
    /\ Len(r) = Len(q)
    /\ \A i \in DOMAIN q : r[i].by = q[i].by /\ r[i].id = q[i].id /\ r[i].count = q[i].count

LEMMA QueueFinite ==
    ASSUME NEW q \in Seq(Entries)
    PROVE  /\ DOMAIN q = 1 .. Len(q) /\ Len(q) \in Nat
           /\ IsFiniteSet(DOMAIN q) /\ \A i \in DOMAIN q : Worth(q[i]) \in Nat
           /\ Waiting(q) \in Nat
  <1>1. DOMAIN q = 1 .. Len(q) /\ Len(q) \in Nat
    BY LenProperties
  <1>2. IsFiniteSet(DOMAIN q)
    BY <1>1, FS_Interval
  <1>3. \A i \in DOMAIN q : Worth(q[i]) \in Nat
    BY WorthIs, <1>1
  <1> QED BY <1>1, <1>2, <1>3, StandsFinite DEF Waiting

LEMMA WaitingSame ==
    ASSUME NEW q \in Seq(Entries), NEW r \in Seq(Entries), SameEntries(q, r)
    PROVE  Waiting(r) = Waiting(q)
  <1>1. DOMAIN r = DOMAIN q
    BY LenProperties DEF SameEntries
  <1>2. \A i \in DOMAIN q : Worth(q[i]) = Worth(r[i])
    BY DEF SameEntries, Worth
  <1>3. StandFor(q, DOMAIN q) = StandFor(r, DOMAIN q)
    BY <1>2, StandsSame
  <1> QED BY <1>1, <1>3, Zenon DEF Waiting

LEMMA WaitingMore ==
    ASSUME NEW q \in Seq(Entries), NEW e \in Entries
    PROVE  Waiting(Append(q, e)) = Waiting(q) + Worth(e)
  <1> DEFINE r == Append(q, e)
             n == Len(q)
  <1>1. /\ r \in Seq(Entries) /\ Len(r) = n + 1 /\ n \in Nat
        /\ \A i \in 1 .. n : r[i] = q[i]
        /\ r[n + 1] = e
    BY AppendProperties, LenProperties
  <1>2. DOMAIN q = 1 .. n /\ DOMAIN r = 1 .. n + 1
    BY <1>1, LenProperties
  <1> HIDE DEF r, n
  <1>3. DOMAIN r = DOMAIN q \cup {n + 1} /\ n + 1 \notin DOMAIN q
    BY <1>1, <1>2
  <1>4. IsFiniteSet(DOMAIN q) /\ \A i \in DOMAIN q : Worth(q[i]) \in Nat
    BY QueueFinite
  <1>5. \A i \in DOMAIN q : Worth(r[i]) = Worth(q[i])
    BY <1>1, <1>2
  <1>6. StandFor(r, DOMAIN q) = StandFor(q, DOMAIN q)
    BY <1>5, StandsSame, Zenon
  <1>7. Worth(r[n + 1]) \in Nat /\ Worth(r[n + 1]) = Worth(e)
    BY <1>1, WorthIs
  <1>8. Cardinality(StandFor(r, DOMAIN q \cup {n + 1}))
            = Cardinality(StandFor(r, DOMAIN q)) + Worth(r[n + 1])
    BY <1>3, <1>4, <1>5, <1>7, StandsMore
  <1> QED BY <1>3, <1>6, <1>7, <1>8 DEF Waiting, r

LEMMA TailIs ==
    ASSUME NEW q \in Seq(Entries), q # <<>>
    PROVE  /\ Tail(q) \in Seq(Entries) /\ Head(q) = q[1] /\ q[1] \in Entries
           /\ Len(q) \in Nat \ {0} /\ DOMAIN q = 1 .. Len(q) /\ 1 \in DOMAIN q
           /\ DOMAIN Tail(q) = 1 .. Len(q) - 1
           /\ \A i \in DOMAIN Tail(q) : i + 1 \in DOMAIN q /\ Tail(q)[i] = q[i + 1]
  <1>1. Len(q) \in Nat \ {0} /\ DOMAIN q = 1 .. Len(q)
    BY LenProperties, EmptySeq
  <1>2. /\ Tail(q) \in Seq(Entries) /\ Len(Tail(q)) = Len(q) - 1
        /\ \A i \in 1 .. Len(q) - 1 : Tail(q)[i] = q[i + 1]
        /\ Head(q) = q[1]
    BY HeadTailProperties
  <1>3. DOMAIN Tail(q) = 1 .. Len(q) - 1
    BY <1>2, LenProperties
  <1> QED BY <1>1, <1>2, <1>3, ElementOfSeq

LEMMA WaitingLess ==
    ASSUME NEW q \in Seq(Entries), q # <<>>
    PROVE  Waiting(q) = Waiting(Tail(q)) + Worth(Head(q))
  <1> DEFINE n == Len(q)
             t == Tail(q)
             A == StandFor(t, 1 .. n - 1)
             B == StandFor(q, 2 .. n)
             f == [x \in A |-> <<x[1] + 1, x[2]>>]
  <1>1. /\ t \in Seq(Entries) /\ Head(q) = q[1] /\ q[1] \in Entries
        /\ n \in Nat \ {0} /\ DOMAIN q = 1 .. n /\ DOMAIN t = 1 .. n - 1
        /\ \A i \in 1 .. n - 1 : t[i] = q[i + 1]
    BY TailIs
  <1>2. /\ \A i \in 1 .. n : Worth(q[i]) \in Nat
        /\ \A i \in 1 .. n - 1 : Worth(t[i]) \in Nat /\ Worth(t[i]) = Worth(q[i + 1])
    BY <1>1, QueueFinite
  <1>3. IsFiniteSet(1 .. n - 1) /\ IsFiniteSet(2 .. n)
    BY <1>1, FS_Interval
  <1> HIDE DEF n, t
  <1>4. IsFiniteSet(A) /\ IsFiniteSet(B) /\ Cardinality(B) \in Nat
    <2>1. IsFiniteSet(A)
      BY <1>2, <1>3, StandsFinite
    <2>2. \A i \in 2 .. n : Worth(q[i]) \in Nat
      BY <1>1, <1>2
    <2> QED BY <2>1, <2>2, <1>3, StandsFinite
  <1>5. \A x : x \in A <=> \E i \in 1 .. n - 1 : \E k \in 1 .. Worth(t[i]) : x = <<i, k>>
    BY DEF StandFor
  <1>6. \A x : x \in B <=> \E i \in 2 .. n : \E k \in 1 .. Worth(q[i]) : x = <<i, k>>
    BY DEF StandFor
  <1> HIDE DEF A, B
  <1>7. f \in Bijection(A, B)
    <2>1. \A x \in A : f[x] \in B
      <3> TAKE x \in A
      <3>1. PICK i \in 1 .. n - 1 : \E k \in 1 .. Worth(t[i]) : x = <<i, k>>
        BY <1>5
      <3>2. PICK k \in 1 .. Worth(t[i]) : x = <<i, k>>
        BY <3>1
      <3>3. f[x] = <<i + 1, k>>
        BY <3>2
      <3>4. i + 1 \in 2 .. n /\ k \in 1 .. Worth(q[i + 1])
        BY <1>1, <1>2
      <3> QED BY <3>3, <3>4, <1>6
    <2>2. \A x, y \in A : f[x] = f[y] => x = y
      <3> TAKE x, y \in A
      <3> HAVE f[x] = f[y]
      <3>1. PICK i \in 1 .. n - 1 : \E k \in 1 .. Worth(t[i]) : x = <<i, k>>
        BY <1>5
      <3>2. PICK k \in 1 .. Worth(t[i]) : x = <<i, k>>
        BY <3>1
      <3>3. PICK j \in 1 .. n - 1 : \E l \in 1 .. Worth(t[j]) : y = <<j, l>>
        BY <1>5
      <3>4. PICK l \in 1 .. Worth(t[j]) : y = <<j, l>>
        BY <3>3
      <3>5. f[x] = <<i + 1, k>> /\ f[y] = <<j + 1, l>>
        BY <3>2, <3>4
      <3>6. i + 1 = j + 1 /\ k = l
        BY <3>5
      <3> QED BY <3>2, <3>4, <3>6
    <2>3. \A y \in B : \E x \in A : f[x] = y
      <3> TAKE y \in B
      <3>1. PICK i \in 2 .. n : \E k \in 1 .. Worth(q[i]) : y = <<i, k>>
        BY <1>6
      <3>1a. PICK k \in 1 .. Worth(q[i]) : y = <<i, k>>
        BY <3>1
      <3>2. i - 1 \in 1 .. n - 1 /\ (i - 1) + 1 = i
        BY <1>1
      <3>3. k \in 1 .. Worth(t[i - 1])
        BY <3>2, <1>2
      <3>4. <<i - 1, k>> \in A
        BY <3>2, <3>3, <1>5
      <3>5. f[<<i - 1, k>>] = <<i, k>>
        BY <3>2, <3>4
      <3> QED BY <3>1a, <3>4, <3>5
    <2>4. f \in [A -> B]
      BY <2>1
    <2> HIDE DEF f
    <2>5. f \in Injection(A, B)
      BY <2>2, <2>4 DEF Injection, IsInjective
    <2>6. f \in Surjection(A, B)
      BY <2>3, <2>4 DEF Surjection
    <2> QED BY <2>5, <2>6 DEF Bijection
  <1>8. Cardinality(B) = Cardinality(A)
    BY <1>4, <1>7, FS_Bijection DEF ExistsBijection
  <1>9. 2 .. n \cup {1} = 1 .. n /\ 1 \notin 2 .. n
    BY <1>1
  <1>10. Cardinality(StandFor(q, 2 .. n \cup {1})) = Cardinality(B) + Worth(q[1])
    <2>1. Worth(q[1]) \in Nat /\ \A i \in 2 .. n : Worth(q[i]) \in Nat
      BY <1>1, <1>2
    <2> QED BY <2>1, <1>3, <1>9, StandsMore DEF B
  <1>11. Waiting(q) = Cardinality(B) + Worth(q[1])
    BY <1>1, <1>9, <1>10, Zenon DEF Waiting
  <1>12. Waiting(t) = Cardinality(A)
    BY <1>1, Zenon DEF Waiting, A
  <1> QED BY <1>1, <1>8, <1>11, <1>12, Zenon DEF t

LEMMA OutIs ==
    ASSUME NEW g \in Seq(Lines)
    PROVE  /\ IsFiniteSet(WholeIn("main", g)) /\ Out(g) \in Nat
           /\ \A i \in WholeIn("main", g) : Worth(g[i]) \in Nat
  <1>1. DOMAIN g = 1 .. Len(g) /\ Len(g) \in Nat
    BY LenProperties
  <1>2. IsFiniteSet(DOMAIN g) /\ \A i \in DOMAIN g : Worth(g[i]) \in Nat
    BY <1>1, FS_Interval, WorthIs
  <1>3. WholeIn("main", g) \in SUBSET DOMAIN g
    BY DEF WholeIn
  <1>4. IsFiniteSet(WholeIn("main", g))
    BY <1>2, <1>3, FS_Subset
  <1>5. \A i \in WholeIn("main", g) : Worth(g[i]) \in Nat
    BY <1>2, <1>3
  <1> QED BY <1>4, <1>5, StandsFinite DEF Out

LEMMA OutMore ==
    ASSUME NEW g \in Seq(Lines), NEW w \in Lines
    PROVE  Out(Append(g, w)) =
               IF w.by = "main" /\ w.part # "first" THEN Out(g) + Worth(w) ELSE Out(g)
  <1> DEFINE r == Append(g, w)
             n == Len(g)
             S == WholeIn("main", g)
  <1>1. /\ r \in Seq(Lines) /\ Len(r) = n + 1 /\ n \in Nat
        /\ \A i \in 1 .. n : r[i] = g[i]
        /\ r[n + 1] = w
    BY AppendProperties, LenProperties
  <1>2. DOMAIN g = 1 .. n /\ DOMAIN r = 1 .. n + 1
    BY <1>1, LenProperties
  <1> HIDE DEF r, n
  <1>3. S \subseteq 1 .. n /\ n + 1 \notin S
    BY <1>1, <1>2 DEF WholeIn
  <1>4. WholeIn("main", r) = IF w.by = "main" /\ w.part # "first" THEN S \cup {n + 1} ELSE S
    <2>1. \A i : i \in 1 .. n + 1 <=> i \in 1 .. n \/ i = n + 1
      BY <1>1
    <2>2. \A i : i \in WholeIn("main", r) <=>
              i \in S \/ (i = n + 1 /\ w.by = "main" /\ w.part # "first")
      BY <2>1, <1>1, <1>2, <1>3 DEF WholeIn
    <2> QED BY <2>2
  <1>5. IsFiniteSet(S) /\ \A i \in S : Worth(g[i]) \in Nat
    BY OutIs
  <1>6. \A i \in S : Worth(r[i]) = Worth(g[i])
    BY <1>1, <1>3
  <1>7. StandFor(r, S) = StandFor(g, S)
    BY <1>6, StandsSame, Zenon
  <1>8. Worth(r[n + 1]) = Worth(w) /\ Worth(w) \in Nat
    BY <1>1, WorthIs
  <1> HIDE DEF S
  <1>9. Cardinality(StandFor(r, S \cup {n + 1})) = Cardinality(StandFor(r, S)) + Worth(r[n + 1])
    BY <1>3, <1>5, <1>6, <1>8, StandsMore
  <1>10. Out(g) = Cardinality(StandFor(g, S))
    BY Zenon DEF Out, S
  <1>11. CASE w.by = "main" /\ w.part # "first"
    <2>1. Out(r) = Cardinality(StandFor(r, S \cup {n + 1}))
      BY <1>4, <1>11, Zenon DEF Out
    <2>2. Out(r) = Out(g) + Worth(w)
      BY <2>1, <1>7, <1>8, <1>9, <1>10, Zenon
    <2> QED BY <2>2, <1>11, Zenon DEF r
  <1>12. CASE ~(w.by = "main" /\ w.part # "first")
    <2>1. Out(r) = Cardinality(StandFor(r, S))
      BY <1>4, <1>12, Zenon DEF Out
    <2> QED BY <2>1, <1>7, <1>10, <1>12, Zenon DEF r
  <1> QED BY <1>11, <1>12

LEMMA OtherMore ==
    ASSUME NEW E, E \subseteq Procs \X Nat, IsFiniteSet(E),
           NEW p \in Procs, NEW n \in Nat, <<p, n>> \notin E
    PROVE  /\ IsFiniteSet(E \cup {<<p, n>>}) /\ Other(E) \in Nat
           /\ Other(E \cup {<<p, n>>}) = IF p = "main" THEN Other(E) + 1 ELSE Other(E)
  <1> DEFINE S == {x \in E : x[1] = "main"}
             T == {x \in E \cup {<<p, n>>} : x[1] = "main"}
  <1>1. IsFiniteSet(E \cup {<<p, n>>})
    BY FS_AddElement
  <1>2. IsFiniteSet(S)
    <2>1. S \in SUBSET E
      OBVIOUS
    <2> QED BY <2>1, FS_Subset
  <1>3. Cardinality(S) \in Nat
    BY <1>2, FS_CardinalityType
  <1>4. CASE p = "main"
    <2>1. T = S \cup {<<p, n>>} /\ <<p, n>> \notin S
      BY <1>4
    <2>2. Cardinality(S \cup {<<p, n>>}) = Cardinality(S) + 1
      BY <2>1, <1>2, FS_AddElement
    <2> QED BY <2>1, <2>2, <1>1, <1>3, <1>4 DEF Other
  <1>5. CASE p # "main"
    <2>1. T = S
      BY <1>5
    <2> QED BY <2>1, <1>1, <1>3, <1>5 DEF Other
  <1> QED BY <1>4, <1>5

-----------------------------------------------------------------------------
(* In turn                                                                 *)

LEMMA Appended ==
    ASSUME NEW T, NEW s \in Seq(T), NEW e \in T
    PROVE  /\ Append(s, e) \in Seq(T) /\ Len(s) \in Nat
           /\ DOMAIN s = 1 .. Len(s) /\ DOMAIN Append(s, e) = 1 .. Len(s) + 1
           /\ \A i \in 1 .. Len(s) : Append(s, e)[i] = s[i]
           /\ Append(s, e)[Len(s) + 1] = e
           /\ \A i \in 1 .. Len(s) + 1 : i \in 1 .. Len(s) \/ i = Len(s) + 1
  <1>1. /\ Append(s, e) \in Seq(T) /\ Len(Append(s, e)) = Len(s) + 1
        /\ \A i \in 1 .. Len(s) : Append(s, e)[i] = s[i]
        /\ Append(s, e)[Len(s) + 1] = e
    BY AppendProperties
  <1>2. Len(s) \in Nat /\ DOMAIN s = 1 .. Len(s) /\ DOMAIN Append(s, e) = 1 .. Len(s) + 1
    BY <1>1, LenProperties
  <1>3. \A i \in 1 .. Len(s) + 1 : i \in 1 .. Len(s) \/ i = Len(s) + 1
    BY <1>2
  <1> QED BY <1>1, <1>2, <1>3

LEMMA EntryFields ==
    ASSUME NEW e \in Entries \cup Lines
    PROVE  e.by \in Procs /\ e.id \in Nat /\ e.count \in Nat
  BY DEF Entries, Lines

LEMMA SeqFields ==
    ASSUME NEW s \in Seq(Entries) \cup Seq(Lines)
    PROVE  \A i \in DOMAIN s : s[i].by \in Procs /\ s[i].id \in Nat
  <1>1. CASE s \in Seq(Entries)
    <2>1. \A i \in DOMAIN s : s[i] \in Entries
      BY <1>1, ElementOfSeq, LenProperties
    <2> QED BY <2>1, EntryFields
  <1>2. CASE s \in Seq(Lines)
    <2>1. \A i \in DOMAIN s : s[i] \in Lines
      BY <1>2, ElementOfSeq, LenProperties
    <2> QED BY <2>1, EntryFields
  <1> QED BY <1>1, <1>2

\* A queue whose entries are some of those of another, in their order.
LEMMA TurnSame ==
    ASSUME NEW p, NEW q \in Seq(Entries), NEW r \in Seq(Entries), SameEntries(q, r),
           NEW g, NEW n, InTurn(p, q, g, n)
    PROVE  InTurn(p, r, g, n)
  <1>1. DOMAIN r = DOMAIN q
    BY LenProperties DEF SameEntries
  <1>2. \A i \in DOMAIN q : r[i].by = q[i].by /\ r[i].id = q[i].id
    BY DEF SameEntries
  <1> QED BY <1>1, <1>2 DEF InTurn

LEMMA TurnTail ==
    ASSUME NEW p, NEW q \in Seq(Entries), q # <<>>,
           NEW g, NEW n, InTurn(p, q, g, n)
    PROVE  InTurn(p, Tail(q), g, n)
  <1> DEFINE t == Tail(q)
  <1>1. /\ DOMAIN t \subseteq Nat
        /\ \A i \in DOMAIN t : i + 1 \in DOMAIN q /\ t[i] = q[i + 1]
    BY TailIs
  <1> HIDE DEF t
  <1>2. \A i \in DOMAIN t : t[i].by = p => t[i].id <= n
    BY <1>1 DEF InTurn
  <1>3. \A i, j \in DOMAIN t :
          i < j /\ t[i].by = p /\ t[j].by = p /\ t[i].id # 0 /\ t[j].id # 0
          => t[i].id < t[j].id
    <2> TAKE i, j \in DOMAIN t
    <2> HAVE i < j /\ t[i].by = p /\ t[j].by = p /\ t[i].id # 0 /\ t[j].id # 0
    <2>1. i + 1 < j + 1 /\ i + 1 \in DOMAIN q /\ j + 1 \in DOMAIN q
      BY <1>1
    <2>2. t[i] = q[i + 1] /\ t[j] = q[j + 1]
      BY <1>1
    <2> QED BY <2>1, <2>2 DEF InTurn
  <1>4. \A i \in EndsIn(p, g), j \in DOMAIN t :
          t[j].by = p /\ t[j].id # 0 => g[i].id < t[j].id
    BY <1>1 DEF InTurn
  <1> QED BY <1>2, <1>3, <1>4 DEF InTurn, t

LEMMA TurnLater ==
    ASSUME NEW p, NEW q \in Seq(Entries), NEW g \in Seq(Lines), NEW n \in Nat,
           InTurn(p, q, g, n)
    PROVE  InTurn(p, q, g, n + 1)
  <1>1. \A i \in DOMAIN q : q[i].id \in Nat
    BY SeqFields
  <1>2. \A i \in DOMAIN g : g[i].id \in Nat
    BY SeqFields
  <1>3. \A i \in DOMAIN q : q[i].by = p => q[i].id <= n + 1
    BY <1>1 DEF InTurn
  <1>4. \A i \in DOMAIN g : g[i].by = p => g[i].id <= n + 1
    BY <1>2 DEF InTurn
  <1> QED BY <1>3, <1>4 DEF InTurn

\* A message is queued, or a count.
LEMMA TurnQueued ==
    ASSUME NEW p, NEW q \in Seq(Entries), NEW e \in Entries, NEW g \in Seq(Lines),
           NEW m \in Nat, NEW n \in Nat, InTurn(p, q, g, m),
           \/ n = m /\ e.id = 0
           \/ n = m + 1 /\ e.id = n
    PROVE  InTurn(p, Append(q, e), g, n)
  <1> DEFINE r == Append(q, e)
             k == Len(q)
  <1>1. /\ r \in Seq(Entries) /\ k \in Nat /\ DOMAIN q = 1 .. k /\ DOMAIN r = 1 .. k + 1
        /\ \A i \in 1 .. k : r[i] = q[i]
        /\ r[k + 1] = e
        /\ \A i \in 1 .. k + 1 : i \in 1 .. k \/ i = k + 1
    BY Appended
  <1>2. e.id \in Nat /\ \A i \in DOMAIN q : q[i].id \in Nat
    BY EntryFields, SeqFields
  <1>3. \A i \in DOMAIN g : g[i].id \in Nat
    BY SeqFields
  <1> HIDE DEF r, k
  <1>4. InTurn(p, q, g, n)
    BY TurnLater, Zenon
  <1>5. e.id # 0 => \A i \in DOMAIN q : q[i].by = p => q[i].id < e.id
    BY <1>2 DEF InTurn
  <1>6. e.id # 0 => \A i \in DOMAIN g : g[i].by = p => g[i].id < e.id
    BY <1>3 DEF InTurn
  <1>7. \A i \in DOMAIN r : r[i].by = p => r[i].id <= n
    BY <1>1, <1>2, <1>4 DEF InTurn
  <1>8. \A i, j \in DOMAIN r :
          i < j /\ r[i].by = p /\ r[j].by = p /\ r[i].id # 0 /\ r[j].id # 0
          => r[i].id < r[j].id
    <2> TAKE i, j \in DOMAIN r
    <2> HAVE i < j /\ r[i].by = p /\ r[j].by = p /\ r[i].id # 0 /\ r[j].id # 0
    <2>1. i \in 1 .. k /\ r[i] = q[i]
      BY <1>1
    <2>2. CASE j \in 1 .. k
      BY <2>1, <2>2, <1>1, <1>4 DEF InTurn
    <2>3. CASE j = k + 1
      BY <2>1, <2>3, <1>1, <1>5
    <2> QED BY <2>2, <2>3, <1>1
  <1>9. \A i \in EndsIn(p, g), j \in DOMAIN r :
          r[j].by = p /\ r[j].id # 0 => g[i].id < r[j].id
    <2> TAKE i \in EndsIn(p, g), j \in DOMAIN r
    <2> HAVE r[j].by = p /\ r[j].id # 0
    <2>1. CASE j \in 1 .. k
      BY <2>1, <1>1, <1>4 DEF InTurn
    <2>2. CASE j = k + 1
      <3>1. i \in DOMAIN g /\ g[i].by = p
        BY DEF EndsIn, WholeIn
      <3> QED BY <3>1, <2>2, <1>1, <1>6
    <2> QED BY <2>1, <2>2, <1>1
  <1> QED BY <1>4, <1>7, <1>8, <1>9 DEF InTurn, r

LEMMA EndsMore ==
    ASSUME NEW p, NEW g \in Seq(Lines), NEW w \in Lines
    PROVE  \A i : i \in EndsIn(p, Append(g, w)) <=>
               \/ i \in EndsIn(p, g)
               \/ i = Len(g) + 1 /\ w.by = p /\ w.part # "first" /\ w.id # 0
  <1> DEFINE r == Append(g, w)
             k == Len(g)
  <1>1. /\ k \in Nat /\ DOMAIN g = 1 .. k /\ DOMAIN r = 1 .. k + 1
        /\ \A i \in 1 .. k : r[i] = g[i]
        /\ r[k + 1] = w
        /\ \A i \in 1 .. k + 1 : i \in 1 .. k \/ i = k + 1
    BY Appended
  <1> HIDE DEF r, k
  <1>2. \A i : i \in 1 .. k + 1 <=> i \in 1 .. k \/ i = k + 1
    BY <1>1
  <1>3. k + 1 \notin 1 .. k
    BY <1>1
  <1>4. \A i : i \in EndsIn(p, r) <=>
               \/ i \in EndsIn(p, g)
               \/ i = k + 1 /\ w.by = p /\ w.part # "first" /\ w.id # 0
    BY <1>1, <1>2, <1>3 DEF EndsIn, WholeIn
  <1> QED BY <1>4 DEF r, k

\* Something is written that is no message of p's to its end.
LEMMA TurnWritten ==
    ASSUME NEW p, NEW q \in Seq(Entries), NEW g \in Seq(Lines), NEW w \in Lines,
           NEW n \in Nat, InTurn(p, q, g, n),
           w.by = p => w.id <= n,
           w.by # p \/ w.part = "first" \/ w.id = 0
    PROVE  InTurn(p, q, Append(g, w), n)
  <1> DEFINE r == Append(g, w)
             k == Len(g)
  <1>1. /\ k \in Nat /\ DOMAIN g = 1 .. k /\ DOMAIN r = 1 .. k + 1
        /\ \A i \in 1 .. k : r[i] = g[i]
        /\ r[k + 1] = w
        /\ \A i \in 1 .. k + 1 : i \in 1 .. k \/ i = k + 1
    BY Appended
  <1>2. \A i : i \in EndsIn(p, r) <=> i \in EndsIn(p, g)
    BY EndsMore
  <1> HIDE DEF r, k
  <1>3. \A i \in EndsIn(p, g) : i \in 1 .. k /\ r[i] = g[i]
    BY <1>1 DEF EndsIn, WholeIn
  <1>4. \A i \in DOMAIN r : r[i].by = p => r[i].id <= n
    BY <1>1 DEF InTurn
  <1>5. \A i \in EndsIn(p, r), j \in DOMAIN q :
          q[j].by = p /\ q[j].id # 0 => r[i].id < q[j].id
    BY <1>2, <1>3 DEF InTurn
  <1>6. \A i, j \in EndsIn(p, r) : i < j => r[i].id < r[j].id
    BY <1>2, <1>3 DEF InTurn
  <1> QED BY <1>4, <1>5, <1>6 DEF InTurn, r

\* The first of the queue is written to its end.
LEMMA TurnEnds ==
    ASSUME NEW p, NEW q \in Seq(Entries), q # <<>>, NEW g \in Seq(Lines), NEW w \in Lines,
           NEW n \in Nat, InTurn(p, q, g, n),
           w.by = p, Head(q).by = p, w.id = Head(q).id
    PROVE  InTurn(p, Tail(q), Append(g, w), n)
  <1> DEFINE r == Append(g, w)
             k == Len(g)
             t == Tail(q)
  <1>1. /\ k \in Nat /\ DOMAIN g = 1 .. k /\ DOMAIN r = 1 .. k + 1
        /\ \A i \in 1 .. k : r[i] = g[i]
        /\ r[k + 1] = w
        /\ \A i \in 1 .. k + 1 : i \in 1 .. k \/ i = k + 1
    BY Appended
  <1>2. /\ t \in Seq(Entries) /\ Head(q) = q[1] /\ 1 \in DOMAIN q
        /\ DOMAIN t = 1 .. Len(q) - 1 /\ Len(q) \in Nat
        /\ \A i \in DOMAIN t : i + 1 \in DOMAIN q /\ t[i] = q[i + 1]
    BY TailIs
  <1>3. InTurn(p, t, g, n)
    BY TurnTail
  <1>4. CASE w.id = 0
    <2>1. w.id <= n
      BY <1>4
    <2> HIDE DEF t
    <2>2. InTurn(p, t, Append(g, w), n)
      BY <2>1, <1>2, <1>3, <1>4, TurnWritten
    <2> QED BY <2>2 DEF t
  <1>5. CASE w.id # 0
    <2>1. \A i \in EndsIn(p, r) : i \in EndsIn(p, g) \/ i = k + 1
      BY EndsMore
    <2> HIDE DEF r, k, t
    <2>2. \A i \in EndsIn(p, g) : i \in 1 .. k /\ r[i] = g[i]
      BY <1>1 DEF EndsIn, WholeIn
    <2>3. \A i \in EndsIn(p, g) : g[i].id < w.id
      BY <1>2, <1>5 DEF InTurn
    <2>4. \A j \in DOMAIN t : t[j].by = p /\ t[j].id # 0 => w.id < t[j].id
      <3> TAKE j \in DOMAIN t
      <3> HAVE t[j].by = p /\ t[j].id # 0
      <3>1. j + 1 \in DOMAIN q /\ t[j] = q[j + 1] /\ 1 < j + 1
        BY <1>2
      <3> QED BY <3>1, <1>2, <1>5 DEF InTurn
    <2>5. \A i \in DOMAIN r : r[i].by = p => r[i].id <= n
      <3>1. w.id <= n
        BY <1>2 DEF InTurn
      <3> QED BY <3>1, <1>1 DEF InTurn
    <2>6. \A i \in EndsIn(p, r), j \in DOMAIN t :
            t[j].by = p /\ t[j].id # 0 => r[i].id < t[j].id
      <3> TAKE i \in EndsIn(p, r), j \in DOMAIN t
      <3> HAVE t[j].by = p /\ t[j].id # 0
      <3>1. CASE i \in EndsIn(p, g)
        BY <3>1, <2>2, <1>3 DEF InTurn
      <3>2. CASE i = k + 1
        BY <3>2, <2>4, <1>1
      <3> QED BY <3>1, <3>2, <2>1
    <2>7. \A i, j \in EndsIn(p, r) : i < j => r[i].id < r[j].id
      <3> TAKE i, j \in EndsIn(p, r)
      <3> HAVE i < j
      <3>1. j \in 1 .. k + 1 /\ i \in 1 .. k + 1
        BY <2>1, <2>2, <1>1
      <3>2. i \in EndsIn(p, g) /\ r[i] = g[i]
        BY <3>1, <2>1, <2>2, <1>1
      <3>3. CASE j \in EndsIn(p, g)
        BY <3>2, <3>3, <2>2 DEF InTurn
      <3>4. CASE j = k + 1
        BY <3>2, <3>4, <2>3, <1>1
      <3> QED BY <3>3, <3>4, <2>1
    <2> QED BY <1>3, <2>5, <2>6, <2>7 DEF InTurn, r, t
  <1> QED BY <1>4, <1>5

\* A queue without a message of p's.
LEMMA TurnForked ==
    ASSUME NEW p, NEW q, NEW r, NEW g, NEW n, InTurn(p, q, g, n),
           \A i \in DOMAIN r : r[i].by # p
    PROVE  InTurn(p, r, g, n)
  BY DEF InTurn

-----------------------------------------------------------------------------
(* What a step of log.c does to the books                                  *)

LEMMA LoggerFields ==
    ASSUME NEW t \in Loggers
    PROVE  /\ t.queue \in Seq(Entries) /\ t.lost \in Nat /\ t.free \in Nat /\ t.alloced \in Nat
           /\ t.pc \in WritingPlaces \cup {"off", "idle"} /\ t.fd \in {"open", "shut"}
           /\ t.kind \in Kinds
  BY DEF Loggers

LEMMA SoundFacts ==
    ASSUME NEW s, NEW g, NEW n, NEW E, Sound(s, g, n, E)
    PROVE  /\ s \in [Procs -> Loggers] /\ g \in Seq(Lines) /\ n \in [Procs -> Nat]
           /\ E \subseteq Procs \X Nat /\ IsFiniteSet(E)
           /\ \A p \in Procs : s[p] \in Loggers /\ s[p].queue \in Seq(Entries) /\ n[p] \in Nat
           /\ \A p \in Procs : InTurn(p, s[p].queue, g, n[p])
           /\ \A i \in DOMAIN s["main"].queue : s["main"].queue[i].by = "main"
           /\ \A x \in E : x[2] <= n[x[1]]
           /\ Booked(s, g, n, E)
           /\ s["main"].lost \in Nat /\ Waiting(s["main"].queue) \in Nat /\ Out(g) \in Nat
  <1>1. \A p \in Procs : s[p] \in Loggers /\ n[p] \in Nat
    BY DEF Sound, Shaped
  <1>2. \A p \in Procs : s[p].queue \in Seq(Entries)
    BY <1>1, LoggerFields
  <1>3. "main" \in Procs
    BY DEF Procs
  <1>4. s["main"].lost \in Nat
    BY <1>1, <1>3, LoggerFields
  <1>5. Waiting(s["main"].queue) \in Nat
    BY <1>2, <1>3, QueueFinite
  <1>6. g \in Seq(Lines)
    BY DEF Sound, Shaped
  <1>7. Out(g) \in Nat
    BY <1>6, OutIs
  <1> QED BY <1>1, <1>2, <1>4, <1>5, <1>7 DEF Sound, Shaped

LEMMA SoundAll ==
    ASSUME NEW s, NEW g, NEW n, NEW E, Sound(s, g, n, E), NEW t \in [Procs -> Loggers],
           \A p \in Procs : SameEntries(s[p].queue, t[p].queue),
           t["main"].lost = s["main"].lost
    PROVE  Sound(t, g, n, E)
  <1>1. \A p \in Procs : s[p].queue \in Seq(Entries) /\ t[p].queue \in Seq(Entries)
    BY SoundFacts, LoggerFields
  <1>2. "main" \in Procs
    BY DEF Procs
  <1>3. \A p \in Procs : InTurn(p, t[p].queue, g, n[p])
    <2> TAKE p \in Procs
    <2>1. InTurn(p, s[p].queue, g, n[p])
      BY SoundFacts
    <2> QED BY <2>1, <1>1, TurnSame
  <1>4. Waiting(t["main"].queue) = Waiting(s["main"].queue)
    BY <1>1, <1>2, WaitingSame
  <1>5. \A i \in DOMAIN t["main"].queue : t["main"].queue[i].by = "main"
    <2>1. DOMAIN t["main"].queue = DOMAIN s["main"].queue
      BY <1>1, <1>2, LenProperties DEF SameEntries
    <2>2. \A i \in DOMAIN s["main"].queue : t["main"].queue[i].by = s["main"].queue[i].by
      BY <1>2 DEF SameEntries
    <2> QED BY <2>1, <2>2, SoundFacts
  <1>6. Booked(t, g, n, E)
    <2>1. Booked(s, g, n, E)
      BY SoundFacts
    <2> QED BY <2>1, <1>4, Zenon DEF Booked
  <1> QED BY <1>3, <1>5, <1>6 DEF Sound, Shaped

LEMMA SameItself ==
    ASSUME NEW q
    PROVE  SameEntries(q, q)
  BY DEF SameEntries

LEMMA SoundQuiet ==
    ASSUME NEW s, NEW g, NEW n, NEW E, Sound(s, g, n, E), NEW p \in Procs, NEW t \in Loggers,
           SameEntries(s[p].queue, t.queue), t.lost = s[p].lost
    PROVE  Sound([s EXCEPT ![p] = t], g, n, E)
  <1> DEFINE u == [s EXCEPT ![p] = t]
  <1>1. u \in [Procs -> Loggers] /\ u[p] = t /\ \A o \in Procs \ {p} : u[o] = s[o]
    BY SoundFacts
  <1> HIDE DEF u
  <1>2. \A o \in Procs : SameEntries(s[o].queue, u[o].queue)
    BY <1>1, SameItself
  <1>3. u["main"].lost = s["main"].lost
    BY <1>1 DEF Procs
  <1>4. Sound(u, g, n, E)
    BY <1>1, <1>2, <1>3, SoundAll
  <1> QED BY <1>4 DEF u

\* A message is queued or counted as lost, or the losses are queued.
LEMMA SoundQueued ==
    ASSUME NEW s, NEW g, NEW n, NEW E, Sound(s, g, n, E), NEW p \in Procs, NEW t \in Loggers,
           NEW e \in Entries, NEW m \in Nat, e.by = p,
           \/ m = n[p] + 1 /\ e.id = m /\ t.queue = Append(s[p].queue, e) /\ t.lost = s[p].lost
           \/ m = n[p] + 1 /\ t.queue = s[p].queue /\ t.lost = s[p].lost + 1
           \/ /\ m = n[p] /\ e.id = 0 /\ e.count = s[p].lost
              /\ t.queue = Append(s[p].queue, e) /\ t.lost = 0
    PROVE  Sound([s EXCEPT ![p] = t], g, [n EXCEPT ![p] = m], E)
  <1> DEFINE u == [s EXCEPT ![p] = t]
             v == [n EXCEPT ![p] = m]
             q == s[p].queue
  <1>1. /\ u \in [Procs -> Loggers] /\ u[p] = t /\ \A o \in Procs \ {p} : u[o] = s[o]
        /\ v \in [Procs -> Nat] /\ v[p] = m /\ \A o \in Procs \ {p} : v[o] = n[o]
    BY SoundFacts
  <1>2. q \in Seq(Entries) /\ g \in Seq(Lines) /\ n[p] \in Nat /\ InTurn(p, q, g, n[p])
    BY SoundFacts
  <1>3. InTurn(p, t.queue, g, m)
    <2>1. CASE t.queue = q
      <3>1. InTurn(p, q, g, n[p] + 1)
        BY <1>2, TurnLater
      <3> QED BY <3>1, <2>1, <1>2, Appended
    <2>2. CASE t.queue = Append(q, e)
      <3>1. InTurn(p, Append(q, e), g, m)
        BY <2>2, <1>2, TurnQueued, Appended
      <3> QED BY <3>1, <2>2
    <2> QED BY <2>1, <2>2
  <1>4. \A o \in Procs : InTurn(o, u[o].queue, g, v[o])
    <2> HIDE DEF u, v
    <2> QED BY <1>1, <1>3, SoundFacts
  <1>5. \A i \in DOMAIN u["main"].queue : u["main"].queue[i].by = "main"
    <2>1. \A i \in DOMAIN s["main"].queue : s["main"].queue[i].by = "main"
      BY SoundFacts
    <2>2. CASE p # "main"
      BY <2>1, <2>2, <1>1 DEF Procs
    <2>3. CASE p = "main" /\ t.queue = q
      BY <2>1, <2>3, <1>1
    <2>4. CASE p = "main" /\ t.queue = Append(q, e)
      <3>1. \A i \in DOMAIN Append(q, e) : Append(q, e)[i].by = "main"
        BY <2>1, <2>4, <1>2, Appended
      <3> QED BY <3>1, <2>4, <1>1
    <2> QED BY <2>2, <2>3, <2>4
  <1>6. \A x \in E : x[2] <= v[x[1]]
    <2> TAKE x \in E
    <2>1. x[1] \in Procs /\ x[2] \in Nat /\ x[2] <= n[x[1]]
      BY SoundFacts
    <2> QED BY <2>1, <1>1, <1>2
  <1>7. Booked(u, g, v, E)
    <2>1. Booked(s, g, n, E)
      BY SoundFacts
    <2>2. CASE p # "main"
      <3>1. u["main"] = s["main"] /\ v["main"] = n["main"]
        BY <2>2, <1>1 DEF Procs
      <3> HIDE DEF u, v
      <3> QED BY <3>1, <2>1, Zenon DEF Booked
    <2>3. CASE p = "main"
      <3>1. u["main"] = t /\ v["main"] = m
        BY <2>3, <1>1
      <3>2. n["main"] = Other(E) + Waiting(q) + s["main"].lost + Out(g)
        BY <2>1, <2>3 DEF Booked
      <3>3. /\ Waiting(q) \in Nat /\ s["main"].lost \in Nat /\ Out(g) \in Nat
            /\ n["main"] \in Nat
        BY <2>3, <1>2, SoundFacts
      <3>4. Other(E) \in Nat
        <4>1. {x \in E : x[1] = "main"} \in SUBSET E /\ IsFiniteSet(E)
          BY SoundFacts
        <4>2. IsFiniteSet({x \in E : x[1] = "main"})
          BY <4>1, FS_Subset
        <4> QED BY <4>2, FS_CardinalityType DEF Other
      <3>5. Waiting(Append(q, e)) = Waiting(q) + Worth(e)
        BY <1>2, WaitingMore
      <3>6. Worth(e) = IF e.id = 0 THEN e.count ELSE 1
        BY DEF Worth
      <3>7. m = Other(E) + Waiting(t.queue) + t.lost + Out(g)
        <4> HIDE DEF q
        <4>1. CASE m = n[p] + 1 /\ e.id = m /\ t.queue = Append(q, e) /\ t.lost = s[p].lost
          <5>1. Worth(e) = 1
            BY <4>1, <3>3, <3>6, <2>3
          <5>2. Waiting(t.queue) = Waiting(q) + 1
            BY <4>1, <5>1, <3>5
          <5> QED BY <4>1, <5>2, <3>2, <3>3, <3>4, <2>3
        <4>2. CASE m = n[p] + 1 /\ t.queue = q /\ t.lost = s[p].lost + 1
          BY <4>2, <3>2, <3>3, <3>4, <2>3
        <4>3. CASE /\ m = n[p] /\ e.id = 0 /\ e.count = s[p].lost
                   /\ t.queue = Append(q, e) /\ t.lost = 0
          <5>1. Waiting(t.queue) = Waiting(q) + s["main"].lost
            BY <4>3, <3>5, <3>6, <2>3
          <5> QED BY <4>3, <5>1, <3>2, <3>3, <3>4, <2>3
        <4> QED BY <4>1, <4>2, <4>3 DEF q
      <3> HIDE DEF u, v, q
      <3> QED BY <3>1, <3>7, Zenon DEF Booked
    <2> QED BY <2>2, <2>3
  <1>8. Shaped(u, g, v, E)
    <2>1. /\ g \in Seq(Lines) /\ E \subseteq Procs \X Nat /\ IsFiniteSet(E)
      BY SoundFacts
    <2> HIDE DEF u, v
    <2> QED BY <2>1, <1>1 DEF Shaped
  <1> HIDE DEF u, v
  <1>9. Sound(u, g, v, E)
    BY <1>4, <1>5, <1>6, <1>7, <1>8 DEF Sound
  <1> QED BY <1>9 DEF u, v

\* A process without a queue hands its message over.
LEMMA SoundElsewhere ==
    ASSUME NEW s, NEW g, NEW n, NEW E, Sound(s, g, n, E), NEW p \in Procs
    PROVE  Sound(s, g, [n EXCEPT ![p] = n[p] + 1], E \cup {<<p, n[p] + 1>>})
  <1> DEFINE m == n[p] + 1
             v == [n EXCEPT ![p] = m]
             F == E \cup {<<p, m>>}
  <1>1. /\ v \in [Procs -> Nat] /\ v[p] = m /\ m \in Nat /\ \A o \in Procs \ {p} : v[o] = n[o]
        /\ E \subseteq Procs \X Nat /\ IsFiniteSet(E) /\ n[p] \in Nat
    BY SoundFacts
  <1>2. \A x \in E : x[1] \in Procs /\ x[2] \in Nat /\ x[2] <= n[x[1]]
    BY SoundFacts
  <1>3. <<p, m>> \notin E
    BY <1>1, <1>2
  <1> HIDE DEF v
  <1>4. /\ IsFiniteSet(F) /\ Other(E) \in Nat
        /\ Other(F) = IF p = "main" THEN Other(E) + 1 ELSE Other(E)
    BY <1>1, <1>3, OtherMore
  <1>5. \A o \in Procs : InTurn(o, s[o].queue, g, v[o])
    <2> TAKE o \in Procs
    <2>1. /\ InTurn(o, s[o].queue, g, n[o]) /\ s[o].queue \in Seq(Entries) /\ g \in Seq(Lines)
          /\ n[o] \in Nat
      BY SoundFacts
    <2>2. InTurn(o, s[o].queue, g, n[o] + 1)
      BY <2>1, TurnLater
    <2> QED BY <2>1, <2>2, <1>1
  <1>6. \A x \in F : x[2] <= v[x[1]]
    BY <1>1, <1>2
  <1>7. F \subseteq Procs \X Nat
    BY <1>1
  <1> HIDE DEF F
  <1>8. Booked(s, g, v, F)
    <2>1. n["main"] = Other(E) + Waiting(s["main"].queue) + s["main"].lost + Out(g)
      BY SoundFacts DEF Booked
    <2>2. s["main"].lost \in Nat /\ Waiting(s["main"].queue) \in Nat /\ Out(g) \in Nat
      BY SoundFacts
    <2>3. v["main"] = Other(F) + Waiting(s["main"].queue) + s["main"].lost + Out(g)
      <3>1. CASE p = "main"
        BY <3>1, <2>1, <2>2, <1>1, <1>4
      <3>2. CASE p # "main"
        BY <3>2, <2>1, <1>1, <1>4 DEF Procs
      <3> QED BY <3>1, <3>2
    <2> QED BY <2>3, Zenon DEF Booked
  <1>9. Shaped(s, g, v, F)
    BY <1>1, <1>4, <1>7, SoundFacts DEF Shaped
  <1>10. \A i \in DOMAIN s["main"].queue : s["main"].queue[i].by = "main"
    BY SoundFacts
  <1>11. Sound(s, g, v, F)
    BY <1>5, <1>6, <1>8, <1>9, <1>10 DEF Sound
  <1> QED BY <1>11 DEF v, F, m

\* A fork: the child has the parent's queue.
LEMMA SoundForked ==
    ASSUME NEW s, NEW g, NEW n, NEW E, Sound(s, g, n, E), NEW t \in Loggers,
           t.queue = s["main"].queue
    PROVE  Sound([s EXCEPT !["child"] = t], g, n, E)
  <1> DEFINE u == [s EXCEPT !["child"] = t]
  <1>1. /\ u \in [Procs -> Loggers] /\ u["child"] = t /\ u["main"] = s["main"]
        /\ Procs = {"main", "child"}
    BY SoundFacts DEF Procs
  <1> HIDE DEF u
  <1>2. InTurn("child", t.queue, g, n["child"])
    <2>1. InTurn("child", s["child"].queue, g, n["child"])
      BY <1>1, SoundFacts
    <2>2. \A i \in DOMAIN t.queue : t.queue[i].by # "child"
      BY SoundFacts
    <2> QED BY <2>1, <2>2, TurnForked
  <1>3. \A o \in Procs : InTurn(o, u[o].queue, g, n[o])
    BY <1>1, <1>2, SoundFacts
  <1>4. Booked(u, g, n, E)
    <2>1. Booked(s, g, n, E)
      BY SoundFacts
    <2> QED BY <2>1, <1>1, Zenon DEF Booked
  <1>5. Shaped(u, g, n, E)
    BY <1>1, SoundFacts DEF Shaped
  <1>6. \A i \in DOMAIN u["main"].queue : u["main"].queue[i].by = "main"
    BY <1>1, SoundFacts
  <1>7. \A x \in E : x[2] <= n[x[1]]
    BY SoundFacts
  <1>8. Sound(u, g, n, E)
    BY <1>3, <1>4, <1>5, <1>6, <1>7 DEF Sound
  <1> QED BY <1>8 DEF u

\* What a process inherited goes.
LEMMA SoundDropped ==
    ASSUME NEW s, NEW g, NEW n, NEW E, Sound(s, g, n, E), NEW p \in Procs, NEW t \in Loggers,
           s[p].queue # <<>>, Head(s[p].queue).by # p, t.queue = Tail(s[p].queue)
    PROVE  Sound([s EXCEPT ![p] = t], g, n, E)
  <1> DEFINE u == [s EXCEPT ![p] = t]
  <1>1. u \in [Procs -> Loggers] /\ u[p] = t /\ \A o \in Procs \ {p} : u[o] = s[o]
    BY SoundFacts
  <1> HIDE DEF u
  <1>2. p # "main"
    BY SoundFacts, TailIs
  <1>3. u["main"] = s["main"]
    BY <1>1, <1>2 DEF Procs
  <1>4. InTurn(p, t.queue, g, n[p])
    BY SoundFacts, TurnTail
  <1>5. \A o \in Procs : InTurn(o, u[o].queue, g, n[o])
    BY <1>1, <1>4, SoundFacts
  <1>6. Booked(u, g, n, E)
    <2>1. Booked(s, g, n, E)
      BY SoundFacts
    <2> QED BY <2>1, <1>3, Zenon DEF Booked
  <1>7. Shaped(u, g, n, E)
    BY <1>1, SoundFacts DEF Shaped
  <1>8. \A i \in DOMAIN u["main"].queue : u["main"].queue[i].by = "main"
    BY <1>3, SoundFacts
  <1>9. \A x \in E : x[2] <= n[x[1]]
    BY SoundFacts
  <1>10. Sound(u, g, n, E)
    BY <1>5, <1>6, <1>7, <1>8, <1>9 DEF Sound
  <1> QED BY <1>10 DEF u

\* A part of a message is written.
LEMMA SoundPart ==
    ASSUME NEW s, NEW g, NEW n, NEW E, Sound(s, g, n, E), NEW w \in Lines,
           w.part = "first", w.id <= n[w.by]
    PROVE  Sound(s, Append(g, w), n, E)
  <1>1. Append(g, w) \in Seq(Lines) /\ g \in Seq(Lines)
    BY SoundFacts, AppendProperties
  <1>2. \A o \in Procs : InTurn(o, s[o].queue, Append(g, w), n[o])
    <2> TAKE o \in Procs
    <2>1. InTurn(o, s[o].queue, g, n[o]) /\ s[o].queue \in Seq(Entries) /\ n[o] \in Nat
      BY SoundFacts
    <2> QED BY <2>1, <1>1, TurnWritten
  <1>3. Booked(s, Append(g, w), n, E)
    <2>1. Out(Append(g, w)) = Out(g)
      BY <1>1, OutMore
    <2>2. Booked(s, g, n, E)
      BY SoundFacts
    <2> QED BY <2>1, <2>2, Zenon DEF Booked
  <1>4. Shaped(s, Append(g, w), n, E)
    BY <1>1, SoundFacts DEF Shaped
  <1>5. \A i \in DOMAIN s["main"].queue : s["main"].queue[i].by = "main"
    BY SoundFacts
  <1>6. \A x \in E : x[2] <= n[x[1]]
    BY SoundFacts
  <1> QED BY <1>2, <1>3, <1>4, <1>5, <1>6 DEF Sound

\* The first of the queue is written to its end.
LEMMA SoundWritten ==
    ASSUME NEW s, NEW g, NEW n, NEW E, Sound(s, g, n, E), NEW p \in Procs, NEW t \in Loggers,
           s[p].queue # <<>>, Head(s[p].queue).by = p,
           t.queue = Tail(s[p].queue), t.lost = s[p].lost,
           NEW w \in Lines, w.part # "first", w.by = p,
           w.id = Head(s[p].queue).id, w.count = Head(s[p].queue).count
    PROVE  Sound([s EXCEPT ![p] = t], Append(g, w), n, E)
  <1> DEFINE u == [s EXCEPT ![p] = t]
             r == Append(g, w)
             q == s[p].queue
  <1>1. u \in [Procs -> Loggers] /\ u[p] = t /\ \A o \in Procs \ {p} : u[o] = s[o]
    BY SoundFacts
  <1>2. /\ r \in Seq(Lines) /\ g \in Seq(Lines) /\ q \in Seq(Entries) /\ n[p] \in Nat
        /\ q # <<>>
    BY SoundFacts, AppendProperties
  <1>3. InTurn(p, Tail(q), r, n[p])
    <2>1. InTurn(p, q, g, n[p])
      BY SoundFacts
    <2> QED BY <2>1, <1>2, TurnEnds
  <1> HIDE DEF u, r
  <1>4. \A o \in Procs : InTurn(o, u[o].queue, r, n[o])
    <2> TAKE o \in Procs
    <2>1. CASE o = p
      BY <2>1, <1>1, <1>3
    <2>2. CASE o # p
      <3>1. /\ InTurn(o, s[o].queue, g, n[o]) /\ s[o].queue \in Seq(Entries) /\ n[o] \in Nat
            /\ w.by # o
        BY <2>2, SoundFacts
      <3>2. InTurn(o, s[o].queue, r, n[o])
        BY <3>1, <1>2, TurnWritten DEF r
      <3>3. u[o] = s[o]
        BY <2>2, <1>1
      <3> QED BY <3>2, <3>3
    <2> QED BY <2>1, <2>2
  <1>5. \A i \in DOMAIN u["main"].queue : u["main"].queue[i].by = "main"
    <2>1. \A i \in DOMAIN s["main"].queue : s["main"].queue[i].by = "main"
      BY SoundFacts
    <2>2. CASE p # "main"
      BY <2>1, <2>2, <1>1 DEF Procs
    <2>3. CASE p = "main"
      <3>1. \A i \in DOMAIN Tail(q) : i + 1 \in DOMAIN q /\ Tail(q)[i] = q[i + 1]
        BY <1>2, TailIs
      <3>2. \A i \in DOMAIN q : q[i].by = "main"
        BY <2>1, <2>3
      <3> HIDE DEF q
      <3>3. \A i \in DOMAIN Tail(q) : Tail(q)[i].by = "main"
        BY <3>1, <3>2
      <3>4. u["main"].queue = Tail(q)
        BY <2>3, <1>1 DEF q
      <3> QED BY <3>3, <3>4
    <2> QED BY <2>2, <2>3
  <1>6. Booked(u, r, n, E)
    <2>1. n["main"] = Other(E) + Waiting(s["main"].queue) + s["main"].lost + Out(g)
      BY SoundFacts DEF Booked
    <2>2. CASE p # "main"
      <3>1. u["main"] = s["main"]
        BY <2>2, <1>1 DEF Procs
      <3>2. Out(r) = Out(g)
        BY <2>2, <1>2, OutMore DEF r
      <3> QED BY <3>1, <3>2, <2>1, Zenon DEF Booked
    <2>3. CASE p = "main"
      <3>1. u["main"] = t
        BY <2>3, <1>1
      <3>2. Waiting(q) = Waiting(Tail(q)) + Worth(Head(q))
        BY <1>2, WaitingLess
      <3>3. Worth(w) = Worth(Head(q))
        BY DEF Worth
      <3>4. Out(r) = Out(g) + Worth(w)
        BY <2>3, <1>2, OutMore DEF r
      <3>5. Waiting(Tail(q)) \in Nat /\ Worth(w) \in Nat /\ Out(g) \in Nat
        <4>1. Tail(q) \in Seq(Entries)
          BY <1>2, TailIs
        <4>2. Worth(w) \in Nat
          BY WorthIs
        <4> QED BY <4>1, <4>2, <1>2, QueueFinite, OutIs
      <3>6. Waiting(t.queue) = Waiting(Tail(q)) /\ Waiting(s["main"].queue) = Waiting(q)
        BY <2>3
      <3>7. Other(E) \in Nat
        <4>1. {x \in E : x[1] = "main"} \in SUBSET E /\ IsFiniteSet(E)
          BY SoundFacts
        <4>2. IsFiniteSet({x \in E : x[1] = "main"})
          BY <4>1, FS_Subset
        <4> QED BY <4>2, FS_CardinalityType DEF Other
      <3>8. t.lost = s["main"].lost /\ t.lost \in Nat
        BY <2>3, LoggerFields
      <3>9. n["main"] = Other(E) + (Waiting(Tail(q)) + Worth(w)) + t.lost + Out(g)
        BY <3>2, <3>3, <3>6, <3>8, <2>1, Zenon
      <3> HIDE DEF q
      <3>10. n["main"] = Other(E) + Waiting(Tail(q)) + t.lost + (Out(g) + Worth(w))
        BY ONLY <3>9, <3>5, <3>7, <3>8
      <3> QED BY <3>1, <3>4, <3>6, <3>10, Zenon DEF Booked
    <2> QED BY <2>2, <2>3
  <1>7. Shaped(u, r, n, E)
    BY <1>1, <1>2, SoundFacts DEF Shaped
  <1>8. \A x \in E : x[2] <= n[x[1]]
    BY SoundFacts
  <1>9. Sound(u, r, n, E)
    BY <1>4, <1>5, <1>6, <1>7, <1>8 DEF Sound
  <1> QED BY <1>9 DEF u, r

-----------------------------------------------------------------------------
(* The steps                                                               *)

LEMMA PlaceChange ==
    ASSUME NEW s \in Loggers, NEW a \in WritingPlaces \cup {"off", "idle"},
           NEW t, t = [s EXCEPT !.pc = a]
    PROVE  t \in Loggers /\ t.queue = s.queue /\ t.lost = s.lost
  BY DEF Loggers

LEMMA LoggerChange ==
    ASSUME NEW s \in Loggers
    PROVE  /\ \A a \in {"open", "shut"} :
                 LET t == [s EXCEPT !.fd = a] IN
                 t \in Loggers /\ t.queue = s.queue /\ t.lost = s.lost
           /\ \A a \in BOOLEAN :
                 LET t == [s EXCEPT !.conn = a] IN
                 t \in Loggers /\ t.queue = s.queue /\ t.lost = s.lost
           /\ \A a \in BOOLEAN :
                 LET t == [s EXCEPT !.good = a] IN
                 t \in Loggers /\ t.queue = s.queue /\ t.lost = s.lost
           /\ \A a \in BOOLEAN :
                 LET t == [s EXCEPT !.used = a] IN
                 t \in Loggers /\ t.queue = s.queue /\ t.lost = s.lost
           /\ \A a \in WritingPlaces \cup {"off", "idle"}, b \in BOOLEAN :
                 LET t == [s EXCEPT !.pc = a, !.reply = b] IN
                 t \in Loggers /\ t.queue = s.queue /\ t.lost = s.lost
           /\ \A a \in WritingPlaces \cup {"off", "idle"}, b \in {"open", "shut"} :
                 LET t == [s EXCEPT !.fd = b, !.pc = a] IN
                 t \in Loggers /\ t.queue = s.queue /\ t.lost = s.lost
           /\ \A a \in BOOLEAN, b \in BOOLEAN :
                 LET t == [s EXCEPT !.good = a, !.conn = b] IN
                 t \in Loggers /\ t.queue = s.queue /\ t.lost = s.lost
           /\ \A a \in BOOLEAN, b \in BOOLEAN :
                 LET t == [s EXCEPT !.conn = a, !.good = b] IN
                 t \in Loggers /\ t.queue = s.queue /\ t.lost = s.lost
           /\ \A k \in Kinds, a \in BOOLEAN, b \in BOOLEAN :
                 LET t == [s EXCEPT !.kind = k, !.conn = a, !.good = b] IN
                 t \in Loggers /\ t.queue = s.queue /\ t.lost = s.lost
  BY DEF Loggers

LEMMA BackIs ==
    ASSUME st \in [Procs -> Loggers], NEW p \in Procs, NEW s \in Loggers, Back(p, s)
    PROVE  \E t \in Loggers :
              st' = [st EXCEPT ![p] = t] /\ t.queue = s.queue /\ t.lost = s.lost
  <1>1. CASE s.pc = "first" /\ s.fd = "open" /\ Pauses(s)
    <2> DEFINE t == [s EXCEPT !.pc = "second"]
    <2>1. t \in Loggers /\ t.queue = s.queue /\ t.lost = s.lost
      <3>1. "second" \in WritingPlaces \cup {"off", "idle"}
        BY DEF WritingPlaces
      <3> QED BY ONLY <3>1, s \in Loggers, PlaceChange
    <2>2. st' = [st EXCEPT ![p] = t]
      BY <1>1 DEF Back
    <2> QED BY <2>1, <2>2
  <1>2. CASE s.pc = "flush"
    <2> DEFINE t == [s EXCEPT !.fd = "shut", !.pc = "off"]
    <2>1. t \in Loggers /\ t.queue = s.queue /\ t.lost = s.lost
      BY LoggerChange
    <2>2. st' = [st EXCEPT ![p] = t] \/ st' = [st EXCEPT ![p] = s]
      BY <1>2 DEF Back
    <2> QED BY <2>1, <2>2
  <1>3. CASE ~(s.pc = "first" /\ s.fd = "open" /\ Pauses(s)) /\ s.pc # "flush"
    <2> DEFINE t == [s EXCEPT !.pc = "idle", !.reply = FALSE]
    <2>1. t \in Loggers /\ t.queue = s.queue /\ t.lost = s.lost
      BY LoggerChange
    <2>2. st' = [st EXCEPT ![p] = t]
      BY <1>3 DEF Back
    <2> QED BY <2>1, <2>2
  <1> QED BY <1>1, <1>2, <1>3

LEMMA InvFacts ==
    ASSUME LogInv
    PROVE  /\ st \in [Procs -> Loggers] /\ \A p \in Procs : st[p] \in Loggers
           /\ syslogd \in [up : BOOLEAN, kind : Kinds, unread : Int]
           /\ syslogd.kind \in Kinds
  BY SoundFacts DEF LogInv

LEMMA StepQuiet ==
    ASSUME LogInv, NEW p \in Procs, NEW t \in Loggers,
           SameEntries(st[p].queue, t.queue), t.lost = st[p].lost,
           st' = [st EXCEPT ![p] = t], UNCHANGED <<got, elsewhere, logged, syslogd>>
    PROVE  LogInv'
  <1>1. Sound([st EXCEPT ![p] = t], got, logged, elsewhere)
    BY SoundQuiet DEF LogInv
  <1> QED BY <1>1 DEF LogInv

LEMMA StepBack ==
    ASSUME LogInv, NEW p \in Procs, NEW s \in Loggers, s.queue = st[p].queue,
           s.lost = st[p].lost, Back(p, s), UNCHANGED <<got, elsewhere, logged, syslogd>>
    PROVE  LogInv'
  <1>1. PICK t \in Loggers :
           st' = [st EXCEPT ![p] = t] /\ t.queue = s.queue /\ t.lost = s.lost
    BY InvFacts, BackIs
  <1> QED BY <1>1, SameItself, StepQuiet

LEMMA StepNone ==
    ASSUME LogInv, UNCHANGED <<st, got, elsewhere, logged>>,
           syslogd' \in [up : BOOLEAN, kind : Kinds, unread : Int]
    PROVE  LogInv'
  BY DEF LogInv

LEMMA LostChange ==
    ASSUME NEW s \in Loggers, NEW m \in Nat, NEW t, t = [s EXCEPT !.lost = m]
    PROVE  t \in Loggers /\ t.queue = s.queue /\ t.lost = m /\ t.free = s.free
  BY DEF Loggers

LEMMA FirstChange ==
    ASSUME NEW s \in Loggers, NEW b \in BOOLEAN, NEW t,
           t = [s EXCEPT !.pc = "first", !.reply = b]
    PROVE  t \in Loggers /\ t.queue = s.queue /\ t.lost = s.lost
  <1>1. "first" \in WritingPlaces
    BY DEF WritingPlaces
  <1> QED BY <1>1 DEF Loggers

LEMMA Taken ==
    ASSUME NEW s \in Loggers, NEW e \in Entries
    PROVE  /\ Queued(s, e) \in Loggers
           /\ \/ Queued(s, e).queue = Append(s.queue, e) /\ Queued(s, e).lost = s.lost
              \/ Queued(s, e).queue = s.queue /\ Queued(s, e).lost = s.lost + 1
           /\ s.free > 0 => Queued(s, e).queue = Append(s.queue, e) /\ Queued(s, e).lost = s.lost
  <1> DEFINE q == Append(s.queue, e)
             t == Queued(s, e)
  <1>1. q \in Seq(Entries) /\ s.free \in Nat /\ s.lost \in Nat /\ s.alloced \in Nat
    BY LoggerFields, AppendProperties
  <1>2. CASE s.free > 0
    <2> DEFINE m == s.free - 1
    <2>1. t = [s EXCEPT !.free = m, !.queue = q]
      BY <1>2 DEF Queued
    <2>2. m \in Nat
      BY <1>1, <1>2
    <2> HIDE DEF m, t, q
    <2>3. t \in Loggers /\ t.queue = q /\ t.lost = s.lost
      BY <2>1, <2>2, <1>1 DEF Loggers
    <2> QED BY <2>3, Zenon DEF q, t
  <1>3. CASE ~(s.free > 0) /\ s.alloced < Buffers
    <2> DEFINE m == s.alloced + 1
    <2>1. t = [s EXCEPT !.alloced = m, !.queue = q]
      BY <1>3 DEF Queued
    <2>2. m \in Nat
      BY <1>1
    <2> HIDE DEF m, t, q
    <2>3. t \in Loggers /\ t.queue = q /\ t.lost = s.lost
      BY <2>1, <2>2, <1>1 DEF Loggers
    <2> QED BY <2>3, Zenon DEF q, t
  <1>4. CASE ~(s.free > 0) /\ ~(s.alloced < Buffers)
    <2> DEFINE m == s.lost + 1
    <2>1. t = [s EXCEPT !.lost = m]
      BY <1>4 DEF Queued
    <2>2. m \in Nat
      BY <1>1
    <2> HIDE DEF m, t
    <2>3. t \in Loggers /\ t.queue = s.queue /\ t.lost = m
      BY <2>1, <2>2, LostChange
    <2> QED BY <2>3, <1>4, Zenon DEF t, m
  <1> QED BY <1>2, <1>3, <1>4

LEMMA StepSyslog ==
    ASSUME LogInv, NEW p \in Procs, NEW reply \in BOOLEAN, MySyslog(p, reply)
    PROVE  LogInv'
  <1> DEFINE m == logged[p] + 1
  <1>1. /\ logged' = [logged EXCEPT ![p] = m] /\ UNCHANGED <<got, syslogd>>
    BY DEF MySyslog
  <1>2. logged[p] \in Nat /\ m \in Nat
    BY SoundFacts DEF LogInv
  <1>3. CASE st[p].fd = "shut"
    <2>1. st' = st /\ elsewhere' = elsewhere \cup {<<p, m>>}
      BY <1>3 DEF MySyslog
    <2>2. Sound(st, got, [logged EXCEPT ![p] = logged[p] + 1],
                elsewhere \cup {<<p, logged[p] + 1>>})
      BY SoundElsewhere DEF LogInv
    <2> QED BY <1>1, <2>1, <2>2 DEF LogInv
  <1>4. CASE st[p].fd # "shut"
    <2> DEFINE e == Entry(p, m, 0)
               s == Queued(st[p], e)
               t == [s EXCEPT !.pc = "first", !.reply = reply]
    <2>1. /\ st' = [st EXCEPT ![p] = [Queued(@, Entry(p, logged[p] + 1, 0)) EXCEPT
                                         !.pc = "first", !.reply = reply]]
          /\ elsewhere' = elsewhere
      BY <1>4 DEF MySyslog
    <2>2. e \in Entries /\ e.by = p /\ e.id = m
      BY <1>2 DEF Entry, Entries
    <2>3. st[p] \in Loggers /\ st \in [Procs -> Loggers]
      BY InvFacts
    <2>4. st' = [st EXCEPT ![p] = t]
      BY <2>1, <2>3
    <2> HIDE DEF e
    <2>5. /\ s \in Loggers
          /\ \/ s.queue = Append(st[p].queue, e) /\ s.lost = st[p].lost
             \/ s.queue = st[p].queue /\ s.lost = st[p].lost + 1
      BY <2>2, <2>3, Taken
    <2> HIDE DEF s
    <2>6. t \in Loggers /\ t.queue = s.queue /\ t.lost = s.lost
      BY <2>5, FirstChange, Zenon
    <2> HIDE DEF t, m
    <2>7. Sound([st EXCEPT ![p] = t], got, [logged EXCEPT ![p] = m], elsewhere)
      <3>1. Sound(st, got, logged, elsewhere)
        BY DEF LogInv
      <3>2. \/ m = logged[p] + 1 /\ e.id = m /\ t.queue = Append(st[p].queue, e) /\ t.lost = st[p].lost
            \/ m = logged[p] + 1 /\ t.queue = st[p].queue /\ t.lost = st[p].lost + 1
        BY <2>2, <2>5, <2>6 DEF m
      <3> QED BY <3>1, <3>2, <2>2, <2>6, <1>2, SoundQueued
    <2> QED BY <1>1, <2>1, <2>4, <2>7 DEF LogInv
  <1> QED BY <1>3, <1>4

LEMMA Freed ==
    ASSUME NEW s \in Loggers, s.queue # <<>>
    PROVE  /\ FreeEntry(s) \in Loggers /\ FreeEntry(s).queue = Tail(s.queue)
           /\ FreeEntry(s).lost = s.lost /\ FreeEntry(s).free > 0
  <1> DEFINE q == Tail(s.queue)
             m == s.free + 1
             t == FreeEntry(s)
  <1>1. q \in Seq(Entries) /\ m \in Nat /\ m > 0
    BY LoggerFields, TailIs
  <1>2. t = [s EXCEPT !.queue = q, !.free = m]
    BY DEF FreeEntry
  <1> HIDE DEF q, m, t
  <1>3. t \in Loggers /\ t.queue = q /\ t.lost = s.lost /\ t.free = m
    BY <1>1, <1>2 DEF Loggers
  <1> QED BY <1>1, <1>3, Zenon DEF q, t

LEMMA StepDropsForeign ==
    ASSUME LogInv, NEW p \in Procs, DropsForeign(p)
    PROVE  LogInv'
  <1> DEFINE t == FreeEntry(st[p])
  <1>1. /\ st[p].queue # <<>> /\ Head(st[p].queue).by # p
        /\ UNCHANGED <<got, elsewhere, logged, syslogd>>
    BY DEF DropsForeign, Turn, outside
  <1>2. st[p] \in Loggers /\ st \in [Procs -> Loggers]
    BY InvFacts
  <1>3. st' = [st EXCEPT ![p] = t]
    BY <1>2 DEF DropsForeign
  <1>4. t \in Loggers /\ t.queue = Tail(st[p].queue)
    BY <1>1, <1>2, Freed
  <1> HIDE DEF t
  <1>5. Sound([st EXCEPT ![p] = t], got, logged, elsewhere)
    BY <1>1, <1>4, SoundDropped DEF LogInv
  <1> QED BY <1>1, <1>3, <1>5 DEF LogInv

LEMMA StepWrites ==
    ASSUME LogInv, NEW p \in Procs, Writes(p)
    PROVE  LogInv'
  <1> DEFINE q == st[p].queue
             e == Head(q)
             w == Written(e, IF e.half THEN "last" ELSE "whole")
             s == FreeEntry(Good(p))
             t == Overflow(p, s)
  <1>1. /\ q # <<>> /\ e.by = p /\ got' = Append(got, w)
        /\ UNCHANGED <<elsewhere, logged>>
    BY DEF Writes, Own, Turn
  <1>2. st[p] \in Loggers /\ st \in [Procs -> Loggers] /\ q \in Seq(Entries)
    BY InvFacts, LoggerFields
  <1>3. st' = [st EXCEPT ![p] = t]
    BY DEF Writes
  <1>4. e \in Entries
    BY <1>1, <1>2, TailIs
  <1>5. w \in Lines /\ w.part # "first" /\ w.by = p /\ w.id = e.id /\ w.count = e.count
    BY <1>1, <1>4 DEF Written, Entries, Lines
  <1>6. Good(p) \in Loggers /\ Good(p).queue = q /\ Good(p).lost = st[p].lost
    BY <1>2, LoggerChange DEF Good
  <1>7. s \in Loggers /\ s.queue = Tail(q) /\ s.lost = st[p].lost /\ s.free > 0
    BY <1>1, <1>6, Freed
  <1> HIDE DEF w, s
  <1>8. Sound([st EXCEPT ![p] = s], Append(got, w), logged, elsewhere)
    BY <1>1, <1>5, <1>7, SoundWritten DEF LogInv
  <1>9. syslogd' \in [up : BOOLEAN, kind : Kinds, unread : Int]
    BY InvFacts DEF Writes
  <1>10. CASE s.lost = 0
    <2>1. t = s
      BY <1>10 DEF Overflow
    <2> QED BY <2>1, <1>1, <1>3, <1>8, <1>9, Zenon DEF LogInv
  <1>11. CASE s.lost # 0
    <2> DEFINE c == Entry(p, 0, s.lost)
               u == [s EXCEPT !.lost = 0]
    <2>1. t = Queued(u, c)
      BY <1>11 DEF Overflow
    <2>2. c \in Entries /\ c.by = p /\ c.id = 0 /\ c.count = s.lost
      BY <1>7, LoggerFields DEF Entry, Entries
    <2>3. u \in Loggers /\ u.lost = 0 /\ u.queue = s.queue /\ u.free > 0
      BY <1>7, LostChange
    <2> HIDE DEF c, u, t
    <2>4. t \in Loggers /\ t.queue = Append(s.queue, c) /\ t.lost = 0
      BY <2>1, <2>2, <2>3, Taken
    <2> DEFINE x == [st EXCEPT ![p] = s]
    <2>5. x[p] = s /\ [x EXCEPT ![p] = t] = [st EXCEPT ![p] = t]
      BY <1>2
    <2>6. logged[p] \in Nat /\ [logged EXCEPT ![p] = logged[p]] = logged
      BY SoundFacts DEF LogInv
    <2> HIDE DEF x
    <2>7. Sound(x, Append(got, w), logged, elsewhere)
      BY <1>8 DEF x
    <2>8. Sound([x EXCEPT ![p] = t], Append(got, w), [logged EXCEPT ![p] = logged[p]], elsewhere)
      BY <2>2, <2>4, <2>5, <2>6, <2>7, SoundQueued
    <2>9. Sound([st EXCEPT ![p] = t], Append(got, w), logged, elsewhere)
      BY <2>5, <2>6, <2>8, Zenon
    <2> QED BY <2>9, <1>1, <1>3, <1>9, Zenon DEF LogInv, t
  <1> QED BY <1>10, <1>11

LEMMA HalfQueue ==
    ASSUME NEW q \in Seq(Entries), q # <<>>
    PROVE  /\ [q EXCEPT ![1] = [q[1] EXCEPT !.half = TRUE]] \in Seq(Entries)
           /\ SameEntries(q, [q EXCEPT ![1] = [q[1] EXCEPT !.half = TRUE]])
  <1> DEFINE e == [q[1] EXCEPT !.half = TRUE]
             r == [q EXCEPT ![1] = e]
  <1>1. q[1] \in Entries /\ 1 \in DOMAIN q /\ DOMAIN q = 1 .. Len(q)
    BY TailIs
  <1>2. e \in Entries /\ e.by = q[1].by /\ e.id = q[1].id /\ e.count = q[1].count
    BY <1>1 DEF Entries
  <1> HIDE DEF e
  <1>3. r \in Seq(Entries) /\ Len(r) = Len(q)
    BY <1>1, <1>2, ExceptSeq
  <1>4. \A i \in DOMAIN q : r[i] = IF i = 1 THEN e ELSE q[i]
    BY <1>1
  <1> HIDE DEF r
  <1>5. SameEntries(q, r)
    BY <1>2, <1>3, <1>4 DEF SameEntries
  <1> QED BY <1>3, <1>5 DEF r, e

LEMMA StepWritesHalf ==
    ASSUME LogInv, NEW p \in Procs, WritesHalf(p)
    PROVE  LogInv'
  <1> DEFINE q == st[p].queue
             e == Head(q)
             w == Written(e, "first")
             r == [q EXCEPT ![1] = [q[1] EXCEPT !.half = TRUE]]
             s == [Good(p) EXCEPT !.queue = r]
  <1>1. /\ q # <<>> /\ e.by = p /\ got' = Append(got, w)
        /\ UNCHANGED <<elsewhere, logged, syslogd>>
    BY DEF WritesHalf, Own, Turn
  <1>2. st[p] \in Loggers /\ st \in [Procs -> Loggers] /\ q \in Seq(Entries)
    BY InvFacts, LoggerFields
  <1>3. e \in Entries /\ e = q[1] /\ 1 \in DOMAIN q
    BY <1>1, <1>2, TailIs
  <1>4. Good(p) \in Loggers /\ Good(p).queue = q /\ Good(p).lost = st[p].lost
    BY <1>2, LoggerChange DEF Good
  <1>5. r \in Seq(Entries) /\ SameEntries(q, r)
    BY <1>1, <1>2, HalfQueue
  <1>6. Back(p, [Good(p) EXCEPT !.queue[1].half = TRUE])
    BY DEF WritesHalf
  <1>7. [Good(p) EXCEPT !.queue[1].half = TRUE]
          = [Good(p) EXCEPT !.queue = [Good(p).queue EXCEPT ![1] = [Good(p).queue[1] EXCEPT !.half = TRUE]]]
    OBVIOUS
  <1>8. Back(p, s)
    BY <1>4, <1>6, <1>7
  <1> HIDE DEF r
  <1>9. s \in Loggers /\ s.queue = r /\ s.lost = st[p].lost
    BY <1>4, <1>5 DEF Loggers
  <1> HIDE DEF s
  <1>10. PICK t \in Loggers : st' = [st EXCEPT ![p] = t] /\ t.queue = s.queue /\ t.lost = s.lost
    BY <1>2, <1>8, <1>9, BackIs
  <1>11. w \in Lines /\ w.part = "first" /\ w.by = p /\ w.id = e.id
    BY <1>1, <1>3 DEF Written, Entries, Lines
  <1>12. w.id <= logged[w.by]
    <2>1. InTurn(p, q, got, logged[p])
      BY SoundFacts DEF LogInv
    <2> QED BY <2>1, <1>1, <1>3, <1>11 DEF InTurn
  <1> HIDE DEF w
  <1>13. Sound(st, Append(got, w), logged, elsewhere)
    BY <1>11, <1>12, SoundPart DEF LogInv
  <1>14. Sound([st EXCEPT ![p] = t], Append(got, w), logged, elsewhere)
    BY <1>5, <1>9, <1>10, <1>13, SoundQuiet
  <1> QED BY <1>1, <1>10, <1>14 DEF LogInv

\* A turn of log_write that writes nothing.
LEMMA StepTurnsBack ==
    ASSUME LogInv, NEW p \in Procs,
           WritesNothing(p) \/ WouldBlock(p) \/ NoBuffers(p) \/ GivesUpSocket(p)
    PROVE  LogInv'
  <1> DEFINE g == Good(p)
  <1>1. st[p] \in Loggers /\ st \in [Procs -> Loggers]
    BY InvFacts
  <1>2. g \in Loggers /\ g.queue = st[p].queue /\ g.lost = st[p].lost
    BY <1>1, LoggerChange DEF Good
  <1>3. UNCHANGED <<got, elsewhere, logged, syslogd>>
    BY DEF WritesNothing, WouldBlock, NoBuffers, GivesUpSocket, Own, Turn
  <1>4. CASE WritesNothing(p)
    <2>1. Back(p, st[p])
      BY <1>4 DEF WritesNothing
    <2> QED BY <2>1, <1>1, <1>3, StepBack
  <1>5. CASE WouldBlock(p)
    <2>1. Back(p, g)
      BY <1>5 DEF WouldBlock
    <2> HIDE DEF g
    <2> QED BY <2>1, <1>2, <1>3, StepBack
  <1>6. CASE NoBuffers(p)
    <2> DEFINE t == [st[p] EXCEPT !.good = FALSE]
    <2>1. Back(p, t)
      BY <1>6 DEF NoBuffers
    <2>2. t \in Loggers /\ t.queue = st[p].queue /\ t.lost = st[p].lost
      BY <1>1, LoggerChange
    <2> HIDE DEF t
    <2> QED BY <2>1, <2>2, <1>3, StepBack
  <1>7. CASE GivesUpSocket(p)
    <2> DEFINE t == [g EXCEPT !.fd = "shut"]
    <2>1. Back(p, t)
      BY <1>7 DEF GivesUpSocket
    <2> HIDE DEF g
    <2>2. t \in Loggers /\ t.queue = g.queue /\ t.lost = g.lost
      BY <1>2, LoggerChange
    <2> HIDE DEF t
    <2>3. t.queue = st[p].queue /\ t.lost = st[p].lost
      BY <2>2, <1>2
    <2> QED BY <2>1, <2>2, <2>3, <1>3, StepBack
  <1> QED BY <1>4, <1>5, <1>6, <1>7

LEMMA StepConnects ==
    ASSUME LogInv, NEW p \in Procs, Connects(p)
    PROVE  LogInv'
  <1>1. st[p] \in Loggers /\ st \in [Procs -> Loggers] /\ syslogd.kind \in Kinds
    BY InvFacts
  <1>2. UNCHANGED <<got, elsewhere, logged, syslogd>>
    BY DEF Connects, Own, Turn
  <1>3. CASE ~syslogd.up
    <2> DEFINE t == [st[p] EXCEPT !.good = FALSE, !.conn = FALSE]
    <2>1. Back(p, t)
      BY <1>3 DEF Connects
    <2>2. t \in Loggers /\ t.queue = st[p].queue /\ t.lost = st[p].lost
      BY <1>1, LoggerChange
    <2> HIDE DEF t
    <2> QED BY <2>1, <2>2, <1>2, StepBack
  <1>4. CASE syslogd.up /\ syslogd.kind = st[p].kind
    <2> DEFINE t == [st[p] EXCEPT !.conn = TRUE, !.good = TRUE]
    <2>1. st' = [st EXCEPT ![p].conn = TRUE, ![p].good = TRUE]
      BY <1>4 DEF Connects
    <2>2. st' = [st EXCEPT ![p] = t]
      BY <2>1, <1>1
    <2>3. t \in Loggers /\ t.queue = st[p].queue /\ t.lost = st[p].lost
      BY <1>1, LoggerChange
    <2> HIDE DEF t
    <2> QED BY <2>2, <2>3, <1>2, SameItself, StepQuiet
  <1>5. CASE syslogd.up /\ syslogd.kind # st[p].kind
    <2> DEFINE t == [st[p] EXCEPT !.kind = syslogd.kind, !.conn = FALSE, !.good = TRUE]
    <2>1. st' = [st EXCEPT ![p].kind = syslogd.kind, ![p].conn = FALSE, ![p].good = TRUE]
      BY <1>5 DEF Connects
    <2>2. st' = [st EXCEPT ![p] = t]
      BY <2>1, <1>1
    <2>3. t \in Loggers /\ t.queue = st[p].queue /\ t.lost = st[p].lost
      BY <1>1, LoggerChange
    <2> HIDE DEF t
    <2> QED BY <2>2, <2>3, <1>2, SameItself, StepQuiet
  <1> QED BY <1>3, <1>4, <1>5

\* The steps of the rest of dnsmasq that change where a process is.
LEMMA StepMoves ==
    ASSUME LogInv, NEW p \in Procs,
           CheckLogWriter(p) \/ Flush(p) \/ LogReopen \/ MainKilled
    PROVE  LogInv'
  <1>1. st \in [Procs -> Loggers] /\ \A o \in Procs : st[o] \in Loggers
    BY InvFacts
  <1>2. UNCHANGED <<got, elsewhere, logged, syslogd>>
    BY DEF CheckLogWriter, Flush, LogReopen, MainKilled, outside
  <1>3. ASSUME NEW o \in Procs, NEW a \in WritingPlaces \cup {"off", "idle"},
               st' = [st EXCEPT ![o].pc = a]
        PROVE  LogInv'
    <2> DEFINE t == [st[o] EXCEPT !.pc = a]
    <2>1. st' = [st EXCEPT ![o] = t]
      BY <1>3, <1>1
    <2>2. t \in Loggers /\ t.queue = st[o].queue /\ t.lost = st[o].lost
      BY <1>1, PlaceChange
    <2> HIDE DEF t
    <2> QED BY <2>1, <2>2, <1>2, SameItself, StepQuiet
  <1>4. CASE CheckLogWriter(p)
    BY <1>3, <1>4 DEF CheckLogWriter, WritingPlaces
  <1>5. CASE Flush(p)
    <2> DEFINE a == IF st[p].fd = "shut" THEN "off" ELSE "flush"
    <2>1. st' = [st EXCEPT ![p].pc = a]
      BY <1>5 DEF Flush
    <2>2. a \in WritingPlaces \cup {"off", "idle"}
      BY DEF WritingPlaces
    <2> HIDE DEF a
    <2> QED BY <2>1, <2>2, <1>3
  <1>6. CASE MainKilled
    <2>1. "child" \in Procs
      BY DEF Procs
    <2> QED BY <2>1, <1>3, <1>6 DEF MainKilled
  <1>7. CASE LogReopen
    <2>1. PICK fd \in {"open", "shut"} : st' = [st EXCEPT !["main"].fd = fd]
      BY <1>7 DEF LogReopen
    <2>2. "main" \in Procs
      BY DEF Procs
    <2> DEFINE t == [st["main"] EXCEPT !.fd = fd]
    <2>3. st' = [st EXCEPT !["main"] = t]
      BY <2>1, <2>2, <1>1
    <2>4. t \in Loggers /\ t.queue = st["main"].queue /\ t.lost = st["main"].lost
      BY <2>2, <1>1, LoggerChange
    <2> HIDE DEF t
    <2> QED BY <2>2, <2>3, <2>4, <1>2, SameItself, StepQuiet
  <1> QED BY <1>4, <1>5, <1>6, <1>7

LEMMA StepForks ==
    ASSUME LogInv, Fork
    PROVE  LogInv'
  <1> DEFINE t == [st["main"] EXCEPT !.used = TRUE]
  <1>1. "main" \in Procs /\ st["main"] \in Loggers
    BY InvFacts DEF Procs
  <1>2. st' = [st EXCEPT !["child"] = t] /\ UNCHANGED <<got, elsewhere, logged, syslogd>>
    BY DEF Fork, outside
  <1>3. t \in Loggers /\ t.queue = st["main"].queue
    BY <1>1, LoggerChange
  <1> HIDE DEF t
  <1>4. Sound([st EXCEPT !["child"] = t], got, logged, elsewhere)
    BY <1>3, SoundForked DEF LogInv
  <1> QED BY <1>2, <1>4 DEF LogInv

LEMMA DaemonChange ==
    ASSUME NEW d \in [up : BOOLEAN, kind : Kinds, unread : Int]
    PROVE  /\ [d EXCEPT !.unread = @ - 1] \in [up : BOOLEAN, kind : Kinds, unread : Int]
           /\ [d EXCEPT !.up = FALSE, !.unread = 0]
                 \in [up : BOOLEAN, kind : Kinds, unread : Int]
  <1> DEFINE m == d.unread - 1
  <1>1. m \in Int
    OBVIOUS
  <1> HIDE DEF m
  <1>2. [d EXCEPT !.unread = m] \in [up : BOOLEAN, kind : Kinds, unread : Int]
    BY <1>1
  <1>3. [d EXCEPT !.up = FALSE, !.unread = 0] \in [up : BOOLEAN, kind : Kinds, unread : Int]
    <2> DEFINE a == [d EXCEPT !.unread = 0]
    <2>1. a \in [up : BOOLEAN, kind : Kinds, unread : Int]
      OBVIOUS
    <2>2. [d EXCEPT !.up = FALSE, !.unread = 0] = [a EXCEPT !.up = FALSE]
      OBVIOUS
    <2> HIDE DEF a
    <2>3. [a EXCEPT !.up = FALSE] \in [up : BOOLEAN, kind : Kinds, unread : Int]
      BY <2>1
    <2> QED BY <2>2, <2>3, Zenon
  <1> QED BY <1>2, <1>3, Zenon DEF m

LEMMA StepStops ==
    ASSUME LogInv, Stops
    PROVE  LogInv'
  <1> DEFINE u == [p \in Procs |-> [st[p] EXCEPT !.conn = FALSE]]
  <1>1. st' = u /\ UNCHANGED <<got, elsewhere, logged>>
    BY DEF Stops
  <1>2. \A p \in Procs : /\ u[p] \in Loggers /\ u[p].queue = st[p].queue
                         /\ u[p].lost = st[p].lost
    <2> TAKE p \in Procs
    <2> DEFINE t == [st[p] EXCEPT !.conn = FALSE]
    <2>1. t \in Loggers /\ t.queue = st[p].queue /\ t.lost = st[p].lost
      BY InvFacts, LoggerChange
    <2>2. u[p] = t
      OBVIOUS
    <2> QED BY <2>1, <2>2, Zenon
  <1>3. u \in [Procs -> Loggers]
    BY <1>2
  <1>4. syslogd' \in [up : BOOLEAN, kind : Kinds, unread : Int]
    <2>1. syslogd' = [syslogd EXCEPT !.up = FALSE, !.unread = 0]
      BY DEF Stops
    <2> QED BY <2>1, InvFacts, DaemonChange
  <1>5. "main" \in Procs
    BY DEF Procs
  <1> HIDE DEF u
  <1>6. \A p \in Procs : SameEntries(st[p].queue, u[p].queue)
    BY <1>2, SameItself
  <1>7. Sound(u, got, logged, elsewhere)
    BY <1>2, <1>3, <1>5, <1>6, SoundAll DEF LogInv
  <1> QED BY <1>1, <1>4, <1>7 DEF LogInv

LEMMA StepOfSyslogd ==
    ASSUME LogInv, AnswerQuietly \/ Reads \/ AskTimesOut \/ Starts \/ UNCHANGED logVars
    PROVE  LogInv'
  <1>1. UNCHANGED <<st, got, elsewhere, logged>>
    BY DEF AnswerQuietly, Reads, AskTimesOut, Starts, logVars
  <1>2. syslogd' \in [up : BOOLEAN, kind : Kinds, unread : Int]
    <2>1. syslogd \in [up : BOOLEAN, kind : Kinds, unread : Int]
      BY InvFacts
    <2>2. CASE AnswerQuietly \/ AskTimesOut \/ UNCHANGED logVars
      <3>1. syslogd' = syslogd
        BY <2>2 DEF AnswerQuietly, AskTimesOut, logVars
      <3> QED BY <2>1, <3>1, Zenon
    <2>3. CASE Reads
      <3>1. syslogd' = [syslogd EXCEPT !.unread = @ - 1]
        BY <2>3 DEF Reads
      <3> QED BY <2>1, <3>1, DaemonChange
    <2>4. CASE Starts
      <3>1. PICK k \in Kinds : syslogd' = [up |-> TRUE, kind |-> k, unread |-> 0]
        BY <2>4 DEF Starts
      <3> QED BY <3>1
    <2> QED BY <2>2, <2>3, <2>4
  <1> QED BY <1>1, <1>2, StepNone

LEMMA LogStarts ==
    ASSUME LogInit
    PROVE  LogInv
  <1> DEFINE f == [LogStart EXCEPT !.pc = "off"]
  <1>1. LogStart \in Loggers /\ LogStart.queue = <<>> /\ LogStart.lost = 0
    <2>1. <<>> \in Seq(Entries)
      BY EmptySeq
    <2> QED BY <2>1 DEF LogStart, Loggers, Kinds, WritingPlaces
  <1>2. f \in Loggers /\ f.queue = <<>> /\ f.lost = 0
    <2>1. f.queue = LogStart.queue /\ f.lost = LogStart.lost /\ f \in Loggers
      BY <1>1 DEF Loggers
    <2> QED BY <1>1, <2>1, Zenon
  <1>3. /\ st = [p \in Procs |-> IF p = "main" THEN LogStart ELSE f]
        /\ got = <<>> /\ elsewhere = {} /\ logged = [p \in Procs |-> 0]
        /\ syslogd \in [up : BOOLEAN, kind : Kinds, unread : {0}]
    BY DEF LogInit
  <1> HIDE DEF f
  <1>4. /\ st \in [Procs -> Loggers] /\ logged \in [Procs -> Nat]
        /\ \A p \in Procs : st[p].queue = <<>> /\ st[p].lost = 0 /\ logged[p] = 0
    BY <1>1, <1>2, <1>3
  <1>5. "main" \in Procs
    BY DEF Procs
  <1>6. got \in Seq(Lines) /\ DOMAIN got = {} /\ DOMAIN <<>> = {}
    BY <1>3, EmptySeq
  <1>7. IsFiniteSet(elsewhere) /\ Cardinality({}) = 0
    BY <1>3, FS_EmptySet
  <1>8. Waiting(<<>>) = 0
    <2>1. StandFor(<<>>, DOMAIN <<>>) = {}
      BY <1>6 DEF StandFor
    <2> QED BY <2>1, <1>7, Zenon DEF Waiting
  <1>9. Out(got) = 0
    <2>1. WholeIn("main", got) = {}
      BY <1>6 DEF WholeIn
    <2>2. StandFor(got, WholeIn("main", got)) = {}
      BY <2>1 DEF StandFor
    <2> QED BY <2>2, <1>7, Zenon DEF Out
  <1>10. Other(elsewhere) = 0
    <2>1. {x \in elsewhere : x[1] = "main"} = {}
      BY <1>3
    <2> QED BY <2>1, <1>7, Zenon DEF Other
  <1>11. Booked(st, got, logged, elsewhere)
    <2>1. st["main"].queue = <<>> /\ st["main"].lost = 0 /\ logged["main"] = 0
      BY <1>4, <1>5
    <2> QED BY <2>1, <1>8, <1>9, <1>10 DEF Booked
  <1>12. \A p \in Procs : InTurn(p, st[p].queue, got, logged[p])
    <2> TAKE p \in Procs
    <2>1. DOMAIN st[p].queue = {} /\ EndsIn(p, got) = {}
      BY <1>4, <1>6 DEF EndsIn, WholeIn
    <2> QED BY <2>1, <1>6 DEF InTurn
  <1>13. \A i \in DOMAIN st["main"].queue : st["main"].queue[i].by = "main"
    BY <1>4, <1>5, <1>6
  <1>14. Shaped(st, got, logged, elsewhere)
    BY <1>3, <1>4, <1>6, <1>7 DEF Shaped
  <1>15. Sound(st, got, logged, elsewhere)
    BY <1>3, <1>11, <1>12, <1>13, <1>14 DEF Sound
  <1>16. syslogd \in [up : BOOLEAN, kind : Kinds, unread : Int]
    BY <1>3
  <1> QED BY <1>15, <1>16 DEF LogInv

LEMMA LogStep ==
    ASSUME LogInv, [LogNext]_logVars
    PROVE  LogInv'
  <1>1. ASSUME NEW p \in Procs, Log(p) PROVE LogInv'
    BY <1>1, StepSyslog DEF Log
  <1>2. ASSUME NEW p \in Procs, LogWrite(p) PROVE LogInv'
    <2>1. CASE WritesNothing(p) \/ WouldBlock(p) \/ NoBuffers(p) \/ GivesUpSocket(p)
      BY <2>1, StepTurnsBack
    <2>2. CASE DropsForeign(p)
      BY <2>2, StepDropsForeign
    <2>3. CASE Writes(p)
      BY <2>3, StepWrites
    <2>4. CASE WritesHalf(p)
      BY <2>4, StepWritesHalf
    <2>5. CASE Connects(p)
      BY <2>5, StepConnects
    <2> QED BY <1>2, <2>1, <2>2, <2>3, <2>4, <2>5 DEF LogWrite
  <1>3. ASSUME NEW p \in Procs, CheckLogWriter(p) \/ Flush(p) PROVE LogInv'
    BY <1>3, StepMoves
  <1>4. CASE LogReopen \/ MainKilled
    BY <1>4, StepMoves DEF Procs
  <1>5. CASE Answer
    <2>1. MySyslog("main", TRUE) /\ "main" \in Procs
      BY <1>5 DEF Answer, Procs
    <2> QED BY <2>1, StepSyslog
  <1>6. CASE AnswerQuietly \/ Reads \/ AskTimesOut \/ Starts \/ UNCHANGED logVars
    BY <1>6, StepOfSyslogd
  <1>7. CASE Fork
    BY <1>7, StepForks
  <1>8. CASE Stops
    BY <1>8, StepStops
  <1> QED BY <1>1, <1>2, <1>3, <1>4, <1>5, <1>6, <1>7, <1>8 DEF LogNext

LEMMA LogRightIs ==
    ASSUME LogInv
    PROVE  LogRight
  <1>1. \A p \in Procs : Ends(p) = EndsIn(p, got)
    BY DEF Ends, EndsIn, Whole, WholeIn
  <1>2. Whole("main") = WholeIn("main", got)
    BY DEF Whole, WholeIn
  <1>3. OnceInOrder
    <2> SUFFICES ASSUME NEW p \in Procs, NEW i \in Ends(p), NEW j \in Ends(p), i < j
                 PROVE  got[i].id < got[j].id
      BY DEF OnceInOrder
    <2>1. InTurn(p, st[p].queue, got, logged[p])
      BY SoundFacts DEF LogInv
    <2> QED BY <2>1, <1>1 DEF InTurn
  <1>4. Booked(st, got, logged, elsewhere)
    BY SoundFacts DEF LogInv
  <1>5. Accounted
    BY <1>2, <1>4, Zenon DEF Accounted, Booked, Other, Waiting, Out
  <1> QED BY <1>3, <1>5 DEF LogRight

\* Whatever the sizes of the queue and of syslogd's socket, and however often
\* either ends or fails: nothing is written twice or out of its turn, by dnsmasq
\* or by a process it forked with its queue, and every message of dnsmasq's is
\* written, waits, went elsewhere or is in a count (log.c).
THEOREM LogAlwaysRight == LogSpec => []LogRight
  <1>1. LogInit => LogInv
    BY LogStarts
  <1>2. LogInv /\ [LogNext]_logVars => LogInv'
    BY LogStep
  <1>3. LogInv => LogRight
    BY LogRightIs
  <1> QED BY <1>1, <1>2, <1>3, PTL DEF LogSpec

=============================================================================
