----------------------------- MODULE PxeSession -----------------------------
(***************************************************************************)
(* The life of the PXE server: TftpActivity and TftpMode start and stop     *)
(* dnsmasq through shells run by su; dnsmasq daemonizes, writes its pid     *)
(* file, serves and, on SIGTERM, removes the file and exits.  The shells    *)
(* and the servers outlive the process of the application.                  *)
(***************************************************************************)
EXTENDS Integers, FiniteSets

CONSTANTS Threads,       \* threads of the application (each with one shell)
          Addresses,     \* server addresses the user types in
          MayOverlap,    \* whether operations are begun while others run
          MaxStarts,     \* bound: servers that are launched
          MaxTaps,       \* bound: operations the user begins
          MaxFaults      \* bound: commands that fail, crashes, deaths, reuse

Pids == 1 .. MaxStarts
None == 0

ASSUME PxeAssumption ==
    MayOverlap \in BOOLEAN /\ MaxStarts \in Nat /\ MaxTaps \in Nat /\ MaxFaults \in Nat

VARIABLES
    op,        \* what each thread of the application does
    screen,    \* the activity: page, operationRunning, what onCreate saw
    mode,      \* MODE_TFTP in ModeService: shown, stopping
    session,   \* the preferences: in memory and on disk
    told,      \* what the user was told last
    shell,     \* the command each thread has given to su
    config,    \* dnsmasq.conf: the server address
    pidFile,   \* dnsmasq.pid
    onIface,   \* addresses given to the interface
    server,    \* the dnsmasq processes, by process id
    taps, faults,
    events     \* what happened that excuses a property

vars == <<op, screen, mode, session, told, shell, config, pidFile, onIface, server,
          taps, faults, events>>
app == <<op, screen, mode, session, told>>
phone == <<shell, config, pidFile, onIface, server>>
ghosts == <<taps, faults, events>>

-----------------------------------------------------------------------------
NoOp == [kind |-> "none", pc |-> "idle", addr |-> None, mine |-> FALSE]
NoShell == [pc |-> "idle", addr |-> None, code |-> 0]

Starting == {"load", "forked", "unlinked", "written"}
Live(p) == server[p].pc \in Starting \cup {"ready", "exiting"}
Serving == {p \in Pids : server[p].pc = "ready"}

InFlight(t) == op[t].pc # "idle" \/ shell[t].pc \notin {"idle", "done"}

\* Linux does not let a program be written while it runs, nor run while it is
\* open for writing.
Executing == (\E p \in Pids : Live(p)) \/ (\E t \in Threads : op[t].pc = "testing")
Writing == \E t \in Threads : op[t].pc = "writing"

\* isPxeRunning: kill -0 says only that some process has the number.
IsPxeRunning ==
    pidFile # None /\ (Live(pidFile) \/ server[pidFile].pc = "other")

\* A fault of the phone, of su or of a command.
Fault(names) ==
    /\ faults < MaxFaults
    /\ faults' = faults + 1 /\ events' = events \cup names /\ UNCHANGED taps

-----------------------------------------------------------------------------
(* ModeService, as far as this mode uses it.                               *)

Begin == mode' = [shown |-> TRUE, stopping |-> FALSE]
End == mode' = [shown |-> FALSE, stopping |-> FALSE]

-----------------------------------------------------------------------------
(* TftpActivity.                                                           *)

\* An operation begins while a screen is made.
Occurs == IF screen.page = "asking" THEN {"early"} ELSE {}

\* The user asks for an operation: it gets a thread of its own.
Tap(t, kind, addr, mine) ==
    /\ ~InFlight(t) /\ taps < MaxTaps
    /\ MayOverlap \/ \A u \in Threads : ~InFlight(u)
    /\ op' = [op EXCEPT ![t] = [kind |-> kind, pc |-> "begun", addr |-> addr, mine |-> mine]]
    /\ taps' = taps + 1 /\ events' = events \cup Occurs /\ UNCHANGED faults

\* performStart.
TapStart(t) ==
    /\ screen.page = "setup" /\ ~screen.busy
    /\ \E a \in Addresses : Tap(t, "start", a, TRUE)
    /\ screen' = [screen EXCEPT !.busy = TRUE]
    /\ Begin
    /\ UNCHANGED <<session, told, phone>>

\* stopServer.
TapStop(t) ==
    /\ screen.page = "running" /\ ~screen.busy
    /\ Tap(t, "stop", None, TRUE)
    /\ screen' = [screen EXCEPT !.busy = TRUE]
    /\ UNCHANGED <<mode, session, told, phone>>

\* The notification's Stop: stopHook, once for each begin.
TapHook(t) ==
    /\ mode.shown /\ ~mode.stopping
    /\ Tap(t, "hook", None, FALSE)
    /\ mode' = [mode EXCEPT !.stopping = TRUE]
    /\ UNCHANGED <<screen, session, told, phone>>

\* A start or stop that the screen knows nothing of has not come to its end.
Early == IF \E t \in Threads : InFlight(t) THEN {"early"} ELSE {}

\* onCreate: the screen is opened, or recreated while an operation runs (the
\* new object knows nothing of it).  First it asks whether the server runs.
Look ==
    /\ screen.page # "asking" /\ (screen.page # "closed" => taps < MaxTaps)
    /\ op' = [t \in Threads |-> [op[t] EXCEPT !.mine = FALSE]]
    /\ \/ /\ screen' = [page |-> "asking", busy |-> FALSE, saw |-> IsPxeRunning]
          /\ taps' = IF screen.page = "closed" THEN taps ELSE taps + 1
          /\ events' = events \cup Early /\ UNCHANGED faults
       \/ /\ Fault({"denied"})
          /\ screen' = [page |-> "asking", busy |-> FALSE, saw |-> FALSE]
    /\ UNCHANGED <<mode, session, told, phone>>

Show ==
    /\ screen.page = "asking"
    /\ screen' = [screen EXCEPT !.page = IF screen.saw THEN "running" ELSE "setup"]
    /\ IF screen.saw /\ ~mode.shown THEN Begin ELSE UNCHANGED mode
    /\ UNCHANGED <<op, session, told, phone, ghosts>>

\* The thread is done and tells the screen it belongs to, if that still is there.
Finish(t, word, page) ==
    /\ op' = [op EXCEPT ![t] = NoOp]
    /\ told' = word
    /\ screen' = IF op[t].mine THEN [screen EXCEPT !.busy = FALSE, !.page = page] ELSE screen
    /\ shell' = [shell EXCEPT ![t] = NoShell]

-----------------------------------------------------------------------------
(* TftpMode.startPxe.                                                      *)

Goto(t, pc) == op' = [op EXCEPT ![t].pc = pc]

\* startPxe returned FALSE.
StartFails(t) ==
    /\ Finish(t, "failed", "setup")
    /\ End
    /\ UNCHANGED <<session, config, pidFile, onIface, server>>

\* hasRootAccess, the checks of the paths and the files of the work directory.
Prepare(t) ==
    /\ op[t].kind = "start" /\ op[t].pc = "begun"
    /\ \/ Goto(t, "extract") /\ UNCHANGED <<screen, mode, session, told, phone, ghosts>>
       \/ Fault({}) /\ StartFails(t)

\* Mutant: the binary is replaced by a new file.
BinaryBusy_Never == FALSE

BinaryBusy == Executing

\* extractBinary writes the program anew, although it may be running.
Extract(t) ==
    /\ op[t].kind = "start" /\ op[t].pc = "extract"
    /\ IF BinaryBusy THEN StartFails(t) /\ UNCHANGED ghosts
       ELSE Goto(t, "writing") /\ UNCHANGED <<screen, mode, session, told, phone, ghosts>>

\* writeConfig, then dnsmasq --test.
WriteConfig(t) ==
    /\ op[t].pc = "writing"
    /\ config' = op[t].addr
    /\ Goto(t, "testing")
    /\ UNCHANGED <<screen, mode, session, told, shell, pidFile, onIface, server, ghosts>>

Test(t) ==
    /\ op[t].pc = "testing"
    /\ IF Writing THEN StartFails(t) /\ UNCHANGED ghosts
       ELSE /\ Goto(t, "launched")
            /\ shell' = [shell EXCEPT ![t] = [pc |-> "ip", addr |-> op[t].addr, code |-> 0]]
            /\ UNCHANGED <<screen, mode, session, told, config, pidFile, onIface, server,
                           ghosts>>

\* The command has returned; 350 ms later the process is looked for.
Confirm(t) ==
    /\ op[t].pc = "launched" /\ shell[t].pc = "done"
    /\ IF shell[t].code # 0 \/ ~IsPxeRunning
       THEN /\ StartFails(t)
            /\ events' = events \cup {"failed"} /\ UNCHANGED <<taps, faults>>
       ELSE \/ /\ Goto(t, "save")
               /\ UNCHANGED <<screen, mode, session, told, phone, ghosts>>
            \/ Fault({"failed", "denied"}) /\ StartFails(t)

\* saveSession; ModeService.progress does not bring an ended mode back.
SaveSession(t) ==
    /\ op[t].pc = "save"
    /\ session' = [session EXCEPT !.memory = op[t].addr]
    /\ Finish(t, "started", "running")
    /\ UNCHANGED <<mode, config, pidFile, onIface, server, ghosts>>

\* apply() reaches the disk later.
Persist ==
    /\ session.memory # session.disk
    /\ session' = [session EXCEPT !.disk = session.memory]
    /\ UNCHANGED <<op, screen, mode, told, phone, ghosts>>

-----------------------------------------------------------------------------
(* TftpMode.stopPxe.                                                       *)

StopPxe(t) ==
    /\ op[t].kind \in {"stop", "hook"} /\ op[t].pc = "begun"
    /\ Goto(t, "stopping")
    /\ \/ /\ shell' = [shell EXCEPT ![t] = [pc |-> "kill", addr |-> session.memory, code |-> 0]]
          /\ UNCHANGED ghosts
       \/ /\ Fault({})
          /\ shell' = [shell EXCEPT ![t] = [pc |-> "done", addr |-> None, code |-> 1]]
    /\ UNCHANGED <<screen, mode, session, told, config, pidFile, onIface, server>>

Stopped(t) ==
    /\ op[t].pc = "stopping" /\ shell[t].pc = "done" /\ shell[t].code = 0
    /\ Finish(t, "stopped", "setup")
    /\ End
    /\ UNCHANGED <<session, config, pidFile, onIface, server, ghosts>>

\* Mutant: the hook leaves the mode as it is.
NotStopped_Left(t) ==
    /\ op[t].pc = "stopping" /\ shell[t].pc = "done" /\ shell[t].code # 0
    /\ Finish(t, "not stopped", "running")
    /\ UNCHANGED <<mode, session, config, pidFile, onIface, server, ghosts>>

\* The screen says so; the hook begins the mode again, so that it can be
\* stopped again.
NotStopped(t) ==
    /\ op[t].pc = "stopping" /\ shell[t].pc = "done" /\ shell[t].code # 0
    /\ Finish(t, "not stopped", "running")
    /\ IF op[t].kind = "hook" THEN Begin ELSE UNCHANGED mode
    /\ UNCHANGED <<session, config, pidFile, onIface, server, ghosts>>

-----------------------------------------------------------------------------
(* The shells.                                                             *)

ShellAt(t, pc) == shell[t].pc = pc
ShellGoes(t, pc) == shell' = [shell EXCEPT ![t].pc = pc]
ShellEnds(t, code) == shell' = [shell EXCEPT ![t].pc = "done", ![t].code = code]

\* ip link set up && ip addr replace.
IpReplace(t) ==
    /\ ShellAt(t, "ip")
    /\ \/ /\ onIface' = onIface \cup {shell[t].addr}
          /\ ShellGoes(t, "rmOld") /\ UNCHANGED ghosts
       \/ Fault({}) /\ ShellEnds(t, 1) /\ UNCHANGED onIface
    /\ UNCHANGED <<app, config, pidFile, server>>

RemoveOld(t) ==
    /\ ShellAt(t, "rmOld")
    /\ pidFile' = None /\ ShellGoes(t, "exec")
    /\ UNCHANGED <<app, config, onIface, server, ghosts>>

\* dnsmasq is executed; the shell waits for the process it has started.
Exec(t) ==
    /\ ShellAt(t, "exec")
    /\ IF Writing THEN ShellEnds(t, 1) /\ UNCHANGED server
       ELSE \E p \in Pids :
              /\ server[p].pc = "off" /\ \A q \in Pids : q < p => server[q].pc # "off"
              /\ server' = [server EXCEPT ![p] = [pc |-> "load", term |-> FALSE, shell |-> t]]
              /\ ShellGoes(t, "server")
    /\ UNCHANGED <<app, config, pidFile, onIface, ghosts>>

\* kill "$P": a server that is not in its loop yet is killed at once; later
\* the signal is an event for the loop.  The number may have a new owner.
Killed(p) ==
    CASE server[p].pc \in Starting -> [server EXCEPT ![p].pc = "gone"]
      [] server[p].pc = "ready" -> [server EXCEPT ![p].term = TRUE]
      [] OTHER -> server

\* Mutant: only the file is removed.
Kill_Not(t) ==
    /\ ShellAt(t, "kill")
    /\ ShellGoes(t, "rm")
    /\ UNCHANGED <<app, config, pidFile, onIface, server, ghosts>>

Kill(t) ==
    /\ ShellAt(t, "kill")
    /\ server' = IF pidFile = None THEN server ELSE Killed(pidFile)
    /\ events' = IF pidFile # None /\ server[pidFile].pc = "other"
                 THEN events \cup {"innocent"} ELSE events
    /\ LET its == IF pidFile # None /\ server[pidFile].pc \in Starting
                  THEN {server[pidFile].shell} ELSE {}
       IN shell' = [u \in Threads |->
                     IF u = t THEN [shell[u] EXCEPT !.pc = "rm"]
                     ELSE IF u \in its THEN [shell[u] EXCEPT !.pc = "done"] ELSE shell[u]]
    /\ UNCHANGED <<app, config, pidFile, onIface, taps, faults>>

RemoveFile(t) ==
    /\ ShellAt(t, "rm")
    /\ pidFile' = None /\ ShellGoes(t, "del")
    /\ UNCHANGED <<app, config, onIface, server, ghosts>>

\* Mutant: the address stays.
IpDelete_Not(t) ==
    /\ ShellAt(t, "del")
    /\ ShellEnds(t, 0)
    /\ UNCHANGED <<app, config, pidFile, onIface, server, ghosts>>

IpDelete(t) ==
    /\ ShellAt(t, "del")
    /\ onIface' = onIface \ {shell[t].addr}
    /\ ShellEnds(t, 0)
    /\ UNCHANGED <<app, config, pidFile, server, ghosts>>

-----------------------------------------------------------------------------
(* dnsmasq: main().                                                        *)

ServerGoes(p, pc) == server' = [server EXCEPT ![p].pc = pc]
Parent(p, code) == ShellEnds(server[p].shell, code)

\* Start-up is over with an error: die() before the fork, send_event to the
\* waiting parent after it.
GivesUp(p) ==
    /\ ServerGoes(p, "gone") /\ Parent(p, 1)
    /\ UNCHANGED <<app, config, pidFile, onIface>>

\* The configuration is read, leases are loaded and sockets bound, all before
\* the fork; without an address on the interface there is nothing to bind.
Load(p) ==
    /\ server[p].pc = "load"
    /\ \/ /\ onIface # {}
          /\ ServerGoes(p, "forked")
          /\ UNCHANGED <<app, shell, config, pidFile, onIface, ghosts>>
       \/ onIface = {} /\ GivesUp(p) /\ UNCHANGED ghosts
       \/ Fault({}) /\ GivesUp(p)

Unlink(p) ==
    /\ server[p].pc = "forked"
    /\ pidFile' = None /\ ServerGoes(p, "unlinked")
    /\ UNCHANGED <<app, shell, config, onIface, ghosts>>

\* O_EXCL: another server's file is an error.
WritePid(p) ==
    /\ server[p].pc = "unlinked"
    /\ IF pidFile # None THEN GivesUp(p)
       ELSE /\ pidFile' = p /\ ServerGoes(p, "written")
            /\ UNCHANGED <<app, shell, config, onIface>>
    /\ UNCHANGED ghosts

\* log_start, capabilities and the TFTP directory; then the parent is released.
\* A start-up that fails here leaves its pid file.
Release(p) ==
    /\ server[p].pc = "written"
    /\ \/ /\ ServerGoes(p, "ready") /\ Parent(p, 0)
          /\ UNCHANGED <<app, config, pidFile, onIface, ghosts>>
       \/ Fault({"crash"}) /\ GivesUp(p)

\* EVENT_TERM: the loop gets to it when it has finished what it was doing.
Terminate(p) ==
    /\ server[p].pc = "ready" /\ server[p].term
    /\ pidFile' = None /\ ServerGoes(p, "exiting")
    /\ UNCHANGED <<app, shell, config, onIface, ghosts>>

Exit(p) ==
    /\ server[p].pc = "exiting"
    /\ ServerGoes(p, "gone")
    /\ UNCHANGED <<app, shell, config, pidFile, onIface, ghosts>>

-----------------------------------------------------------------------------
(* What happens to processes.                                              *)

\* SIGKILL, for want of memory.
Crash(p) ==
    /\ server[p].pc = "ready" /\ Fault({"crash"})
    /\ ServerGoes(p, "gone")
    /\ UNCHANGED <<app, shell, config, pidFile, onIface>>

\* The number of a dead server is given to another process.
Reuse(p) ==
    /\ server[p].pc = "gone" /\ Fault({})
    /\ ServerGoes(p, "other")
    /\ UNCHANGED <<app, shell, config, pidFile, onIface>>

\* The application's process ends; its shells go on by themselves.
AppGone ==
    /\ op' = [t \in Threads |-> NoOp]
    /\ screen' = [page |-> "closed", busy |-> FALSE, saw |-> FALSE]
    /\ mode' = [shown |-> FALSE, stopping |-> FALSE]
    /\ session' = [session EXCEPT !.memory = session.disk]
    /\ told' = "nothing"

Lost == IF session.memory # session.disk \/ \E t \in Threads : op[t].kind = "start"
        THEN {"lost"} ELSE {}

Death == AppGone /\ Fault(Lost) /\ UNCHANGED phone

Reboot ==
    /\ AppGone /\ Fault({"crash"} \cup Lost)
    /\ shell' = [t \in Threads |-> NoShell]
    /\ server' = [p \in Pids |-> IF Live(p) THEN [server[p] EXCEPT !.pc = "gone"] ELSE server[p]]
    /\ onIface' = {}
    /\ UNCHANGED <<config, pidFile>>

-----------------------------------------------------------------------------
Init ==
    /\ op = [t \in Threads |-> NoOp]
    /\ screen = [page |-> "closed", busy |-> FALSE, saw |-> FALSE]
    /\ mode = [shown |-> FALSE, stopping |-> FALSE]
    /\ session = [memory |-> None, disk |-> None]
    /\ told = "nothing"
    /\ shell = [t \in Threads |-> NoShell]
    /\ config = None /\ pidFile = None /\ onIface = {}
    /\ server = [p \in Pids |-> [pc |-> "off", term |-> FALSE, shell |-> None]]
    /\ taps = 0 /\ faults = 0 /\ events = {}

ThreadStep(t) ==
    \/ Prepare(t) \/ Extract(t) \/ WriteConfig(t) \/ Test(t) \/ Confirm(t) \/ SaveSession(t)
    \/ StopPxe(t) \/ Stopped(t) \/ NotStopped(t)

ShellStep(t) ==
    \/ IpReplace(t) \/ RemoveOld(t) \/ Exec(t)
    \/ Kill(t) \/ RemoveFile(t) \/ IpDelete(t)

ServerStep(p) ==
    Load(p) \/ Unlink(p) \/ WritePid(p) \/ Release(p) \/ Terminate(p) \/ Exit(p)

Next ==
    \/ \E t \in Threads : TapStart(t) \/ TapStop(t) \/ TapHook(t) \/ ThreadStep(t) \/ ShellStep(t)
    \/ Look \/ Show \/ Persist
    \/ \E p \in Pids : ServerStep(p) \/ Crash(p) \/ Reuse(p)
    \/ Death \/ Reboot

Spec == Init /\ [][Next]_vars

\* Threads, shells and servers go on; the user and the faults need not come.
FairSpec ==
    /\ Spec
    /\ WF_vars(Show)
    /\ \A t \in Threads : WF_vars(ThreadStep(t)) /\ WF_vars(ShellStep(t))
    /\ \A p \in Pids : WF_vars(ServerStep(p))

-----------------------------------------------------------------------------
\* Nothing is under way.
Quiet ==
    /\ \A t \in Threads : ~InFlight(t)
    /\ screen.page # "asking"
    /\ \A p \in Pids : Live(p) => server[p].pc = "ready" /\ ~server[p].term

\* Every server can be found: stopPxe and isPxeRunning know a server only by
\* its pid file, which every start and every exit of a server removes.  Two
\* operations at once (a screen that is recreated while it starts, Stop during
\* a start) are not kept apart by the code: only without MayOverlap.
ServerFound ==
    Quiet => \A p \in Serving : pidFile = p

\* The mode is shown exactly while there is a server, once a screen has looked,
\* and can always be stopped; after failed stops and failed starts, too.  (A
\* screen that is made while a start or a stop runs may look too early.)
ShownIsServed ==
    Quiet /\ screen.page # "closed" /\ events \cap {"early", "crash", "denied"} = {}
       => (mode.shown <=> Serving # {}) /\ ~mode.stopping

\* README.md:37: running modes "show a notification with ... a Stop button":
\* a server that runs is shown, whatever the user does.  Refuted: a screen that
\* was recreated during a start offers a second one, whose failure ends the mode.
RunningIsShown ==
    Quiet /\ screen.page # "closed" => (Serving # {} => mode.shown)

\* No address stays on the interface without its server, unless a start
\* failed after it had set the address, or its session was lost.
AddressGoes ==
    Quiet /\ Serving = {} /\ events \cap {"crash", "failed", "lost"} = {}
       => onIface = {}

\* TftpActivity.java:132: "Stops dnsmasq": who is told that the server was
\* stopped has no server for long, while operations do not overlap.
StopStops ==
    told = "stopped" ~> (Serving = {} \/ told # "stopped")

\* Whatever the user does, phone and screens tell of the server there is, and
\* a server can be found by its pid file.
PhoneFollows == ServerFound /\ ShownIsServed /\ AddressGoes
=============================================================================
