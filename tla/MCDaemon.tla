------------------------------ MODULE MCDaemon ------------------------------
(* The life of the server and what runs beside its service, on small         *)
(* instances: PxeSession, how the application starts and stops dnsmasq, and  *)
(* in dnsmasq LeaseScript, LogQueue and ArpWatch.  They share no state: a    *)
(* behaviour is one of one part, with the others at rest.                    *)
EXTENDS PxeSession, LeaseScript, LogQueue, ArpWatch

VARIABLE part

OneNamed == {[c \in Clients |-> NoName], [c \in Clients |-> IF c = "c1" THEN "n" ELSE NoName]}

ScriptRests == \A c \in Clients : conf[c] = NoName
LogRests == logTo = "file" /\ syslogd = [up |-> FALSE, kind |-> CHOOSE k \in Kinds : TRUE, unread |-> 0]
ArpRests == \A a \in Neighbours : kernel[a] = NoMac

MCInit ==
    /\ part \in {"session", "script", "log", "arp"}
    /\ Init /\ ScriptInit /\ LogInit /\ ArpInit
    /\ part # "script" => ScriptRests
    /\ part # "log" => LogRests
    /\ part # "arp" => ArpRests

MCNext ==
    \/ part = "session" /\ Next /\ UNCHANGED <<part, scriptVars, logVars, arpVars>>
    \/ part = "script" /\ ScriptNext /\ UNCHANGED <<part, vars, logVars, arpVars>>
    \/ part = "log" /\ LogNext /\ UNCHANGED <<part, vars, scriptVars, arpVars>>
    \/ part = "arp" /\ ArpNext /\ UNCHANGED <<part, vars, scriptVars, logVars>>

\* The fairness of the three parts that have one; ArpWatch has none.
Restarts == \E S \in SUBSET Places(leases) : Start(S)
MCFairness ==
    /\ WF_vars(part = "session" /\ Show)
    /\ \A t \in Threads : WF_vars(part = "session" /\ (ThreadStep(t)))
    /\ \A t \in Threads : WF_vars(part = "session" /\ (ShellStep(t)))
    /\ \A p \in Pids : WF_vars(part = "session" /\ ServerStep(p))
    /\ WF_scriptVars(part = "script" /\ ParentStep)
    /\ WF_scriptVars(part = "script" /\ Helper)
    /\ WF_scriptVars(part = "script" /\ Restarts)
    /\ WF_logVars(part = "log" /\ Reads)
    /\ WF_logVars(part = "log" /\ AskTimesOut)
    /\ WF_logVars(part = "log" /\ LogWrite("main"))
    /\ SF_logVars(part = "log" /\ (Answer \/ AnswerQuietly))

MCSpec ==
    /\ MCInit /\ [][MCNext]_<<part, vars, scriptVars, logVars, arpVars>>
    /\ MCFairness

\* What runs beside the service catches up: the helper has been told of every
\* lease (CatchesUp), and what syslogd asks is answered (Answered).
EachCatchesUp == (part = "script" => CatchesUp) /\ (part = "log" => Answered)
=============================================================================
