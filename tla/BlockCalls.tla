----------------------------- MODULE BlockCalls -----------------------------
(***************************************************************************)
(* What UsbVentoy promises its callers: calls come one after another; a    *)
(* call that answers "true" has been carried out by the drive in full; one *)
(* that answers "false" may be carried out in part, even after it has      *)
(* answered, but never after a later call was; no command is carried out   *)
(* twice.                                                                  *)
(***************************************************************************)
EXTENDS Naturals

CONSTANTS
    MaxCalls,    \* bound: calls made
    MaxCommands  \* bound: commands one call is split into
ASSUME CallsAssumption == MaxCalls \in Nat \ {0} /\ MaxCommands \in Nat \ {0}

VARIABLES
    call,    \* the latest call, 0 before the first
    needs,   \* commands of each call the drive has to carry out
    acted,   \* commands of each call it has carried out
    answers  \* what each call returned

callVars == <<call, needs, acted, answers>>

Calls == 1..MaxCalls
Answers == {"none", "true", "false"}

CallsInit ==
    /\ call = 0
    /\ needs = [c \in Calls |-> 0] /\ acted = [c \in Calls |-> 0]
    /\ answers = [c \in Calls |-> "none"]

\* The caller waits for its answer: every method is synchronized.
Asked(n) ==
    /\ call < MaxCalls /\ (call > 0 => answers[call] # "none")
    /\ call' = call + 1 /\ needs' = [needs EXCEPT ![call + 1] = n]

Ask == \E n \in 0..MaxCommands : Asked(n) /\ UNCHANGED <<acted, answers>>

\* A call refused, or answered without the drive, at once.
AskAnswered ==
    \E n \in 0..MaxCommands, r \in {"true", "false"} :
       /\ Asked(n) /\ (r = "true" => n = 0)
       /\ answers' = [answers EXCEPT ![call + 1] = r] /\ UNCHANGED acted

Act(c) ==
    /\ c <= call /\ acted[c] < needs[c] /\ answers[c] # "true"
    /\ \A d \in Calls : d > c => acted[d] = 0
    /\ acted' = [acted EXCEPT ![c] = @ + 1]
    /\ UNCHANGED <<call, needs, answers>>

Answer(r) ==
    /\ call > 0 /\ answers[call] = "none"
    /\ r = "true" => acted[call] = needs[call]
    /\ answers' = [answers EXCEPT ![call] = r]
    /\ UNCHANGED <<call, needs, acted>>

CallsNext ==
    \/ Ask \/ AskAnswered
    \/ \E c \in Calls : Act(c)
    \/ \E r \in {"true", "false"} : Answer(r)

CallsSpec == CallsInit /\ [][CallsNext]_callVars
=============================================================================
