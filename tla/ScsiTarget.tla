----------------------------- MODULE ScsiTarget -----------------------------
(***************************************************************************)
(* What a read-only CD-ROM promises a SCSI initiator, without any          *)
(* transport: a command is submitted, performed once, and answered with    *)
(* its status and data; a failed command leaves sense data that stay until *)
(* they are reported or the next command clears them.  FfsBot implements   *)
(* this over the Bulk-Only Transport.                                      *)
(***************************************************************************)
EXTENDS Naturals

CONSTANTS
    Requests,    \* commands of the initiator, see RequestType
    InfoLength   \* units of data a control command has to report

VARIABLES
    req,     \* command submitted and not answered, or NoRequest
    done,    \* what performing it gave, or NoAnswer
    answer,  \* last answer the initiator has received
    sense    \* sense data kept for REQUEST SENSE

vars == <<req, done, answer, sense>>

Ops == {"none", "info", "badInfo", "sense", "read", "readBeyond", "verify",
        "badVerify", "other", "lun"}

\* A command with the data phase its initiator announces: direction, length
\* in units, and the units its command block asks for.
RequestType == [op : Ops, in : BOOLEAN, len : Nat, want : Nat]

NoRequest == [op |-> "idle", in |-> FALSE, len |-> 0, want |-> 0]
NoSense == "noSense"
NoAnswer == [status |-> "none", data |-> 0, reported |-> NoSense]

Smaller(a, b) == IF a <= b THEN a ELSE b

\* Units a successful command returns.
DataOf(r) ==
    CASE r.op = "read" -> r.want
      [] r.op \in {"info", "sense"} -> Smaller(InfoLength, r.want)
      [] OTHER -> 0

\* Sense data a command fails with; NoSense for one that succeeds.
FailureOf(r) ==
    CASE r.op = "readBeyond" -> "outOfRange"
      [] r.op \in {"badInfo", "badVerify"} -> "invalidField"
      [] r.op = "other" -> "invalidCommand"
      [] r.op = "lun" -> "lunNotSupported"
      [] OTHER -> NoSense

Result(r) == [status   |-> IF FailureOf(r) = NoSense THEN "GOOD" ELSE "FAILED",
              data     |-> DataOf(r),
              reported |-> IF r.op = "sense" THEN sense ELSE NoSense]

Init == /\ req = NoRequest /\ done = NoAnswer
        /\ answer = NoAnswer /\ sense = NoSense

Submit == /\ req = NoRequest
          /\ req' \in Requests
          /\ UNCHANGED <<done, answer, sense>>

Perform == /\ req # NoRequest /\ done = NoAnswer
           /\ done' = Result(req)
           /\ sense' = FailureOf(req)
           /\ UNCHANGED <<req, answer>>

Deliver == /\ done # NoAnswer
           /\ answer' = done /\ done' = NoAnswer /\ req' = NoRequest
           /\ UNCHANGED sense

\* The medium fails under the command: no answer, but sense to ask for.
Fail == /\ done # NoAnswer /\ req.op = "read"
        /\ sense' = "mediumError" /\ UNCHANGED <<req, done, answer>>

\* A reset of the bus ends the command and forgets the sense data.
Reset == /\ req' = NoRequest /\ done' = NoAnswer /\ sense' = NoSense
         /\ UNCHANGED answer

Next == Submit \/ Perform \/ Deliver \/ Fail \/ Reset

Spec == Init /\ [][Next]_vars
=============================================================================
