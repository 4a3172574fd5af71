------------------------------- MODULE FfsBot -------------------------------
(***************************************************************************)
(* The Bulk-Only Transport of the FunctionFS CD-ROM (jni/libfunctionfs.c,  *)
(* scsi_thread_main and the command handlers) against a USB host.  A bulk  *)
(* transfer is a rendezvous: a packet moves when one side writes and the   *)
(* other side reads.  Data is counted in units; a packet carries Packet    *)
(* units, or fewer when it is short, and a short packet ends a transfer.   *)
(* READ returns whole packets (2048-byte blocks), every other data phase   *)
(* is shorter than one packet.                                             *)
(*                                                                         *)
(* The worker's life (descriptors, stop, ENABLE) is the subject of         *)
(* FfsBackend; here BusReset stands for the end of one worker and the      *)
(* start of the next.                                                      *)
(***************************************************************************)
EXTENDS Naturals

CONSTANTS
    Requests,    \* commands of the host (ScsiTarget!RequestType)
    InfoLength,  \* units of data a control command has to report
    Packet,      \* units in a full packet
    MediumFails  \* TRUE: reading the ISO file can fail

ASSUME PacketAssumption == Packet \in Nat /\ Packet > 1
ASSUME InfoAssumption == InfoLength \in 1..(Packet - 1)

VARIABLES
    host,    \* phase of the host: idle, cbw, dataOut, dataIn, csw
    cmd,     \* command the host is carrying out
    got,     \* units moved in its data phase
    answer,  \* last status the host accepted, with the data it has
    dev,     \* worker: cbw (reads a CBW), data (data phase, CSW), dead
    plan,    \* what the handler decided for the command
    left,    \* units of the data phase still to move
    zlp,     \* zero-length packets still to be sent
    sense    \* g_sense

vars == <<host, cmd, got, answer, dev, plan, left, zlp, sense>>

NoRequest == [op |-> "idle", in |-> FALSE, len |-> 0, want |-> 0]
NoSense == "noSense"

-----------------------------------------------------------------------------
(* Command handlers: the data phase and the CSW a command gets             *)

Smaller(a, b) == IF a <= b THEN a ELSE b

\* drain: units read from OUT; send: units written to IN; zlp: ZLPs that follow.
Plan(drain, send, zlps, status, residue) ==
    [drain |-> drain, send |-> send, zlp |-> zlps, status |-> status,
     residue |-> residue, reported |-> NoSense]

NoPlan == Plan(0, 0, 0, "none", 0)

\* Mutant: more than the announced length is sent.
SendDataIn_NoClamp(r, n) ==
    IF r.len > 0 /\ ~r.in
    THEN Plan(0, 0, 0, "PHASE", r.len)
    ELSE Plan(0, n, 0, "GOOD", r.len - Smaller(n, r.len))

\* Mutant: the residue is the length the host announced.
SendDataIn_Residue(r, n) ==
    IF r.len > 0 /\ ~r.in
    THEN Plan(0, 0, 0, "PHASE", r.len)
    ELSE Plan(0, Smaller(n, r.len), 0, "GOOD", r.len)

\* send_data_in
SendDataIn(r, n) ==
    IF r.len > 0 /\ ~r.in
    THEN Plan(0, 0, 0, "PHASE", r.len)
    ELSE Plan(0, Smaller(n, r.len), 0, "GOOD", r.len - Smaller(n, r.len))

\* terminate_in_data_phase
Terminates(r) == IF r.len > 0 /\ r.in THEN 1 ELSE 0

\* Mutant: the data phase of a rejected command is left open.
Reject_NoZlp(r) == Plan(0, 0, 0, "FAILED", r.len)

\* A handler that rejects its command block: terminate, no draining.
Reject(r) == Plan(0, 0, Terminates(r), "FAILED", r.len)

\* Mutant: the OUT payload of a failed command is not consumed.
FailScsi_NoDrain(r) == Plan(0, 0, Terminates(r), "FAILED", r.len)

\* fail_scsi_command
FailScsi(r) ==
    Plan(IF r.in THEN 0 ELSE r.len, 0, Terminates(r), "FAILED", r.len)

\* send_file_blocks, range checked
SendBlocks(r) ==
    CASE r.want = 0 -> Plan(0, 0, 0, "GOOD", r.len)
      [] r.want > 0 /\ ~r.in /\ r.len > 0 -> Plan(0, 0, 0, "PHASE", r.len)
      [] OTHER -> Plan(0, Smaller(r.want, r.len), 0,
                       IF r.want = r.len THEN "GOOD" ELSE "PHASE",
                       r.len - Smaller(r.want, r.len))

\* TEST UNIT READY and its like: a data phase is moved out of the way.
NoDataCommand(r) ==
    Plan(IF r.in THEN 0 ELSE r.len, 0, Terminates(r),
         IF r.len = 0 THEN "GOOD" ELSE "PHASE", r.len)

\* The handlers that answer with data of the device: its size, its capacities
\* or its mode pages, cut to the allocation length.
Info(r) == SendDataIn(r, Smaller(InfoLength, r.want))

\* They reject a command block with a field they do not support.
Inquire(r) == IF r.op = "badInfo" THEN Reject(r) ELSE Info(r)

\* handle_request_sense: the sense data is reported, then cleared.
ReportSense(r) == [Info(r) EXCEPT !.reported = sense]

\* handle_verify_10: nothing is compared, and no data phase is ended.
VerifyBlocks(r) ==
    Plan(0, 0, 0, IF r.op = "badVerify" THEN "FAILED" ELSE "GOOD", r.len)

\* handle_scsi_command, with the checks of scsi_thread_main before it.
Handle(r) ==
    CASE r.op = "invalid"    -> Plan(0, 0, 0, "PHASE", r.len)
      [] r.op = "lun"        -> FailScsi(r)
      [] r.op = "none"       -> NoDataCommand(r)
      [] r.op \in {"info", "badInfo"}     -> Inquire(r)
      [] r.op = "sense"      -> ReportSense(r)
      [] r.op = "read"       -> SendBlocks(r)
      [] r.op = "readBeyond" -> Reject(r)
      [] r.op \in {"verify", "badVerify"} -> VerifyBlocks(r)
      [] OTHER               -> FailScsi(r)

\* Mutant: REQUEST SENSE leaves the sense data it has reported.
SenseAfter_Stays(r) ==
    CASE r.op \in {"invalid", "sense"} -> sense
      [] r.op = "lun"        -> "lunNotSupported"
      [] r.op = "readBeyond" -> "outOfRange"
      [] r.op \in {"badInfo", "badVerify"} -> "invalidField"
      [] r.op = "other"      -> "invalidCommand"
      [] OTHER               -> NoSense

\* Sense data while the command is carried out: cleared by every command that
\* reaches its handler, REQUEST SENSE included, and set by one that fails.
SenseAfter(r) ==
    CASE r.op = "invalid"    -> sense
      [] r.op = "lun"        -> "lunNotSupported"
      [] r.op = "readBeyond" -> "outOfRange"
      [] r.op \in {"badInfo", "badVerify"} -> "invalidField"
      [] r.op = "other"      -> "invalidCommand"
      [] OTHER               -> NoSense

-----------------------------------------------------------------------------
(* Phases                                                                  *)

DevDrains == dev = "data" /\ plan.drain > 0 /\ left > 0
DevSends  == dev = "data" /\ plan.drain = 0 /\ (left > 0 \/ zlp > 0)
DevStatus == dev = "data" /\ left = 0 /\ zlp = 0

\* The data phase of the host after n more units, in a packet of n or a
\* short packet: it ends with the announced length or a short packet.
HostAfter(n) == IF got + n >= cmd.len \/ n < Packet THEN "csw" ELSE host

Init ==
    /\ host = "idle" /\ cmd = NoRequest /\ got = 0
    /\ answer = [status |-> "none", data |-> 0, reported |-> NoSense]
    /\ dev = "cbw" /\ plan = NoPlan /\ left = 0 /\ zlp = 0
    /\ sense = NoSense

HostCommand ==
    /\ host = "idle"
    /\ cmd' \in Requests /\ host' = "cbw" /\ got' = 0
    /\ UNCHANGED <<answer, dev, plan, left, zlp, sense>>

\* The worker reads a CBW and its handler decides what follows.
ReadCbw ==
    /\ host = "cbw" /\ dev = "cbw"
    /\ plan' = Handle(cmd) /\ sense' = SenseAfter(cmd)
    /\ left' = plan'.drain + plan'.send /\ zlp' = plan'.zlp
    /\ dev' = "data"
    /\ host' = IF cmd.len = 0 THEN "csw" ELSE IF cmd.in THEN "dataIn" ELSE "dataOut"
    /\ UNCHANGED <<cmd, got, answer>>

\* drain_data_out takes a packet.
Drain ==
    /\ host = "dataOut" /\ DevDrains
    /\ LET n == Smaller(Packet, left) IN
       /\ left' = left - n /\ got' = got + n
       /\ host' = IF got + n >= cmd.len THEN "csw" ELSE host
    /\ UNCHANGED <<cmd, answer, dev, plan, zlp, sense>>

\* The worker writes a packet of data, or the ZLP, into the data phase.
Send ==
    /\ host = "dataIn" /\ DevSends
    /\ LET n == Smaller(Packet, left) IN
       /\ left' = left - n /\ got' = got + n
       /\ zlp' = IF left > 0 THEN zlp ELSE 0
       /\ host' = HostAfter(n)
    /\ UNCHANGED <<cmd, answer, dev, plan, sense>>

\* The file cannot be read: sense data are set and the worker gives up.
ReadFails ==
    /\ MediumFails /\ cmd.op = "read" /\ DevSends /\ left > 0
    /\ sense' = "mediumError" /\ dev' = "dead"
    /\ UNCHANGED <<host, cmd, got, answer, plan, left, zlp>>

\* The CSW reaches the host: what it takes to have moved follows from the
\* residue.
Status ==
    /\ host = "csw" /\ DevStatus
    /\ answer' = [status |-> plan.status, data |-> cmd.len - plan.residue,
                  reported |-> plan.reported]
    /\ host' = "idle" /\ cmd' = NoRequest /\ dev' = "cbw" /\ plan' = NoPlan
    /\ UNCHANGED <<got, left, zlp, sense>>

\* The CSW ends the data phase as a short packet; no status is left to read.
StatusAsData ==
    /\ host = "dataIn" /\ DevStatus
    /\ host' = "csw" /\ dev' = "cbw" /\ plan' = NoPlan
    /\ UNCHANGED <<cmd, got, answer, left, zlp, sense>>

\* Port reset or reconnection: the worker ends, the next one starts with
\* sense_clear() and its first CBW read.
BusReset ==
    /\ host # "idle" \/ dev = "dead"
    /\ host' = "idle" /\ cmd' = NoRequest /\ got' = 0
    /\ dev' = "cbw" /\ plan' = NoPlan /\ left' = 0 /\ zlp' = 0
    /\ sense' = NoSense /\ UNCHANGED answer

Transfer == ReadCbw \/ Drain \/ Send \/ Status \/ StatusAsData

Next == HostCommand \/ Transfer \/ ReadFails \/ BusReset

Spec == Init /\ [][Next]_vars

\* The worker is blocked in a transfer and the controller completes what both
\* sides ask for.  New commands, failures and resets are not due.
FairSpec == Spec /\ WF_vars(Transfer)

-----------------------------------------------------------------------------
(* Properties                                                              *)

Answering == [status |-> plan.status, data |-> plan.send,
              reported |-> plan.reported]

T == INSTANCE ScsiTarget WITH req <- cmd, done <- Answering

RequestType == [op : T!Ops \cup {"invalid"}, in : BOOLEAN, len : Nat, want : Nat]

\* A host whose announced data phase is the one its command block asks for.
Consistent(r) ==
    /\ r \in RequestType /\ r.op # "invalid"
    /\ r.op \in {"none", "verify", "badVerify"} => r.len = 0
    /\ r.op \in {"info", "sense", "read"} => r.len = r.want
    /\ r.op \in {"info", "sense", "read", "badInfo", "readBeyond"} =>
           r.in \/ r.len = 0

TypeOK ==
    /\ host \in {"idle", "cbw", "dataOut", "dataIn", "csw"}
    /\ cmd \in RequestType \cup {NoRequest}
    /\ got \in Nat /\ left \in Nat /\ zlp \in 0..1
    /\ dev \in {"cbw", "data", "dead"}
    /\ plan.residue \in 0..cmd.len /\ plan.drain + plan.send <= cmd.len
    /\ plan.drain = 0 \/ plan.send = 0

\* During a command that is Consistent, worker and host agree on the transfer
\* that comes next, whatever commands went before: what one writes the other
\* reads, as data, as ZLP or as status ("Critical BOT rule", fail_scsi_command).
PhasesAgree ==
    Consistent(cmd) /\ dev # "dead" =>
        /\ host = "cbw" => dev = "cbw"
        /\ host = "dataOut" => DevDrains
        /\ host = "dataIn" => DevSends
        /\ host = "csw" => DevStatus

\* A Consistent command is answered: the host ends up with a status, unless
\* the bus is reset or the medium fails.
CommandAnswered == host = "cbw" /\ Consistent(cmd) ~> host = "idle" \/ dev = "dead"

\* A host that is told GOOD for an IN command has received what the residue
\* says, whatever it announced and asked for.
ResidueRight ==
    host = "csw" /\ DevStatus /\ plan.status = "GOOD" /\ cmd.in =>
        cmd.len - plan.residue = got

\* The transport is invisible: in every step that does not belong to a command
\* with a data phase of its own making, the host sees the CD-ROM of ScsiTarget,
\* with the data, the statuses and the sense data of its commands.
Stray(r) == r # NoRequest /\ ~Consistent(r)
TargetSpec == T!Init /\ [][T!Next \/ Stray(cmd) \/ Stray(cmd')]_(T!vars)
=============================================================================
