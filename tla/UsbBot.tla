------------------------------- MODULE UsbBot -------------------------------
(***************************************************************************)
(* UsbVentoy's Bulk-Only Transport: commands to a USB drive through bulk   *)
(* transfers that give up after five seconds.  Nothing puts host and drive *)
(* back in step after a failed transfer (except a phase error answered to  *)
(* SYNCHRONIZE CACHE), neither in the same session nor when it is opened   *)
(* again, so a command can meet the remains of an earlier one: what the    *)
(* drive still has to send, or a command block it has not read yet.  Tags  *)
(* start over with each UsbVentoy object.                                  *)
(*                                                                         *)
(* The drive is external.  It takes packets one at a time out of a buffer  *)
(* of one packet and reads no command before its last answer was taken.    *)
(***************************************************************************)
EXTENDS BlockCalls, Sequences

CONSTANTS
    Blocks,  \* blocks of a READ or WRITE, a packet each
    Tries,   \* SYNCHRONIZE_CACHE_RETRIES
    TagMax   \* largest tag; 2^32 - 1 in the code
ASSUME BotAssumption ==
    Blocks \in Nat \ {0} /\ Tries \in Nat \ {0} /\ TagMax \in Nat \ {0, 1}

VARIABLES
    \* UsbVentoy
    open,         \* a connection is open
    nextTag,
    unsupported,  \* synchronizeCacheUnsupported
    \* the method that runs
    job,          \* [op, more: commands to follow, try]; op none: no method runs
    stage,        \* of its command: send, out, in, csw
    command,      \* its command [op, tag, key: the sense read]
    toMove,       \* packets (out) or bytes (in, csw) of the stage still to move
    buffer,       \* calls whose data are in its buffer
    \* the drive
    flushes,      \* SYNCHRONIZE CACHE: "yes", "never" (ILLEGAL REQUEST), "fails"
    phase,        \* command, out, work, reply, stalled
    serving,      \* the command block it works on
    owed,         \* packets of the data stage it waits for
    inbox,        \* packet it has not read yet
    reply,        \* packets it has to send
    senseData     \* what REQUEST SENSE returns

hostVars == <<open, nextTag, unsupported, job, stage, command, toMove, buffer>>
driveVars == <<flushes, phase, serving, owed, inbox, reply, senseData>>
botVars == <<callVars, hostVars, driveVars>>

-----------------------------------------------------------------------------
(* Packets                                                                 *)

Ops == {"capacity", "ready", "write", "read", "sync", "sense"}
Reports == {"capacity", "read", "sense"}  \* commands with data to the host

\* Of the call that sent or asked for it; "status" of sense data is the key.
Frame(kind, op, tag, status, of) ==
    [kind |-> kind, op |-> op, tag |-> tag, status |-> status, of |-> of]
Cbw(c) == Frame("cbw", c.op, c.tag, 0, call)
Data(p) == Frame("data", p.op, 0, IF p.op = "sense" THEN senseData ELSE 0, p.of)
Csw(p, status) == Frame("csw", p.op, p.tag, status, p.of)

CSW_LENGTH == 13
\* Bytes of the data stage packets the drive sends.
Bytes == [op \in Reports |-> CASE op = "capacity" -> 8
                               [] op = "sense" -> 18
                               [] op = "read" -> 512]
Size(p) == IF p.kind = "csw" THEN CSW_LENGTH ELSE Bytes[p.op]
DataLength(op) == IF op = "read" THEN Blocks * Bytes[op] ELSE Bytes[op]

NoSenseKey == 0
SENSE_KEY_ILLEGAL_REQUEST == 5
OtherSense == 6  \* every other key: synchronizeCache retries after each

-----------------------------------------------------------------------------
(* The drive (external)                                                    *)

NoPacket == Frame("none", "none", 0, 0, 0)

\* A command is carried out (status 0), or not (1: check condition with a
\* sense key, 2: phase error).
Finish(data, status, key) ==
    /\ phase' = "reply" /\ reply' = data \o <<Csw(serving, status)>>
    /\ senseData' = key
    /\ acted' = IF status = 0 /\ serving.op # "sense"
                       /\ acted[serving.of] < needs[serving.of]
                THEN [acted EXCEPT ![serving.of] = @ + 1] ELSE acted

Work ==
    /\ phase = "work" /\ UNCHANGED <<flushes, serving, owed, inbox>>
    /\ LET op == serving.op
           data == [i \in 1..(IF op = "read" THEN Blocks ELSE 1) |-> Data(serving)] IN
       \/ op \in Reports /\ Finish(data, 0, NoSenseKey)
       \/ op \in {"write", "ready"} /\ Finish(<<>>, 0, NoSenseKey)
       \/ op = "sync" /\ flushes = "yes" /\ Finish(<<>>, 0, NoSenseKey)
       \/ op = "sync" /\ flushes = "never" /\ Finish(<<>>, 1, SENSE_KEY_ILLEGAL_REQUEST)
       \/ op # "sense" /\ (op = "sync" => flushes # "never") /\ Finish(<<>>, 1, OtherSense)
       \/ Finish(<<>>, 2, OtherSense)

\* The next packet: a command block; data; or neither, for which the drive
\* stalls its endpoints until Reset Recovery.  A command block where data was
\* due is a short packet that ends the data stage.
Take ==
    /\ inbox # NoPacket /\ inbox' = NoPacket /\ UNCHANGED <<flushes, acted>>
    /\ \/ /\ phase = "command" /\ inbox.kind = "cbw" /\ serving' = inbox
          /\ phase' = IF inbox.op = "write" THEN "out" ELSE "work"
          /\ owed' = IF inbox.op = "write" THEN Blocks ELSE 0
          /\ UNCHANGED <<reply, senseData>>
       \/ /\ phase = "out" /\ inbox.kind = "data" /\ owed' = owed - 1
          /\ phase' = IF owed = 1 THEN "work" ELSE "out"
          /\ UNCHANGED <<serving, reply, senseData>>
       \/ /\ phase = "out" /\ inbox.kind = "cbw" /\ owed' = 0
          /\ phase' = "reply" /\ reply' = <<Csw(serving, 1)>> /\ senseData' = OtherSense
          /\ UNCHANGED serving
       \/ /\ \/ phase = "command" /\ inbox.kind = "data"
             \/ phase = "out" /\ inbox.kind = "cbw"
          /\ phase' = "stalled" /\ owed' = 0 /\ UNCHANGED <<serving, reply, senseData>>

Drive == (Work \/ Take) /\ UNCHANGED <<call, needs, answers, hostVars>>

\* The host takes the first packet of the reply.
Sent ==
    /\ phase = "reply" /\ reply' = Tail(reply)
    /\ phase' = IF reply' = <<>> THEN "command" ELSE "reply"
    /\ UNCHANGED <<flushes, serving, owed, inbox, senseData>>

Fresh ==
    /\ phase' = "command" /\ serving' = NoPacket /\ owed' = 0
    /\ inbox' = NoPacket /\ reply' = <<>> /\ senseData' = NoSenseKey

\* The user plugs in another drive, or the same one again.
Swap ==
    /\ job.op = "none" /\ ~open /\ Fresh
    /\ flushes' \in {"yes", "never", "fails"}
    /\ UNCHANGED <<callVars, hostVars>>

-----------------------------------------------------------------------------
(* Ends of a method                                                        *)

Idle == [op |-> "none", more |-> 0, try |-> 0]

Return(r) ==
    /\ answers' = [answers EXCEPT ![call] = r] /\ job' = Idle /\ stage' = "none"
    /\ toMove' = 0 /\ UNCHANGED <<nextTag, command, buffer>>

Keep == UNCHANGED <<open, unsupported>>

\* Mutant: after another drive is opened SYNCHRONIZE CACHE is still skipped.
Shut_KeepsFlag(opened) == open' = opened /\ UNCHANGED unsupported

\* close(), and what open() then puts in place.
Shut(opened) == open' = opened /\ unsupported' = FALSE

\* Mutant: zero is not skipped.
AllocateTag_WithZero == nextTag' = (nextTag + 1) % (TagMax + 1)

\* Mutant: the tag stays the same.
AllocateTag_Same == nextTag' = nextTag

\* allocateTag(): 0 is skipped.
AllocateTag == nextTag' = IF nextTag = TagMax THEN 1 ELSE nextTag + 1

\* The next command.
Command(op) ==
    /\ command' = [op |-> op, tag |-> nextTag, key |-> NoSenseKey] /\ AllocateTag
    /\ stage' = "send" /\ toMove' = 1

\* A failed SYNCHRONIZE CACHE whose sense is not ILLEGAL REQUEST, or unknown.
Retry ==
    /\ Keep
    /\ \/ /\ job.try < Tries /\ job' = [job EXCEPT !.try = @ + 1]
          /\ Command("sync") /\ UNCHANGED <<answers, buffer>>
       \/ job.try = Tries /\ Return("false")

\* A stage failed.  A failed READ CAPACITY of open() closes the connection; a
\* failed REQUEST SENSE only leaves the reason unknown.
Fail ==
    \/ command.op = "capacity" /\ Shut(FALSE) /\ Return("false")
    \/ command.op = "sense" /\ Retry
    \/ command.op \notin {"capacity", "sense"} /\ Keep /\ Return("false")

-----------------------------------------------------------------------------
(* Calls                                                                   *)

Start(op, n) ==
    /\ Asked(IF op = "sync" /\ flushes = "never" THEN 0 ELSE n)
    /\ job' = [op |-> op, more |-> n - 1, try |-> 1] /\ Command(op) /\ buffer' = {}
    /\ UNCHANGED <<acted, answers, driveVars>>

\* open(): close(), claim, and READ CAPACITY on the object that was used before
\* or on a new one.  The answer may be that of an earlier READ CAPACITY with the
\* same tag, so the call needs no command of its own to be carried out.
Open ==
    /\ job.op = "none"
    /\ Asked(0)
    /\ \/ Command("capacity")
       \/ /\ ~open /\ nextTag' = 2
          /\ command' = [op |-> "capacity", tag |-> 1, key |-> NoSenseKey]
          /\ stage' = "send" /\ toMove' = 1
    /\ job' = [op |-> "capacity", more |-> 0, try |-> 1]
    /\ buffer' = {} /\ Shut(TRUE)
    /\ UNCHANGED <<acted, answers, driveVars>>

Close ==
    /\ job.op = "none" /\ open /\ Shut(FALSE)
    /\ UNCHANGED <<callVars, nextTag, job, stage, command, toMove, buffer, driveVars>>

\* writeData and readData send as many commands as the data needs; writeBlocks,
\* readBlocks and testUnitReady send one.
TransferBlocks ==
    /\ job.op = "none" /\ open /\ Keep
    /\ \E op \in {"write", "read", "ready"}, n \in 1..MaxCommands :
          (op = "ready" => n = 1) /\ Start(op, n)

SynchronizeCache == job.op = "none" /\ open /\ ~unsupported /\ Keep /\ Start("sync", 1)

\* ... which is a no-op once the drive has refused it.
SkipSync ==
    /\ job.op = "none" /\ open /\ unsupported
    /\ Asked(IF flushes = "never" THEN 0 ELSE 1)
    /\ answers' = [answers EXCEPT ![call + 1] = "true"] /\ buffer' = {} /\ Keep
    /\ UNCHANGED <<acted, nextTag, job, stage, command, toMove, driveVars>>

\* A call on a closed connection, or an open() refused before READ CAPACITY.
Refuse ==
    /\ job.op = "none" /\ Asked(1) /\ Shut(FALSE)
    /\ answers' = [answers EXCEPT ![call + 1] = "false"]
    /\ buffer' = {} /\ UNCHANGED <<acted, nextTag, job, stage, command, toMove, driveVars>>

-----------------------------------------------------------------------------
(* Bulk transfers                                                          *)

Put(p) ==
    /\ inbox = NoPacket /\ phase # "stalled" /\ inbox' = p
    /\ UNCHANGED <<flushes, phase, serving, owed, reply, senseData>>

\* The command block goes out, and then the stage the command has.
SendCbw ==
    /\ stage = "send" /\ Put(Cbw(command))
    /\ \/ command.op = "write" /\ stage' = "out" /\ toMove' = Blocks
       \/ command.op \in Reports /\ stage' = "in" /\ toMove' = DataLength(command.op)
       \/ command.op \in {"sync", "ready"} /\ stage' = "csw" /\ toMove' = CSW_LENGTH
    /\ Keep /\ UNCHANGED <<callVars, nextTag, job, command, buffer>>

\* bulkOutAll for the data of a WRITE.
SendData ==
    /\ stage = "out" /\ Put(Frame("data", "write", 0, 0, call))
    /\ stage' = IF toMove = 1 THEN "csw" ELSE "out"
    /\ toMove' = IF toMove = 1 THEN CSW_LENGTH ELSE toMove - 1
    /\ Keep /\ UNCHANGED <<callVars, nextTag, job, command, buffer>>

\* bulkInAll: a packet that fits is part of what was asked for, whatever it is.
ReceiveData ==
    /\ stage = "in" /\ Sent /\ Size(reply[1]) <= toMove
    /\ stage' = IF toMove = Size(reply[1]) THEN "csw" ELSE "in"
    /\ toMove' = IF toMove = Size(reply[1]) THEN CSW_LENGTH ELSE toMove - Size(reply[1])
    /\ buffer' = buffer \cup {reply[1].of} /\ command' = [command EXCEPT !.key = reply[1].status]
    /\ Keep /\ UNCHANGED <<callVars, nextTag, job>>

\* Part of a status: the host goes on reading.
ReceivePart ==
    /\ stage = "csw" /\ Sent /\ Size(reply[1]) < toMove
    /\ toMove' = toMove - Size(reply[1])
    /\ Keep /\ UNCHANGED <<callVars, nextTag, job, stage, command, buffer>>

\* A packet longer than the room for it: the transfer fails and it is lost.
Babble ==
    /\ stage \in {"in", "csw"} /\ Sent /\ Size(reply[1]) > toMove /\ Fail
    /\ UNCHANGED <<call, needs, acted>>

\* Mutant: bulkTransfer() waits for ever for a drive that does not answer.
Expire_Never ==
    /\ job.op # "none" /\ (stage \in {"in", "csw"} => phase = "reply") /\ Fail
    /\ UNCHANGED <<call, needs, acted, driveVars>>

\* Five seconds pass, or the endpoint is halted.
Expire == job.op # "none" /\ Fail /\ UNCHANGED <<call, needs, acted, driveVars>>

\* Mutant: any well-formed status will do.
TagMatches_Never(p) == p.kind = "csw"

\* readCswResult: the status must be the one of this command.
TagMatches(p) == p.tag = command.tag

\* A command that succeeded: the next one of its call, or the call's end.  A
\* drive whose capacity cannot be used is closed.
Succeed ==
    \/ /\ command.op \in {"write", "read"} /\ job.more > 0 /\ Command(command.op)
       /\ job' = [job EXCEPT !.more = @ - 1] /\ Keep /\ UNCHANGED <<answers, buffer>>
    \/ command.op \in {"write", "read", "ready", "sync", "capacity"} /\ job.more = 0
         /\ Keep /\ Return("true")
    \/ command.op = "capacity" /\ Shut(FALSE) /\ Return("false")
    \/ /\ command.op = "sense" /\ command.key = SENSE_KEY_ILLEGAL_REQUEST /\ unsupported' = TRUE
       /\ Return("true") /\ UNCHANGED open
    \/ command.op = "sense" /\ command.key # SENSE_KEY_ILLEGAL_REQUEST /\ Retry

\* The status is there: 13 bytes are always a CSW.
ReceiveStatus ==
    /\ stage = "csw" /\ Sent /\ Size(reply[1]) = toMove
    /\ LET ours == TagMatches(reply[1])
           status == reply[1].status IN
       \/ ours /\ status = 0 /\ Succeed
       \/ ours /\ status = 1 /\ command.op = "sync" /\ Command("sense") /\ Keep
            /\ UNCHANGED <<answers, job, buffer>>
       \/ ~(ours /\ status = 0) /\ ~(ours /\ command.op = "sync") /\ Fail
    /\ UNCHANGED <<call, needs, acted>>

\* A phase error of SYNCHRONIZE CACHE: bulkOnlyReset(), which may fail.
ReceivePhaseError ==
    /\ stage = "csw" /\ phase = "reply" /\ Size(reply[1]) = toMove
    /\ TagMatches(reply[1]) /\ reply[1].status = 2 /\ command.op = "sync"
    /\ (Fresh /\ UNCHANGED flushes) \/ Sent
    /\ Keep /\ Return("false") /\ UNCHANGED <<call, needs, acted>>

-----------------------------------------------------------------------------
(* Specification                                                           *)

\* The object may have sent many commands before.
BotInit ==
    /\ CallsInit
    /\ open = FALSE /\ nextTag \in {1, TagMax - 1} /\ unsupported = FALSE
    /\ job = Idle /\ stage = "none" /\ toMove = 0 /\ buffer = {}
    /\ command = [op |-> "none", tag |-> 0, key |-> NoSenseKey]
    /\ flushes \in {"yes", "never", "fails"}
    /\ phase = "command" /\ serving = NoPacket /\ owed = 0
    /\ inbox = NoPacket /\ reply = <<>> /\ senseData = NoSenseKey

Caller == Open \/ Close \/ TransferBlocks \/ SynchronizeCache \/ SkipSync \/ Refuse

Method ==
    \/ SendCbw \/ SendData
    \/ ReceiveData \/ ReceivePart \/ Babble
    \/ ReceiveStatus \/ ReceivePhaseError \/ Expire

BotNext == Caller \/ Method \/ Drive \/ Swap

BotSpec == BotInit /\ [][BotNext]_botVars

\* A method goes on, and bulkTransfer() returns after its timeout; the drive
\* owes nothing.
FairBotSpec == BotSpec /\ WF_botVars(Method)

-----------------------------------------------------------------------------
(* Properties                                                              *)

\* Every variable has its type; tags are never zero.
BotTypeOK ==
    /\ call \in 0..MaxCalls /\ needs \in [Calls -> 0..MaxCommands]
    /\ acted \in [Calls -> 0..MaxCommands] /\ answers \in [Calls -> Answers]
    /\ open \in BOOLEAN /\ nextTag \in 1..TagMax /\ unsupported \in BOOLEAN
    /\ job \in [op : Ops \cup {"none"}, more : 0..MaxCommands - 1, try : 0..Tries]
    /\ stage \in {"none", "send", "out", "in", "csw"} /\ command.op \in Ops \cup {"none"}
    /\ toMove \in 0..(Blocks * 512 + 18) /\ buffer \subseteq Calls
    /\ phase \in {"command", "out", "work", "reply", "stalled"} /\ owed \in 0..Blocks
    /\ Len(reply) <= Blocks + 1 /\ (phase = "reply" <=> reply # <<>>)

\* UsbVentoy keeps BlockCalls' promise: a call that answers true was carried
\* out in full by the drive, no command was carried out twice, and what a
\* failed call left behind takes effect before anything later does.
KeepsPromise == CallsSpec

\* readBlocks and readData hand out only data of their own call, never the late
\* data of an earlier one, also when a new object starts its tags over.
OwnData ==
    (job.op = "none" /\ command.op = "read" /\ answers[call] = "true") => buffer \subseteq {call}

\* synchronizeCacheUnsupported is set only while the connected drive is one that
\* refuses SYNCHRONIZE CACHE ("Set after REQUEST SENSE proves ...").
NoOpEarned == unsupported => flushes = "never"

\* Every method returns, whatever the drive does.
MethodReturns == []<>(job.op = "none")
=============================================================================
