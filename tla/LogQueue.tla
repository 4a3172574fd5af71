------------------------------ MODULE LogQueue ------------------------------
(***************************************************************************)
(* dnsmasq's log (log.c): messages are queued and written to the socket of *)
(* syslogd, or to a file, without ever waiting.  syslogd can itself ask    *)
(* dnsmasq for a name; a dnsmasq that waited for it would wait for ever.   *)
(*                                                                         *)
(* A message that finds no buffer is counted and the count is logged when  *)
(* a buffer comes free.  A forked TCP process inherits the queue and drops *)
(* what is not its own.  Every turn of log_write's loop is a step, so that *)
(* syslogd and the other process can act between two writes.               *)
(*                                                                         *)
(* my_syslog calls itself for the count; the inner call's writing is the   *)
(* outer loop's next turn here.  What a message says, its time and its     *)
(* priority are left out.                                                  *)
(***************************************************************************)
EXTENDS Integers, Sequences, FiniteSets, SequencesExt

CONSTANTS
    Modes,       \* what log_start can find: "file", "socket", "none" (Android)
    MaxLogs,     \* max_logs: buffers of the queue, 0 for no queue
    SockRoom,    \* messages the socket of syslogd holds
    MaxMessages, \* bound: messages logged
    MaxTrouble,  \* bound: errors of the socket or the file, ends of syslogd
    MaxAsks      \* bound: names syslogd asks for

Procs == {"main", "child"}
Kinds == {"dgram", "stream"}

VARIABLES
    logTo,        \* log_to_file and log_file
    st,          \* the static variables of log.c, in each process
    got,         \* what was written to the socket or the file, in order
    elsewhere,   \* messages given to syslog(3) or the Android log instead
    syslogd,     \* [up, kind, unread]: the daemon and its socket
    asking,      \* syslogd waits for dnsmasq's answer
    logged,      \* messages logged by each process
    trouble, asks

logVars == <<logTo, st, got, elsewhere, syslogd, asking, logged, trouble, asks>>
outside == <<syslogd, asking, trouble, asks>>

Buffers == IF logTo = "file" THEN 0 ELSE MaxLogs   \* log_start: no queue to a file

\* The states of log.c a process can be in: "off" has not been forked or has
\* ended, "idle" is anywhere else in dnsmasq, "first" and "second" are the two
\* calls of log_write in my_syslog, "flush" that of flush_log.
Alive(p) == st[p].pc # "off"
WritingPlaces == {"first", "second", "flush"}

Entry(p, id, count) == [by |-> p, id |-> id, count |-> count, half |-> FALSE]

---------------------------------------------------------------------------
(* my_syslog up to log_write *)

CanGet(s) == s.free > 0 \/ s.alloced < Buffers

Queued(s, e) ==
    IF s.free > 0
    THEN [s EXCEPT !.free = @ - 1, !.queue = Append(@, e)]
    ELSE IF s.alloced < Buffers
    THEN [s EXCEPT !.alloced = @ + 1, !.queue = Append(@, e)]
    ELSE [s EXCEPT !.lost = @ + 1]

More == logged["main"] + logged["child"] < MaxMessages

\* reply: the message belongs to the answer syslogd waits for.
MySyslog(p, reply) ==
    /\ st[p].pc = "idle"
    /\ More
    /\ logged' = [logged EXCEPT ![p] = @ + 1]
    /\ IF st[p].fd = "shut"
       THEN /\ elsewhere' = elsewhere \cup {<<p, logged[p] + 1>>}
            /\ st' = st
            /\ asking' = (asking /\ ~reply)
       ELSE /\ st' = [st EXCEPT ![p] =
                         [Queued(@, Entry(p, logged[p] + 1, 0)) EXCEPT
                             !.pc = "first", !.reply = reply]]
            /\ UNCHANGED <<elsewhere, asking>>
    /\ UNCHANGED <<logTo, got, syslogd, trouble, asks>>

Log(p) == MySyslog(p, FALSE)

\* A query of syslogd's comes in: it is logged, then answered.
Answer == /\ asking /\ MySyslog("main", TRUE)

\* With the messages used up the answer comes without one.
AnswerQuietly ==
    /\ asking /\ st["main"].pc = "idle" /\ ~More
    /\ asking' = FALSE
    /\ UNCHANGED <<logTo, st, got, elsewhere, syslogd, logged, trouble, asks>>

---------------------------------------------------------------------------
(* log_write: one turn of its loop *)

FreeEntry(s) == [s EXCEPT !.queue = Tail(@), !.free = @ + 1]

\* Mutant: the count is logged and not taken back.
Overflow_Keeps(p, s) ==
    IF s.lost = 0 THEN s ELSE Queued(s, Entry(p, 0, s.lost))

\* Something has been written and a buffer is free: the loss is logged.
Overflow(p, s) ==
    IF s.lost = 0 THEN s
    ELSE Queued([s EXCEPT !.lost = 0], Entry(p, 0, s.lost))

\* The delay of my_syslog: with a queue that is neither empty nor full there
\* is a pause and a second go.
Pauses(s) ==
    LET d == Len(s.queue)
    IN  Buffers # 0 /\ d # Buffers /\ d > (IF Buffers > 8 THEN Buffers - 8 ELSE 0)

\* Mutant: the end of dnsmasq waits until the queue is empty.
Back_Patient(p, s) ==
    CASE s.pc = "first" /\ s.fd = "open" /\ Pauses(s) ->
            /\ st' = [st EXCEPT ![p] = [s EXCEPT !.pc = "second"]]
            /\ asking' = asking
      [] s.pc = "flush" ->
            /\ st' = [st EXCEPT ![p] =
                         IF s.queue = <<>> \/ s.fd = "shut"
                         THEN [s EXCEPT !.fd = "shut", !.pc = "off"] ELSE s]
            /\ asking' = asking
      [] OTHER ->
            /\ st' = [st EXCEPT ![p] = [s EXCEPT !.pc = "idle", !.reply = FALSE]]
            /\ asking' = (asking /\ ~s.reply)

\* log_write returns, with the process's variables as s.
Back(p, s) ==
    LET last == [s EXCEPT !.pc = "idle", !.reply = FALSE] IN
    CASE s.pc = "first" /\ s.fd = "open" /\ Pauses(s) ->
            /\ st' = [st EXCEPT ![p] = [s EXCEPT !.pc = "second"]]
            /\ asking' = asking
      [] s.pc = "flush" ->
            /\ st' = [st EXCEPT ![p] =
                         IF s.queue = <<>> \/ ~s.good \/ s.fd = "shut"
                         THEN [s EXCEPT !.fd = "shut", !.pc = "off"] ELSE s]
            /\ asking' = asking
      [] OTHER ->
            /\ st' = [st EXCEPT ![p] = last]
            /\ asking' = (asking /\ ~s.reply)

Turn(p) == /\ st[p].pc \in WritingPlaces
           /\ UNCHANGED <<logTo, logged, asks>>

WritesNothing(p) ==
    /\ Turn(p)
    /\ st[p].queue = <<>>
    /\ Back(p, st[p])
    /\ UNCHANGED <<got, elsewhere, syslogd, trouble>>

\* Inherited over a fork.
DropsForeign(p) ==
    /\ Turn(p)
    /\ st[p].queue # <<>>
    /\ Head(st[p].queue).by # p
    /\ st' = [st EXCEPT ![p] = FreeEntry(@)]
    /\ UNCHANGED <<got, elsewhere, outside>>

\* Mutant: what was inherited is written too.
Own_Any(p) == Turn(p) /\ st[p].queue # <<>>

Own(p) == /\ Turn(p)
          /\ st[p].queue # <<>>
          /\ Head(st[p].queue).by = p

Good(p) == [st[p] EXCEPT !.good = TRUE]
Reaches(p) == syslogd.up /\ st[p].conn
Full == syslogd.unread >= SockRoom

Written(e, part) == [by |-> e.by, id |-> e.id, count |-> e.count, part |-> part]

\* The whole message, or what was left of it.
Writes(p) ==
    LET e == Head(st[p].queue) IN
    /\ Own(p)
    /\ logTo = "socket" => Reaches(p) /\ ~Full
    /\ got' = Append(got, Written(e, IF e.half THEN "last" ELSE "whole"))
    /\ st' = [st EXCEPT ![p] = Overflow(p, FreeEntry(Good(p)))]
    /\ syslogd' = IF logTo = "file" THEN syslogd
                  ELSE [syslogd EXCEPT !.unread = @ + 1]
    /\ UNCHANGED <<elsewhere, asking, trouble>>

\* A stream takes part of a message; the rest waits (EAGAIN).
WritesHalf(p) ==
    LET e == Head(st[p].queue) IN
    /\ Own(p)
    /\ logTo = "socket" /\ Reaches(p) /\ ~Full
    /\ st[p].kind = "stream" /\ ~e.half
    /\ trouble < MaxTrouble /\ trouble' = trouble + 1
    /\ got' = Append(got, Written(e, "first"))
    /\ Back(p, [Good(p) EXCEPT !.queue[1].half = TRUE])
    /\ UNCHANGED <<elsewhere, syslogd>>

\* Mutant: the socket was left blocking.
WouldBlock_Waits(p) ==
    /\ Own(p)
    /\ logTo = "socket" /\ Reaches(p) /\ Full
    /\ UNCHANGED <<st, asking, got, elsewhere, syslogd, trouble>>

\* EAGAIN: syslogd is busy, poll will say when to go on.
WouldBlock(p) ==
    /\ Own(p)
    /\ logTo = "socket" /\ Reaches(p) /\ Full
    /\ Back(p, Good(p))
    /\ UNCHANGED <<got, elsewhere, syslogd, trouble>>

\* ENOBUFS
NoBuffers(p) ==
    /\ Own(p)
    /\ logTo = "socket" /\ Reaches(p)
    /\ trouble < MaxTrouble /\ trouble' = trouble + 1
    /\ Back(p, [st[p] EXCEPT !.good = FALSE])
    /\ UNCHANGED <<got, elsewhere, syslogd>>

\* Nobody is connected: a stream socket is opened again first (EPIPE), then
\* connect is tried; syslogd is there, is not, or listens on the other kind of
\* socket.
Connects(p) ==
    /\ Own(p)
    /\ logTo = "socket" /\ ~Reaches(p)
    /\ CASE ~syslogd.up ->
                Back(p, [st[p] EXCEPT !.good = FALSE, !.conn = FALSE])
         [] syslogd.up /\ syslogd.kind = st[p].kind ->
                /\ st' = [st EXCEPT ![p].conn = TRUE, ![p].good = TRUE]
                /\ UNCHANGED asking
         [] OTHER ->
                /\ st' = [st EXCEPT ![p].kind = syslogd.kind, ![p].conn = FALSE,
                                    ![p].good = TRUE]
                /\ UNCHANGED asking
    /\ UNCHANGED <<got, elsewhere, syslogd, trouble>>

\* Any other error, a full disk say: from now on messages go elsewhere and the
\* queue stays as it is.
GivesUpSocket(p) ==
    /\ Own(p)
    /\ trouble < MaxTrouble /\ trouble' = trouble + 1
    /\ Back(p, [Good(p) EXCEPT !.fd = "shut"])
    /\ UNCHANGED <<got, elsewhere, syslogd>>

LogWrite(p) == \/ WritesNothing(p) \/ DropsForeign(p) \/ Writes(p)
               \/ WritesHalf(p) \/ WouldBlock(p) \/ NoBuffers(p)
               \/ Connects(p) \/ GivesUpSocket(p)

---------------------------------------------------------------------------
(* The rest of dnsmasq *)

\* set_log_writer and check_log_writer: poll found the socket writable; the
\* child does not poll, it just tries.
CheckLogWriter(p) ==
    /\ st[p].pc = "idle" /\ st[p].fd = "open"
    /\ p = "main" => /\ st[p].queue # <<>> /\ st[p].good
                     /\ logTo = "socket" => ~ (Reaches(p) /\ Full)
    /\ p = "child" => st[p].queue # <<>>
    /\ st' = [st EXCEPT ![p].pc = "second"]
    /\ UNCHANGED <<logTo, got, elsewhere, outside, logged>>

\* SIGUSR2: the log file is closed and opened again.
LogReopen ==
    /\ logTo = "file" /\ st["main"].pc = "idle"
    /\ trouble < MaxTrouble /\ trouble' = trouble + 1
    /\ \E fd \in {"open", "shut"} : st' = [st EXCEPT !["main"].fd = fd]
    /\ UNCHANGED <<logTo, got, elsewhere, syslogd, asking, logged, asks>>

\* A TCP process is forked with all of the parent's variables.
Fork ==
    /\ st["main"].pc = "idle" /\ st["child"].pc = "off" /\ ~st["child"].used
    /\ st' = [st EXCEPT !["child"] = [st["main"] EXCEPT !.used = TRUE]]
    /\ UNCHANGED <<logTo, got, elsewhere, outside, logged>>

\* flush_log before the end of either process.
Flush(p) ==
    /\ st[p].pc = "idle"
    /\ st' = [st EXCEPT ![p].pc = IF st[p].fd = "shut" THEN "off" ELSE "flush"]
    /\ UNCHANGED <<logTo, got, elsewhere, outside, logged>>

\* The alarm of the TCP process.
MainKilled ==
    /\ Alive("child")
    /\ st' = [st EXCEPT !["child"].pc = "off"]
    /\ UNCHANGED <<logTo, got, elsewhere, outside, logged>>

---------------------------------------------------------------------------
(* syslogd *)

Serves == st["main"].pc \notin {"flush", "off"}

Reads ==
    /\ syslogd.up /\ syslogd.unread > 0 /\ ~asking
    /\ syslogd' = [syslogd EXCEPT !.unread = @ - 1]
    /\ \/ asking' = FALSE /\ asks' = asks
       \/ /\ asks < MaxAsks /\ Serves
          /\ asking' = TRUE /\ asks' = asks + 1
    /\ UNCHANGED <<logTo, st, got, elsewhere, logged, trouble>>

\* The resolver of syslogd waits no longer for a dnsmasq that ends.
AskTimesOut ==
    /\ asking /\ ~Serves
    /\ asking' = FALSE
    /\ UNCHANGED <<logTo, st, got, elsewhere, syslogd, logged, trouble, asks>>

\* It ends, and may be back with the other kind of socket; connections to the
\* one that ended are gone.
Stops ==
    /\ syslogd.up /\ ~asking
    /\ trouble < MaxTrouble /\ trouble' = trouble + 1
    /\ syslogd' = [syslogd EXCEPT !.up = FALSE, !.unread = 0]
    /\ st' = [p \in Procs |-> [st[p] EXCEPT !.conn = FALSE]]
    /\ UNCHANGED <<logTo, got, elsewhere, asking, logged, asks>>

Starts ==
    /\ ~syslogd.up
    /\ \E k \in Kinds : syslogd' = [up |-> TRUE, kind |-> k, unread |-> 0]
    /\ UNCHANGED <<logTo, st, got, elsewhere, asking, logged, trouble, asks>>

---------------------------------------------------------------------------
\* log_start: without a queue the one buffer is allocated now.
LogStart ==
    [pc |-> "idle", fd |-> IF logTo = "none" THEN "shut" ELSE "open",
     conn |-> FALSE, kind |-> "dgram", good |-> TRUE, queue |-> <<>>,
     free |-> IF Buffers = 0 THEN 1 ELSE 0,
     alloced |-> IF Buffers = 0 THEN 1 ELSE 0,
     lost |-> 0, reply |-> FALSE, used |-> FALSE]

LogInit ==
    /\ logTo \in Modes
    /\ st = [p \in Procs |-> IF p = "main" THEN LogStart
                             ELSE [LogStart EXCEPT !.pc = "off"]]
    /\ got = <<>> /\ elsewhere = {}
    /\ syslogd \in [up : BOOLEAN, kind : Kinds, unread : {0}]
    /\ asking = FALSE
    /\ logged = [p \in Procs |-> 0] /\ trouble = 0 /\ asks = 0

LogNext ==
    \/ \E p \in Procs : Log(p) \/ LogWrite(p) \/ CheckLogWriter(p) \/ Flush(p)
    \/ Answer \/ AnswerQuietly
    \/ LogReopen \/ Fork \/ MainKilled
    \/ Reads \/ AskTimesOut \/ Stops \/ Starts

LogSpec == LogInit /\ [][LogNext]_logVars

\* dnsmasq gets on with what it does and comes to syslogd's question in turn;
\* syslogd reads what it has and does not wait for a server that has gone.
FairLogSpec == /\ LogSpec
            /\ WF_logVars(Reads) /\ WF_logVars(AskTimesOut)
            /\ WF_logVars(LogWrite("main"))
            /\ SF_logVars(Answer \/ AnswerQuietly)

---------------------------------------------------------------------------
(* Properties *)

LogTypeOK ==
    /\ logTo \in Modes
    /\ \A p \in Procs :
          /\ st[p].pc \in WritingPlaces \cup {"off", "idle"}
          /\ Len(st[p].queue) + st[p].free = st[p].alloced
          /\ st[p].alloced <= (IF Buffers = 0 THEN 1 ELSE Buffers)
    /\ elsewhere \subseteq Procs \X (1..MaxMessages)

\* What has been written to its end, and the messages in it, as against counts.
Whole(p) == {i \in DOMAIN got : got[i].by = p /\ got[i].part # "first"}
Ends(p)  == {i \in Whole(p) : got[i].id # 0}

\* Nothing is written twice, by either side of a fork, and what a process
\* writes is in the order it was logged.
OnceInOrder ==
    \A p \in Procs : \A i, j \in Ends(p) : i < j => got[i].id < got[j].id

\* An entry stands for its message or, if it is a count, for as many as it says;
\* the entries S of s stand for one message for each pair in this set.
Worth(e) == IF e.id = 0 THEN e.count ELSE 1
StandFor(s, S) == UNION {{i} \X (1 .. Worth(s[i])) : i \in S}

\* The messages of the main process are written, waiting, given elsewhere or
\* counted, and every count is logged exactly once (log.c: "they will be
\* dropped, and the drop event itself logged").
Accounted ==
    LET waiting == st["main"].queue
    IN  logged["main"] = Cardinality({x \in elsewhere : x[1] = "main"})
            + Cardinality(StandFor(waiting, DOMAIN waiting)) + st["main"].lost
            + Cardinality(StandFor(got, Whole("main")))

\* syslogd always gets the answer it waits for, though dnsmasq has messages
\* for it that it does not read meanwhile (log.c, "the two daemons can
\* deadlock").
Answered == []<>(~asking \/ ~Serves)

\* dnsmasq's end does not hang in its log (log.c: "don't loop forever if
\* there's no connection to the syslog in existence").
Exits == st["main"].pc = "flush" ~> st["main"].pc = "off"

\* No message is lost without a word, written twice or out of its turn.
LogRight == OnceInOrder /\ Accounted
============================================================================
