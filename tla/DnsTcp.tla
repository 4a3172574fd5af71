------------------------------- MODULE DnsTcp -------------------------------
(***************************************************************************)
(* DNS over TCP in dnsmasq: the server forks a process for a connection    *)
(* when there is a free slot (dnsmasq.c), the process answers one question *)
(* after the other, itself or from the servers it keeps connections to     *)
(* (tcp_request, tcp_talk in forward.c), and sends what it learns through  *)
(* a pipe to the cache of its parent.  A slot is free again when the       *)
(* process has been waited for and the pipe read to its end, in either     *)
(* order.  Processes end by themselves, by the alarm that limits their     *)
(* life, or by accident.                                                   *)
(*                                                                         *)
(* A process is named by its connection.  Which servers a question goes to *)
(* is a constant (see DomainMatch), the cache says none, stale or fresh    *)
(* (see DnsCache).                                                         *)
(***************************************************************************)
EXTENDS Integers, FiniteSets, SequencesExt, FiniteSetsExt

CONSTANTS Clients,        \* connections
          Asks,           \* the questions of each, one after the other
          Questions,
          Servers,        \* sequence, as in serverarray
          Conduct,        \* what each server may do with a question
          Cacheable,      \* questions whose answer is kept
          Slots,          \* max_procs
          MaxQueries,     \* TCP_MAX_QUERIES
          Strict,         \* OPT_ORDER
          MaxMishaps      \* bound on crashes, failed forks, expiries and stray replies

Nobody == "none"
Mishaps == {"twice"}

Replies == {"cached", "stale", "failed", Nobody}      \* no reply of a server

\* At least one server, as forward_query and tcp_request are not asked otherwise.
ASSUME DnsTcpAssumption ==
    /\ Slots \in Nat \ {0} /\ MaxQueries \in Nat /\ MaxMishaps \in Nat
    /\ IsFiniteSet(Clients) /\ Nobody \notin Clients
    /\ Questions # {} /\ Cacheable \subseteq Questions /\ Questions \cap Replies = {}
    /\ Asks \in [Clients -> Seq(Questions)]
    /\ Len(Servers) \in Nat \ {0} /\ DOMAIN Servers = 1 .. Len(Servers)
    /\ Conduct \in [DOMAIN Servers -> SUBSET {"answer", "twice", "close", "silent", "down"}]

VARIABLES queue,      \* connections not accepted yet
          pids, pipes, metric,    \* tcp_pids, tcp_pipes, METRIC_TCP_CONNECTIONS
          busy,       \* the process the parent waits for, to start or to write on
          cache,      \* of the parent
          event,      \* SIGCHLD has come
          up,         \* the server runs
          child,      \* state of each process
          wire,       \* what is in its pipe
          answers,    \* what each client has been told
          gone,       \* clients that have closed
          learned, taken,   \* answers each process has sent up, and the parent has
          mishaps

vars == <<queue, pids, pipes, metric, busy, cache, event, up, child, wire, answers, gone,
          learned, taken, mishaps>>

NoLink == [open |-> FALSE, got |-> FALSE, unread |-> <<>>]
NoChild == [at |-> "none", how |-> "exit", cache |-> [q \in Questions |-> "none"], count |-> 0,
            q |-> CHOOSE q \in Questions : TRUE, start |-> 1, first |-> 1, last |-> 0,
            stale |-> FALSE, reply |-> Nobody,
            link |-> [s \in DOMAIN Servers |-> NoLink]]

Live(c) == child[c].at \notin {"none", "zombie", "waited"}
SlotRange == 1 .. Slots
InUse(i) == pids[i] # Nobody \/ pipes[i] # Nobody
Trouble == mishaps < MaxMishaps /\ mishaps' = mishaps + 1
SpendOnly(n) == mishaps + n <= MaxMishaps /\ mishaps' = mishaps + n

-----------------------------------------------------------------------------
(* The parent.  One event a turn of its loop; it stands still while it      *)
(* waits for a process to start, or in the middle of what one writes.       *)

Idle == up /\ busy = Nobody

\* Mutant: a slot counts as free once its process has gone.
FreeSlots_NoPid == {i \in SlotRange : pids[i] = Nobody}
FreeSlots == {i \in SlotRange : ~InUse(i)}

Accept ==
    LET c == Head(queue)
        i == Max(FreeSlots)
    IN /\ Idle /\ queue # <<>> /\ FreeSlots # {}
       /\ queue' = Tail(queue)
       /\ \/ /\ pids' = [pids EXCEPT ![i] = c] /\ pipes' = [pipes EXCEPT ![i] = c]
             /\ metric' = metric + 1
             /\ busy' = c
             /\ child' = [child EXCEPT ![c].at = "starting", ![c].cache = cache]
             /\ UNCHANGED <<gone, mishaps>>
          \/ \* no pipe, no process: the connection is closed
             /\ Trouble
             /\ gone' = gone \cup {c}
             /\ UNCHANGED <<pids, pipes, metric, busy, child>>
       /\ UNCHANGED <<cache, event, up, wire, answers, learned, taken>>

Ended(c) == ~Live(c) /\ wire[c] = <<>>

\* The pipe of slot i is at its end.
ClosePipe(i) ==
    /\ pipes' = [pipes EXCEPT ![i] = Nobody]
    /\ metric' = IF pids[i] = Nobody THEN metric - 1 ELSE metric

\* cache_recv_insert: the parent takes the next answer, waits for the rest of
\* it, and finds the end of the pipe.
ReadPipe(i) ==
    LET c == pipes[i]
    IN /\ up /\ c # Nobody /\ busy \in {Nobody, c} /\ child[c].at # "starting"
       /\ \/ /\ busy = Nobody /\ wire[c] # <<>>
             /\ busy' = c
             /\ wire' = [wire EXCEPT ![c] = Tail(@)]
             /\ UNCHANGED <<cache, taken, pipes, metric>>
          \/ /\ busy = c /\ wire[c] # <<>>
             /\ busy' = Nobody
             /\ wire' = [wire EXCEPT ![c] = Tail(@)]
             /\ cache' = [cache EXCEPT ![Head(wire[c])] = "fresh"]
             /\ taken' = [taken EXCEPT ![c] = Append(@, Head(wire[c]))]
             /\ UNCHANGED <<pipes, metric>>
          \/ /\ Ended(c)
             /\ busy' = Nobody
             /\ ClosePipe(i)
             /\ UNCHANGED <<wire, cache, taken>>
       /\ UNCHANGED <<queue, pids, event, up, child, answers, gone, learned, mishaps>>

\* Mutant: the pipe is closed with what is in it.
Lost_All(i) == pipes[i] # Nobody
\* Only when the process died of itself.
Lost(i) == pipes[i] # Nobody /\ child[pids[i]].how = "killed"

\* EVENT_CHILD: all that have ended are waited for.
Reap ==
    LET done == {i \in SlotRange : pids[i] # Nobody /\ child[pids[i]].at = "zombie"}
        shut == {i \in done : Lost(i)}
    IN /\ Idle /\ event
       /\ event' = FALSE
       /\ pids' = [i \in SlotRange |-> IF i \in done THEN Nobody ELSE pids[i]]
       /\ pipes' = [i \in SlotRange |-> IF i \in shut THEN Nobody ELSE pipes[i]]
       /\ metric' = metric - Cardinality({i \in done : pipes'[i] = Nobody})
       /\ child' = [c \in Clients |-> IF child[c].at = "zombie" THEN [child[c] EXCEPT !.at = "waited"]
                                      ELSE child[c]]
       /\ UNCHANGED <<queue, busy, cache, up, wire, answers, gone, learned, taken, mishaps>>

\* EVENT_TERM: the processes that are known are told to end.
Term ==
    LET told == {pids[i] : i \in SlotRange} \ {Nobody}
    IN /\ Idle
       /\ up' = FALSE
       /\ child' = [c \in Clients |-> IF c \in told /\ Live(c) THEN [child[c] EXCEPT !.at = "waited"]
                                      ELSE child[c]]
       /\ UNCHANGED <<queue, pids, pipes, metric, busy, cache, event, wire, answers, gone,
                      learned, taken, mishaps>>

-----------------------------------------------------------------------------
(* A process.                                                               *)

Goes(c, rec) == child' = [child EXCEPT ![c] = rec]
Quiet == UNCHANGED <<queue, pids, pipes, metric, cache, up, taken>>
Tell(c, what) == answers' = [answers EXCEPT ![c] = Append(@, [q |-> child[c].q, what |-> what])]

\* The netlink socket is closed, and the parent told so.
Begin(c) ==
    /\ child[c].at = "starting"
    /\ Goes(c, [child[c] EXCEPT !.at = "reading"])
    /\ busy' = Nobody
    /\ Quiet /\ UNCHANGED <<event, wire, answers, gone, learned, mishaps>>

Exit(c, how) ==
    /\ Goes(c, [child[c] EXCEPT !.at = "zombie", !.how = how])
    /\ event' = TRUE
    /\ gone' = gone \cup {c}
    /\ busy' = IF child[c].at = "starting" THEN Nobody ELSE busy

\* Where to start among the servers.
StartAt(r) == IF Strict \/ r.last = 0 THEN 1 ELSE r.last

\* tcp_request reads the next question, if there may be one.
ReadQuery(c) ==
    LET r == child[c]
        n == r.count + 1
        q == Asks[c][n]
        kept == r.cache[q]
        asked == [r EXCEPT !.count = n, !.q = q]
    IN /\ r.at = "reading" /\ c \notin gone
       /\ r.count < MaxQueries /\ n <= Len(Asks[c])
       /\ Goes(c, CASE kept = "fresh" -> [asked EXCEPT !.at = "answering", !.reply = "cached"]
                    [] kept = "stale" -> [asked EXCEPT !.at = "answering", !.reply = "stale", !.stale = TRUE]
                    [] kept = "none" -> [asked EXCEPT !.at = "talking", !.start = StartAt(r),
                                                      !.first = StartAt(r)])
       /\ Quiet /\ UNCHANGED <<busy, event, wire, answers, gone, learned, mishaps>>

\* The last question, too many of them, or a client that has gone.
Close(c) ==
    LET r == child[c]
    IN /\ \/ r.at = "reading" /\ (r.count >= MaxQueries \/ r.count = Len(Asks[c]) \/ c \in gone)
          \/ r.at = "closing"
       /\ Exit(c, "exit")
       /\ Quiet /\ UNCHANGED <<wire, answers, learned, mishaps>>

\* The answer is written, or the client has gone; a stale one is followed by
\* the end of the connection and another try for the cache.
AnswerClient(c) ==
    LET r == child[c]
    IN /\ r.at = "answering"
       /\ IF c \in gone THEN UNCHANGED answers /\ Goes(c, [r EXCEPT !.at = "closing"])
          ELSE /\ Tell(c, r.reply)
               /\ Goes(c, IF r.stale THEN [r EXCEPT !.at = "talking", !.start = StartAt(r),
                                                    !.first = StartAt(r)]
                          ELSE [r EXCEPT !.at = "reading"])
       /\ gone' = IF r.stale THEN gone \cup {c} ELSE gone
       /\ Quiet /\ UNCHANGED <<busy, event, wire, learned, mishaps>>

\* The outcome of the search among the servers.
Settle(r, what) == [r EXCEPT !.at = IF r.stale THEN "closing" ELSE "answering", !.reply = what]

\* On to the next server, unless all have been tried.
Onward(r) ==
    LET next == IF r.start = Len(Servers) THEN 1 ELSE r.start + 1
    IN IF next = r.first THEN Settle([r EXCEPT !.start = next], "failed")
       ELSE [r EXCEPT !.start = next]

\* Mutant: a reply is not held against the question.
Fits_Any(r, reply) == TRUE
Fits(r, reply) == reply = r.q

\* The connection that is tried, opened if need be; and what comes of it.
Opened(r) ==
    IF r.link[r.start].open THEN r
    ELSE [r EXCEPT !.link[r.start] = [open |-> TRUE, got |-> FALSE, unread |-> <<>>], !.last = r.start]
Shut(r) == [r EXCEPT !.link[r.start] = NoLink]

\* Closed before the answer: again if there had been data, otherwise the next.
Closed(r) == IF r.link[r.start].got THEN Shut(r) ELSE Onward(Shut(r))

\* The next reply on the connection is read, whichever question it is to.
Replied(r, replies) ==
    LET all == r.link[r.start].unread \o replies
        read == [r EXCEPT !.link[r.start].unread = Tail(all)]
    IN IF Fits(r, Head(all)) THEN Settle([read EXCEPT !.link[r.start].got = TRUE], Head(all))
       ELSE Onward(read)

\* One step of tcp_talk: a server is tried.
Try(c, how) ==
    LET r == child[c]
        o == Opened(r)
        new == CASE how = "down" -> IF r.link[r.start].open THEN Closed(r) ELSE Onward(r)
                 [] how \in {"close", "silent"} -> Closed(o)
                 [] how = "answer" -> Replied(o, <<r.q>>)
                 [] how = "twice" -> Replied(o, <<r.q, r.q>>)
        sends == new.at # "talking" /\ new.reply \in Cacheable
    IN /\ r.at = "talking" /\ how \in Conduct[r.start]
       /\ SpendOnly(IF how \in Mishaps THEN 1 ELSE 0)
       /\ Goes(c, IF sends THEN [new EXCEPT !.at = "sending"] ELSE new)
       /\ wire' = IF sends THEN [wire EXCEPT ![c] = Append(@, r.q)] ELSE wire
       /\ Quiet /\ UNCHANGED <<busy, event, answers, gone, learned>>

\* The rest of the answer goes up the pipe.
Send(c) ==
    LET r == child[c]
    IN /\ r.at = "sending"
       /\ Goes(c, Settle([r EXCEPT !.cache[r.q] = "fresh"], r.reply))
       /\ wire' = [wire EXCEPT ![c] = Append(@, r.q)]
       /\ learned' = [learned EXCEPT ![c] = Append(@, r.q)]
       /\ Quiet /\ UNCHANGED <<busy, event, answers, gone, mishaps>>

\* Mutant: no alarm is set.
Alarm_Never(c) == FALSE /\ UNCHANGED vars
\* CHILD_LIFETIME is over.
Alarm(c) ==
    /\ Live(c) /\ child[c].at # "starting"
    /\ Exit(c, "exit")
    /\ Quiet /\ UNCHANGED <<wire, answers, learned, mishaps>>

Crash(c) ==
    /\ Live(c) /\ Trouble
    /\ Exit(c, "killed")
    /\ Quiet /\ UNCHANGED <<wire, answers, learned>>

Hangup(c) ==
    /\ Live(c) /\ c \notin gone
    /\ gone' = gone \cup {c}
    /\ UNCHANGED <<queue, pids, pipes, metric, busy, cache, event, up, child, wire, answers,
                   learned, taken, mishaps>>

Expire(q) ==
    /\ cache[q] = "fresh" /\ Trouble
    /\ cache' \in {[cache EXCEPT ![q] = "stale"], [cache EXCEPT ![q] = "none"]}
    /\ UNCHANGED <<queue, pids, pipes, metric, busy, event, up, child, wire, answers, gone,
                   learned, taken>>

-----------------------------------------------------------------------------
Init ==
    /\ queue \in SetToSeqs(Clients)
    /\ pids = [i \in SlotRange |-> Nobody] /\ pipes = pids
    /\ metric = 0 /\ busy = Nobody /\ event = FALSE /\ up = TRUE
    /\ cache = [q \in Questions |-> "none"]
    /\ child = [c \in Clients |-> NoChild]
    /\ wire = [c \in Clients |-> <<>>] /\ learned = wire /\ taken = wire
    /\ answers = [c \in Clients |-> <<>>]
    /\ gone = {} /\ mishaps = 0

Step(c) ==
    \/ Begin(c) \/ ReadQuery(c) \/ AnswerClient(c) \/ Send(c) \/ Close(c)
    \/ \E how \in {"answer", "twice", "close", "silent", "down"} : Try(c, how)

Parent == Accept \/ Reap \/ \E i \in SlotRange : ReadPipe(i)

Next ==
    \/ up /\ (Parent \/ Term \/ \E q \in Questions : Expire(q))
    \/ up /\ \E c \in Clients : Step(c) \/ Alarm(c) \/ Crash(c) \/ Hangup(c)

\* The parent serves what is ready; processes run, and their alarm goes off.
Fairness ==
    /\ WF_vars(Accept) /\ WF_vars(Reap)
    /\ \A i \in SlotRange : WF_vars(ReadPipe(i))
    /\ \A c \in Clients : WF_vars(Begin(c)) /\ WF_vars(Alarm(c))

Spec == Init /\ [][Next]_vars /\ Fairness

-----------------------------------------------------------------------------
(* Properties.                                                              *)

\* The count of connections is that of the slots in use, and a process is in
\* one slot until it has been waited for: so SIGTERM finds them all, and the
\* pipe of each that runs is read (the races of dnsmasq.c:1945).
SlotsCounted ==
    /\ metric = Cardinality({i \in SlotRange : InUse(i)})
    /\ \A c \in Clients :
          /\ Live(c) \/ child[c].at = "zombie" => \E i \in SlotRange : pids[i] = c
          /\ Live(c) => \E i \in SlotRange : pipes[i] = c
          /\ Cardinality({i \in SlotRange : c \in {pids[i], pipes[i]}}) <= 1

\* Answers are to the questions, in their order, and not more than allowed;
\* "failed" goes only to one that no server answers every time it is asked.
AnswersInOrder ==
    \A c \in Clients :
        /\ Len(answers[c]) <= MaxQueries
        /\ \A n \in DOMAIN answers[c] :
              /\ answers[c][n].q = Asks[c][n]
              /\ answers[c][n].what \in Questions => answers[c][n].what = Asks[c][n]
              /\ answers[c][n].what = "failed" => \A s \in DOMAIN Servers : Conduct[s] # {"answer"}

\* What a process has sent up reaches the cache of the parent, in order, up
\* to where it was cut off, whatever comes first, its end or the last of it.
LearnedTaken ==
    \A c \in Clients :
        /\ IsPrefix(taken[c], learned[c])
        /\ up /\ child[c].at = "waited" /\ child[c].how = "exit" /\ (\A i \in SlotRange : pipes[i] # c)
              => taken[c] = learned[c]

\* Everyone waiting is let in, or turned away, as long as the server runs.
AllLetIn == \A c \in Clients : (\E i \in DOMAIN queue : queue[i] = c) ~> (~up \/ \A i \in DOMAIN queue : queue[i] # c)

\* A question fails only when no server answers, though one may answer twice.
FailsFairly ==
    \A c \in Clients : \A n \in DOMAIN answers[c] :
        answers[c][n].what = "failed" => \A s \in DOMAIN Servers : ~(Conduct[s] \subseteq {"answer", "twice"})

\* Slots, answers and what is learned come out right, in whatever order the
\* processes, their pipes and the parent get on.
ConnectionsRight == SlotsCounted /\ AnswersInOrder /\ LearnedTaken
=============================================================================
