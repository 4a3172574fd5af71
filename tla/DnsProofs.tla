------------------------------ MODULE DnsProofs ------------------------------
(***************************************************************************)
(* DNS over TCP, for any number of connections, slots, servers and         *)
(* questions: slots are counted right and processes found, answers are to  *)
(* the questions in their order, and what a process has learned reaches    *)
(* the cache of the parent (ConnectionsHonest).                            *)
(*                                                                         *)
(* The invariant follows each process from its place in the queue to the   *)
(* end of its pipe.  The core of it is WireInv: the pipe holds exactly the *)
(* halves of answers that are sent and not taken yet.                      *)
(***************************************************************************)
EXTENDS DnsTcp, FiniteSetTheorems, SequenceTheorems, TLAPS

Places == {"none", "starting", "reading", "answering", "talking", "sending", "closing",
           "zombie", "waited"}
Kept == {"none", "stale", "fresh"}
LinkType == [open : BOOLEAN, got : BOOLEAN, unread : Seq(Questions)]
ProcessType ==
    [at : Places, how : {"exit", "killed"}, cache : [Questions -> Kept], count : Nat,
     q : Questions, start : DOMAIN Servers, first : DOMAIN Servers, last : 0 .. Len(Servers),
     stale : BOOLEAN, reply : Questions \cup Replies, link : [DOMAIN Servers -> LinkType]]

ParentTypes ==
    /\ queue \in Seq(Clients)
    /\ pids \in [SlotRange -> Clients \cup {Nobody}] /\ pipes \in [SlotRange -> Clients \cup {Nobody}]
    /\ busy \in Clients \cup {Nobody} /\ metric \in Int /\ up \in BOOLEAN
    /\ cache \in [Questions -> Kept]
ProcessTypes == child \in [Clients -> ProcessType]
PipeTypes ==
    /\ wire \in [Clients -> Seq(Questions)]
    /\ learned \in [Clients -> Seq(Questions)] /\ taken \in [Clients -> Seq(Questions)]
AnswerTypes == answers \in [Clients -> Seq([q : Questions, what : Questions \cup Replies])]

-----------------------------------------------------------------------------
(* Slots.                                                                   *)

Holds(i, c) == pids[i] = c \/ pipes[i] = c

\* The queue has no one twice, and no one who has been let in.
QueueInv ==
    \A j \in 1 .. Len(queue) :
        /\ child[queue[j]].at = "none"
        /\ \A k \in 1 .. Len(queue) : queue[j] = queue[k] => j = k

OneSlot == \A c \in Clients : \A i, j \in SlotRange : Holds(i, c) /\ Holds(j, c) => i = j
SlotsAgree == \A i \in SlotRange : pids[i] # Nobody /\ pipes[i] # Nobody => pids[i] = pipes[i]
Started == \A c \in Clients : \A i \in SlotRange : Holds(i, c) => child[c].at # "none"
Found ==
    \A c \in Clients :
        /\ Live(c) \/ child[c].at = "zombie" => \E i \in SlotRange : pids[i] = c
        /\ Live(c) => \E i \in SlotRange : pipes[i] = c
Counted == metric = Cardinality({i \in SlotRange : InUse(i)})
SlotInv == QueueInv /\ OneSlot /\ SlotsAgree /\ Started /\ Found

-----------------------------------------------------------------------------
(* Pipes.                                                                   *)

\* The parent waits only for the process that starts, or that it reads from.
BusyInv == \A c \in Clients : child[c].at = "starting" => busy = c

PipeOpen(c) == \E i \in SlotRange : pipes[i] = c
\* Halves of answers the parent has taken from the pipe of c.
TakenHalves(c) ==
    2 * Len(taken[c]) + (IF busy = c /\ child[c].at # "starting" THEN 1 ELSE 0)
\* The halves that are written make whole answers, and one that is begun.
HalvesInv ==
    \A c \in Clients : PipeOpen(c) =>
        LET sent == TakenHalves(c) + Len(wire[c])
        IN /\ sent = 2 * Len(learned[c]) \/ sent = 2 * Len(learned[c]) + 1
           /\ Live(c) => sent = 2 * Len(learned[c]) + (IF child[c].at = "sending" THEN 1 ELSE 0)
\* The second half of the n-th answer is to the n-th question learned.
WireInv ==
    \A c \in Clients : PipeOpen(c) =>
        \A j \in 1 .. Len(wire[c]) : \A n \in 1 .. Len(learned[c]) :
            TakenHalves(c) + j = 2 * n => wire[c][j] = learned[c][n]
TakenInv ==
    \A c \in Clients :
        /\ Len(taken[c]) <= Len(learned[c])
        /\ \A n \in 1 .. Len(taken[c]) : taken[c][n] = learned[c][n]
\* A pipe that is closed was read to its end, unless its process was killed.
ClosedInv ==
    \A c \in Clients :
        up /\ ~PipeOpen(c) /\ child[c].how = "exit" => Len(taken[c]) = Len(learned[c])
FreshInv ==
    \A c \in Clients : child[c].at = "none" =>
        /\ child[c] = NoChild
        /\ taken[c] = <<>> /\ learned[c] = <<>> /\ wire[c] = <<>> /\ answers[c] = <<>>
PipeInv == BusyInv /\ HalvesInv /\ WireInv /\ TakenInv /\ ClosedInv

-----------------------------------------------------------------------------
(* Answers.                                                                 *)

Sure(s) == Conduct[s] = {"answer"}
NoneSure == \A s \in DOMAIN Servers : ~Sure(s)
\* Servers tried in this round: from the first up to the one before start.
Tried(r) == {s \in DOMAIN Servers : IF r.first <= r.start THEN r.first <= s /\ s < r.start
                                    ELSE r.first <= s \/ s < r.start}
\* Questions the client has an answer to, of those it has asked.
Told(r) == IF r.at = "answering" \/ (r.at \in {"talking", "sending"} /\ ~r.stale)
           THEN r.count - 1 ELSE r.count

CountOK(r, c) ==
    /\ r.count <= MaxQueries /\ r.count <= Len(Asks[c])
    /\ r.at \in {"starting", "reading"} => ~r.stale
    /\ r.at = "starting" => r.count = 0
    /\ r.at \in {"answering", "talking", "sending"} => r.count >= 1 /\ r.q = Asks[c][r.count]
ReplyOK(r) ==
    r.at \in {"answering", "sending"} =>
        /\ r.reply \in Questions => r.reply = r.q
        /\ r.reply = "failed" => NoneSure
LinkOK(r) == \A s \in DOMAIN Servers : Sure(s) => r.link[s].unread = <<>>
TalkOK(r) == r.at = "talking" => \A s \in Tried(r) : ~Sure(s)

ProcessOK(r, c) == CountOK(r, c) /\ ReplyOK(r) /\ LinkOK(r) /\ TalkOK(r)
ProcessInv == \A c \in Clients : ProcessOK(child[c], c)

\* The answers told are to the first questions, and are as they should be.
AnswerOK(c) ==
    /\ Len(answers[c]) <= child[c].count
    /\ Live(c) /\ child[c].at # "closing" => Len(answers[c]) = Told(child[c])
    /\ \A n \in 1 .. Len(answers[c]) :
          /\ answers[c][n].q = Asks[c][n]
          /\ answers[c][n].what \in Questions => answers[c][n].what = Asks[c][n]
          /\ answers[c][n].what = "failed" => NoneSure
AnswerInv == \A c \in Clients : AnswerOK(c)

Types == ParentTypes /\ ProcessTypes /\ PipeTypes /\ AnswerTypes
IInv == Types /\ SlotInv /\ Counted /\ FreshInv /\ PipeInv /\ ProcessInv /\ AnswerInv

-----------------------------------------------------------------------------
(* What an action makes of the record of its process.                       *)

\* The constants, in the form the steps use.
LEMMA Constants ==
    /\ Questions # {} /\ Cacheable \subseteq Questions
    /\ \A x \in Questions : x \notin Replies
    /\ "cached" \in Replies /\ "stale" \in Replies /\ "failed" \in Replies /\ Nobody \in Replies
    /\ Len(Servers) \in Nat /\ Len(Servers) >= 1 /\ DOMAIN Servers = 1 .. Len(Servers)
    /\ MaxQueries \in Nat
    /\ \A c \in Clients : Asks[c] \in Seq(Questions) /\ Len(Asks[c]) \in Nat
    /\ \A c \in Clients : \A n \in 1 .. Len(Asks[c]) : Asks[c][n] \in Questions
    /\ \A s \in DOMAIN Servers : Conduct[s] \subseteq {"answer", "twice", "close", "silent", "down"}
BY DnsTcpAssumption DEF Replies

\* Where the search starts is a server.
LEMMA StartAtFact ==
    ASSUME NEW r \in ProcessType
    PROVE  StartAt(r) \in DOMAIN Servers
<1>1. r.last \in 0 .. Len(Servers)
  BY DEF ProcessType
<1> QED
  BY <1>1, Constants DEF StartAt

\* At the start of a round no server has been tried.
LEMMA NoneTried ==
    ASSUME NEW r \in ProcessType, r.start = r.first
    PROVE  Tried(r) = {}
<1>1. r.start \in Int /\ \A s \in DOMAIN Servers : s \in Int
  BY Constants DEF ProcessType
<1> QED
  BY <1>1 DEF Tried

\* A question that was read.
LEMMA AskedFact ==
    ASSUME NEW c \in Clients, NEW r \in ProcessType, ProcessOK(r, c),
           r.at = "reading", r.count < MaxQueries, r.count + 1 <= Len(Asks[c]),
           NEW r2 \in ProcessType, r2.count = r.count + 1, r2.q = Asks[c][r.count + 1],
           r2.link = r.link,
           \/ r2.at = "answering" /\ r2.reply \in {"cached", "stale"}
           \/ r2.at = "talking" /\ r2.start = r2.first /\ ~r2.stale
    PROVE  ProcessOK(r2, c) /\ Told(r2) = Told(r)
<1>1. r.count \in Nat /\ LinkOK(r) /\ Told(r) = r.count
  BY DEF ProcessType, ProcessOK, Told
<1>2. LinkOK(r2) /\ TalkOK(r2)
  BY <1>1, NoneTried DEF LinkOK, TalkOK
<1>3. ReplyOK(r2)
  BY Constants DEF ReplyOK
<1>4. CountOK(r2, c)
  BY <1>1, Constants DEF CountOK
<1>5. Told(r2) = r2.count - 1
  BY DEF Told
<1> QED
  BY <1>1, <1>2, <1>3, <1>4, <1>5 DEF ProcessOK

\* ReadQuery: the next question is looked up, or asked of the servers.
LEMMA ReadQueryFact ==
    ASSUME NEW c \in Clients, NEW r \in ProcessType, ProcessOK(r, c),
           r.at = "reading", r.count < MaxQueries, r.count + 1 <= Len(Asks[c])
    PROVE  LET q == Asks[c][r.count + 1]
               kept == r.cache[q]
               asked == [r EXCEPT !.count = r.count + 1, !.q = q]
               r2 == CASE kept = "fresh" -> [asked EXCEPT !.at = "answering", !.reply = "cached"]
                       [] kept = "stale" -> [asked EXCEPT !.at = "answering", !.reply = "stale", !.stale = TRUE]
                       [] kept = "none" -> [asked EXCEPT !.at = "talking", !.start = StartAt(r),
                                                         !.first = StartAt(r)]
           IN /\ r2 \in ProcessType /\ ProcessOK(r2, c) /\ r2.at \in {"answering", "talking"}
              /\ Told(r2) = Told(r) /\ r2.how = r.how /\ r2.count = r.count + 1
<1> DEFINE q == Asks[c][r.count + 1]
           kept == r.cache[q]
           asked == [r EXCEPT !.count = r.count + 1, !.q = q]
           first == StartAt(r)
           fresh == [asked EXCEPT !.at = "answering", !.reply = "cached"]
           stale == [asked EXCEPT !.at = "answering", !.reply = "stale", !.stale = TRUE]
           none == [asked EXCEPT !.at = "talking", !.start = first, !.first = first]
           Good(r2) == /\ r2 \in ProcessType /\ ProcessOK(r2, c) /\ r2.at \in {"answering", "talking"}
                       /\ Told(r2) = Told(r) /\ r2.how = r.how /\ r2.count = r.count + 1
<1>1. r.count \in Nat /\ r.cache \in [Questions -> Kept]
  BY DEF ProcessType
<1>2. ~r.stale /\ r.stale \in BOOLEAN
  BY DEF ProcessOK, CountOK, ProcessType
<1>3. q \in Questions /\ kept \in Kept /\ first \in DOMAIN Servers
  BY <1>1, Constants, StartAtFact
<1>4. r.count + 1 \in Nat /\ q = Asks[c][r.count + 1]
  BY <1>1
<1> HIDE DEF q, kept, first
<1>5. asked \in ProcessType
  BY <1>3, <1>4 DEF ProcessType
<1>6. /\ asked.count = r.count + 1 /\ asked.q = q /\ asked.link = r.link
      /\ asked.how = r.how /\ asked.stale = r.stale
  BY DEF ProcessType
<1> HIDE DEF asked
<1>7. Good(fresh)
  <2>1. fresh \in ProcessType /\ fresh.at = "answering" /\ fresh.reply = "cached"
    BY <1>5, Constants DEF ProcessType, Places
  <2>2. fresh.link = r.link /\ fresh.how = r.how /\ fresh.count = r.count + 1 /\ fresh.q = q
    BY <1>5, <1>6 DEF ProcessType
  <2> HIDE DEF fresh
  <2> QED
    BY <2>1, <2>2, <1>4, AskedFact
<1>8. Good(stale)
  <2>1. stale \in ProcessType /\ stale.at = "answering" /\ stale.reply = "stale"
    BY <1>5, Constants DEF ProcessType, Places
  <2>2. stale.link = r.link /\ stale.how = r.how /\ stale.count = r.count + 1 /\ stale.q = q
    BY <1>5, <1>6 DEF ProcessType
  <2> HIDE DEF stale
  <2> QED
    BY <2>1, <2>2, <1>4, AskedFact
<1>9. Good(none)
  <2>1. none \in ProcessType /\ none.at = "talking" /\ none.start = none.first
    BY <1>3, <1>5 DEF ProcessType, Places
  <2>2. none.link = r.link /\ none.how = r.how /\ none.count = r.count + 1 /\ none.q = q
    BY <1>5, <1>6 DEF ProcessType
  <2>3. none.stale = asked.stale
    BY <1>5 DEF ProcessType
  <2> HIDE DEF none
  <2> QED
    BY <2>1, <2>2, <2>3, <1>2, <1>4, <1>6, AskedFact
<1>10. Good(CASE kept = "fresh" -> fresh [] kept = "stale" -> stale [] kept = "none" -> none)
  <2> HIDE DEF fresh, stale, none, Good
  <2> QED
    BY <1>3, <1>7, <1>8, <1>9 DEF Kept
<1> QED
  BY <1>10 DEF q, kept, first, asked

\* AnswerClient: the client has gone, or has its answer.
LEMMA AnswerFact ==
    ASSUME NEW c \in Clients, NEW r \in ProcessType, ProcessOK(r, c), r.at = "answering"
    PROVE  LET closing == [r EXCEPT !.at = "closing"]
               again == [r EXCEPT !.at = "talking", !.start = StartAt(r), !.first = StartAt(r)]
               reading == [r EXCEPT !.at = "reading"]
           IN /\ closing \in ProcessType /\ ProcessOK(closing, c)
              /\ closing.at = "closing" /\ closing.how = r.how /\ closing.count = r.count
              /\ r.stale =>
                    /\ again \in ProcessType /\ ProcessOK(again, c) /\ Told(again) = Told(r) + 1
                    /\ again.at = "talking" /\ again.how = r.how /\ again.count = r.count
              /\ ~r.stale =>
                    /\ reading \in ProcessType /\ ProcessOK(reading, c) /\ Told(reading) = Told(r) + 1
                    /\ reading.at = "reading" /\ reading.how = r.how /\ reading.count = r.count
<1> DEFINE closing == [r EXCEPT !.at = "closing"]
           first == StartAt(r)
           again == [r EXCEPT !.at = "talking", !.start = first, !.first = first]
           reading == [r EXCEPT !.at = "reading"]
<1>1. r.count \in Nat /\ CountOK(r, c) /\ LinkOK(r) /\ Told(r) = r.count - 1
  BY DEF ProcessOK, Told, ProcessType
<1>2. first \in DOMAIN Servers
  BY StartAtFact
<1> HIDE DEF first
<1>3. closing \in ProcessType /\ closing.at = "closing" /\ closing.how = r.how
      /\ closing.count = r.count /\ closing.link = r.link
  BY DEF ProcessType, Places
<1>4. ProcessOK(closing, c)
  <2> HIDE DEF closing
  <2> QED
    BY <1>1, <1>3 DEF ProcessOK, CountOK, ReplyOK, LinkOK, TalkOK
<1>5. /\ again \in ProcessType /\ again.at = "talking" /\ again.start = again.first
      /\ again.how = r.how /\ again.count = r.count /\ again.link = r.link /\ again.q = r.q
      /\ again.stale = r.stale
  BY <1>2 DEF ProcessType, Places
<1>6. ASSUME r.stale PROVE ProcessOK(again, c) /\ Told(again) = Told(r) + 1
  <2> HIDE DEF again
  <2>1. again.stale
    BY <1>5, <1>6
  <2> QED
    BY <1>1, <1>5, <2>1, NoneTried DEF ProcessOK, CountOK, ReplyOK, LinkOK, TalkOK, Told
<1>7. /\ reading \in ProcessType /\ reading.at = "reading" /\ reading.how = r.how
      /\ reading.count = r.count /\ reading.link = r.link /\ reading.stale = r.stale
  BY DEF ProcessType, Places
<1>8. ASSUME ~r.stale PROVE ProcessOK(reading, c) /\ Told(reading) = Told(r) + 1
  <2> HIDE DEF reading
  <2>1. ~reading.stale
    BY <1>7, <1>8
  <2> QED
    BY <1>1, <1>7, <2>1 DEF ProcessOK, CountOK, ReplyOK, LinkOK, TalkOK, Told
<1> QED
  <2> HIDE DEF closing, again, reading
  <2>1. /\ closing \in ProcessType /\ ProcessOK(closing, c)
        /\ closing.at = "closing" /\ closing.how = r.how /\ closing.count = r.count
    BY <1>3, <1>4
  <2>2. r.stale =>
          /\ again \in ProcessType /\ ProcessOK(again, c) /\ Told(again) = Told(r) + 1
          /\ again.at = "talking" /\ again.how = r.how /\ again.count = r.count
    BY <1>5, <1>6
  <2>3. ~r.stale =>
          /\ reading \in ProcessType /\ ProcessOK(reading, c) /\ Told(reading) = Told(r) + 1
          /\ reading.at = "reading" /\ reading.how = r.how /\ reading.count = r.count
    BY <1>7, <1>8
  <2> QED
    BY <2>1, <2>2, <2>3 DEF closing, again, reading, first

-----------------------------------------------------------------------------
(* tcp_talk: what a try makes of the record.                                *)

\* What does not change while servers are tried.
Same(r, r2) ==
    /\ r2 \in ProcessType /\ r2.how = r.how /\ r2.count = r.count /\ r2.q = r.q
    /\ r2.stale = r.stale /\ r2.first = r.first
\* A reply that may be given to the client.
Settled(r) == (r.reply \in Questions => r.reply = r.q) /\ (r.reply = "failed" => NoneSure)
Outcome(r, r2) ==
    /\ Same(r, r2) /\ LinkOK(r2) /\ TalkOK(r2)
    /\ r2.at \in {"talking", "answering", "closing"}
    /\ r2.at # "talking" => Settled(r2)
    /\ r2.at = "answering" => ~r.stale

\* A connection is opened or shut, or loses what was read.
LEMMA LinkFact ==
    ASSUME NEW r \in ProcessType, LinkOK(r), NEW l \in LinkType, Sure(r.start) => l.unread = <<>>
    PROVE  LET r2 == [r EXCEPT !.link[r.start] = l]
           IN Same(r, r2) /\ LinkOK(r2) /\ r2.at = r.at /\ r2.start = r.start /\ r2.reply = r.reply
              /\ r2.link[r.start] = l
<1> DEFINE link2 == [r.link EXCEPT ![r.start] = l]
           r2 == [r EXCEPT !.link = link2]
<1>1. r.link \in [DOMAIN Servers -> LinkType] /\ r.start \in DOMAIN Servers
  BY DEF ProcessType
<1>2. link2 \in [DOMAIN Servers -> LinkType]
  BY <1>1
<1>3. \A s \in DOMAIN Servers : link2[s] = IF s = r.start THEN l ELSE r.link[s]
  BY <1>1
<1>4. [r EXCEPT !.link[r.start] = l] = r2
  BY DEF ProcessType
<1> HIDE DEF link2
<1>5. Same(r, r2) /\ r2.at = r.at /\ r2.start = r.start /\ r2.reply = r.reply /\ r2.link = link2
  BY <1>2 DEF Same, ProcessType
<1> HIDE DEF r2
<1>6. LinkOK(r2)
  BY <1>3, <1>5 DEF LinkOK
<1> QED
  BY <1>1, <1>3, <1>4, <1>5, <1>6

\* The search is over, with a reply that is right.
LEMMA SettleFact ==
    ASSUME NEW r \in ProcessType, LinkOK(r), NEW what \in Questions \cup Replies,
           what \in Questions => what = r.q, what = "failed" => NoneSure
    PROVE  Outcome(r, Settle(r, what))
<1> DEFINE at == IF r.stale THEN "closing" ELSE "answering"
           r2 == [r EXCEPT !.at = at, !.reply = what]
<1>1. at \in {"closing", "answering"} /\ (at = "answering" => ~r.stale)
  OBVIOUS
<1>2. Settle(r, what) = r2
  BY DEF Settle
<1> HIDE DEF at
<1>3. Same(r, r2) /\ r2.at = at /\ r2.reply = what /\ r2.link = r.link
  BY <1>1 DEF Same, ProcessType, Places
<1> HIDE DEF r2
<1>4. LinkOK(r2) /\ TalkOK(r2)
  BY <1>1, <1>3 DEF LinkOK, TalkOK
<1>5. Settled(r2)
  BY <1>3 DEF Settled, Same
<1> QED
  BY <1>1, <1>2, <1>3, <1>4, <1>5 DEF Outcome

\* On to the next: when it is the first again, none is sure.
LEMMA OnwardFact ==
    ASSUME NEW r \in ProcessType, r.at = "talking", LinkOK(r), TalkOK(r), ~Sure(r.start)
    PROVE  Outcome(r, Onward(r))
<1> DEFINE next == IF r.start = Len(Servers) THEN 1 ELSE r.start + 1
           r2 == [r EXCEPT !.start = next]
<1>1. /\ r.start \in 1 .. Len(Servers) /\ r.first \in 1 .. Len(Servers)
      /\ DOMAIN Servers = 1 .. Len(Servers) /\ Len(Servers) \in Nat
  BY Constants DEF ProcessType
<1>2. next \in DOMAIN Servers
  BY <1>1
<1>3. Same(r, r2) /\ r2.start = next /\ r2.at = "talking" /\ r2.link = r.link
  <2> HIDE DEF next
  <2> QED
    BY <1>2 DEF Same, ProcessType
<1>4. r2.first = r.first /\ r2.stale = r.stale /\ r2.q = r.q
  BY <1>3 DEF Same
<1>5. Onward(r) = IF next = r.first THEN Settle(r2, "failed") ELSE r2
  BY DEF Onward
<1> HIDE DEF r2
<1>6. LinkOK(r2)
  BY <1>3 DEF LinkOK
<1>7. CASE next = r.first
  <2>1. \A s \in DOMAIN Servers : s = r.start \/ s \in Tried(r)
    BY <1>1, <1>7 DEF Tried
  <2>2. NoneSure
    BY <2>1 DEF NoneSure, TalkOK
  <2>3. Outcome(r2, Settle(r2, "failed"))
    BY <2>2, <1>3, <1>6, SettleFact, Constants DEF Same
  <2> QED
    BY <2>3, <1>3, <1>5, <1>7 DEF Outcome, Same
<1>8. CASE next # r.first
  <2>1. \A s \in Tried(r2) : s = r.start \/ s \in Tried(r)
    BY <1>1, <1>3, <1>4, <1>8 DEF Tried
  <2>2. TalkOK(r2)
    BY <2>1 DEF TalkOK
  <2> QED
    BY <2>2, <1>3, <1>5, <1>6, <1>8 DEF Outcome
<1> QED
  BY <1>7, <1>8

\* A record that differs in its connections only is as good.
LEMMA SameOutcome ==
    ASSUME NEW r \in ProcessType, NEW o, Same(r, o), NEW r2, Outcome(o, r2)
    PROVE  Outcome(r, r2)
BY DEF Outcome, Same

LEMMA TriedSame ==
    ASSUME NEW r \in ProcessType, TalkOK(r), NEW o, Same(r, o), o.at = r.at, o.start = r.start
    PROVE  TalkOK(o)
BY DEF TalkOK, Same, Tried

LEMMA ShutFact ==
    ASSUME NEW r \in ProcessType, LinkOK(r)
    PROVE  LET o == Shut(r)
           IN Same(r, o) /\ LinkOK(o) /\ o.at = r.at /\ o.start = r.start
<1>1. NoLink \in LinkType /\ NoLink.unread = <<>>
  BY EmptySeq DEF NoLink, LinkType
<1> QED
  BY <1>1, LinkFact DEF Shut

\* A connection that is opened; an open one is used as it is.
LEMMA OpenedFact ==
    ASSUME NEW r \in ProcessType, LinkOK(r)
    PROVE  LET o == Opened(r)
           IN Same(r, o) /\ LinkOK(o) /\ o.at = r.at /\ o.start = r.start
<1> DEFINE l == [open |-> TRUE, got |-> FALSE, unread |-> <<>>]
           r2 == [r EXCEPT !.link[r.start] = l]
           r3 == [r2 EXCEPT !.last = r.start]
<1>1. l \in LinkType /\ l.unread = <<>>
  BY EmptySeq DEF LinkType
<1>2. Same(r, r2) /\ LinkOK(r2) /\ r2.at = r.at /\ r2.start = r.start
  <2> HIDE DEF l
  <2> QED
    BY <1>1, LinkFact
<1>3. [r EXCEPT !.link[r.start] = l, !.last = r.start] = r3
  OBVIOUS
<1>4. r.start \in 0 .. Len(Servers)
  BY Constants DEF ProcessType
<1> HIDE DEF r2
<1>5. Same(r2, r3) /\ r3.at = r2.at /\ r3.start = r2.start /\ r3.link = r2.link
  BY <1>2, <1>4 DEF Same, ProcessType
<1> HIDE DEF r3
<1>6. Same(r, r3) /\ LinkOK(r3) /\ r3.at = r.at /\ r3.start = r.start
  BY <1>2, <1>5 DEF Same, LinkOK
<1>7. Same(r, r)
  BY DEF Same
<1>8. Opened(r) = IF r.link[r.start].open THEN r ELSE r3
  BY <1>3 DEF Opened
<1> QED
  BY <1>6, <1>7, <1>8

\* The connection was closed: again, or the next server.
LEMMA ClosedFact ==
    ASSUME NEW r \in ProcessType, r.at = "talking", LinkOK(r), TalkOK(r), ~Sure(r.start)
    PROVE  Outcome(r, Closed(r))
<1> DEFINE o == Shut(r)
<1>1. Same(r, o) /\ LinkOK(o) /\ o.at = r.at /\ o.start = r.start
  BY ShutFact
<1> HIDE DEF o
<1>2. o \in ProcessType /\ TalkOK(o)
  BY <1>1, TriedSame DEF Same
<1>3. Outcome(o, Onward(o))
  BY <1>1, <1>2, OnwardFact
<1>4. Outcome(r, Onward(o)) /\ Outcome(r, o)
  BY <1>1, <1>2, <1>3, SameOutcome DEF Outcome
<1>5. Closed(r) = IF r.link[r.start].got THEN o ELSE Onward(o)
  BY DEF Closed, o
<1> QED
  BY <1>4, <1>5

\* A reply is read: it is to the question, or the server is given up for now.
LEMMA RepliedFact ==
    ASSUME NEW r \in ProcessType, r.at = "talking", LinkOK(r), TalkOK(r),
           NEW replies \in Seq(Questions), Len(replies) >= 1, replies[1] = r.q,
           Sure(r.start) => Len(replies) = 1
    PROVE  Outcome(r, Replied(r, replies))
<1> DEFINE old == r.link[r.start]
           all == old.unread \o replies
           l == [old EXCEPT !.unread = Tail(all)]
           read == [r EXCEPT !.link[r.start] = l]
           got == [l EXCEPT !.got = TRUE]
           fit == [r EXCEPT !.link[r.start] = got]
<1>1. r.link \in [DOMAIN Servers -> LinkType] /\ r.start \in DOMAIN Servers /\ r.q \in Questions
  BY DEF ProcessType
<1>2. old \in LinkType /\ old.unread \in Seq(Questions) /\ (Sure(r.start) => old.unread = <<>>)
  BY <1>1 DEF LinkType, LinkOK
<1> HIDE DEF old
<1>3. all \in Seq(Questions) /\ Len(all) = Len(old.unread) + Len(replies)
      /\ (old.unread = <<>> => all = replies)
  BY <1>2, ConcatProperties, ConcatEmptySeq
<1>4. Len(old.unread) \in Nat /\ Len(replies) \in Nat
  BY <1>2
<1> HIDE DEF all
<1>5. all # <<>> /\ Head(all) \in Questions /\ Tail(all) \in Seq(Questions)
      /\ Len(Tail(all)) = Len(all) - 1 /\ Head(all) = all[1]
  BY <1>3, <1>4, HeadTailProperties
<1>6. Sure(r.start) => Head(all) = r.q /\ Tail(all) = <<>>
  <2>1. Len(Tail(all)) = 0 => Tail(all) = <<>>
    BY <1>5, EmptySeq
  <2> QED
    BY <2>1, <1>2, <1>3, <1>4, <1>5
<1>7. l \in LinkType /\ l.unread = Tail(all)
  BY <1>2, <1>5 DEF LinkType
<1>8. got \in LinkType /\ got.unread = Tail(all)
  <2> HIDE DEF l
  <2> QED
    BY <1>7 DEF LinkType
<1>9. [r EXCEPT !.link[r.start].unread = Tail(all)] = read
  BY DEF old
<1> HIDE DEF l
<1>10. Same(r, read) /\ LinkOK(read) /\ read.at = r.at /\ read.start = r.start /\ read.link[r.start] = l
  <2>1. l \in LinkType /\ (Sure(r.start) => l.unread = <<>>)
    BY <1>6, <1>7
  <2> QED
    BY <2>1, LinkFact
<1>11. read \in ProcessType /\ read.q = r.q
  BY <1>10 DEF Same
<1>12. CASE Head(all) = r.q
  <2> DEFINE fit2 == [read EXCEPT !.link[read.start].got = TRUE]
  <2>1. fit2 = [read EXCEPT !.link[read.start] = got]
    BY <1>10
  <2> HIDE DEF fit2, read, got
  <2>2. Same(read, fit2) /\ LinkOK(fit2)
    <3>1. LinkOK(read) /\ (Sure(read.start) => got.unread = <<>>)
      BY <1>6, <1>8, <1>10
    <3> QED
      BY <3>1, <1>8, <1>11, <2>1, LinkFact
  <2>3. fit2 \in ProcessType /\ fit2.q = r.q
    BY <2>2, <1>11 DEF Same
  <2>4. Head(all) # "failed"
    BY <1>5, Constants
  <2>5. Outcome(fit2, Settle(fit2, Head(all)))
    BY <2>2, <2>3, <2>4, <1>5, <1>12, SettleFact
  <2>6. Outcome(r, Settle(fit2, Head(all)))
    BY <2>2, <2>5, <1>10, <1>11, SameOutcome
  <2>7. Replied(r, replies) = Settle([read EXCEPT !.link[r.start].got = TRUE], Head(all))
    BY <1>9, <1>12 DEF Replied, Fits, all, old
  <2> QED
    BY <2>6, <2>7, <1>10 DEF fit2
<1>13. CASE Head(all) # r.q
  <2>1. Replied(r, replies) = Onward(read)
    BY <1>9, <1>13 DEF Replied, Fits, all, old
  <2> HIDE DEF read
  <2>2. ~Sure(r.start) /\ TalkOK(read)
    BY <1>6, <1>10, <1>13, TriedSame
  <2>3. Outcome(read, Onward(read))
    BY <2>2, <1>10, <1>11, OnwardFact
  <2> QED
    BY <2>1, <2>3, <1>10, SameOutcome
<1> QED
  BY <1>12, <1>13

\* The outcome of a try is a good record again.
LEMMA OutcomeFact ==
    ASSUME NEW c \in Clients, NEW r \in ProcessType, ProcessOK(r, c),
           r.at \in {"talking", "sending"}, NEW r2, Outcome(r, r2)
    PROVE  /\ r2 \in ProcessType /\ ProcessOK(r2, c) /\ r2.how = r.how /\ r2.count = r.count
           /\ r2.at # "closing" => Told(r2) = Told(r)
<1>1. /\ r2 \in ProcessType /\ r2.how = r.how /\ r2.count = r.count /\ r2.q = r.q
      /\ r2.stale = r.stale /\ LinkOK(r2) /\ TalkOK(r2)
      /\ r2.at \in {"talking", "answering", "closing"} /\ (r2.at # "talking" => Settled(r2))
      /\ (r2.at = "answering" => ~r.stale)
  BY DEF Outcome, Same
<1>2. r.count >= 1 /\ r.q = Asks[c][r.count] /\ r.count <= MaxQueries /\ r.count <= Len(Asks[c])
  BY DEF ProcessOK, CountOK
<1>3. CountOK(r2, c)
  BY <1>1, <1>2 DEF CountOK
<1>4. ReplyOK(r2)
  BY <1>1 DEF ReplyOK, Settled
<1>5. r2.at # "closing" => Told(r2) = Told(r)
  BY <1>1 DEF Told
<1> QED
  BY <1>1, <1>3, <1>4, <1>5 DEF ProcessOK

\* What Try makes of the record, and whether the answer goes up the pipe.
Outcomes(r, how) ==
    LET o == Opened(r)
    IN CASE how = "down" -> IF r.link[r.start].open THEN Closed(r) ELSE Onward(r)
         [] how \in {"close", "silent"} -> Closed(o)
         [] how = "answer" -> Replied(o, <<r.q>>)
         [] how = "twice" -> Replied(o, <<r.q, r.q>>)
Sends(r, how) == Outcomes(r, how).at # "talking" /\ Outcomes(r, how).reply \in Cacheable
After(r, how) ==
    IF Sends(r, how) THEN [Outcomes(r, how) EXCEPT !.at = "sending"] ELSE Outcomes(r, how)

\* Try: a server is tried; what is worth it goes up the pipe.
LEMMA TryFact ==
    ASSUME NEW c \in Clients, NEW r \in ProcessType, ProcessOK(r, c), r.at = "talking",
           NEW how \in {"answer", "twice", "close", "silent", "down"}, how \in Conduct[r.start]
    PROVE  /\ After(r, how) \in ProcessType /\ ProcessOK(After(r, how), c)
           /\ After(r, how).at \in {"talking", "answering", "sending", "closing"}
           /\ After(r, how).at = "sending" <=> Sends(r, how)
           /\ After(r, how).count = r.count
           /\ After(r, how).at # "closing" => Told(After(r, how)) = Told(r)
<1> DEFINE o == Opened(r)
           new == Outcomes(r, how)
           sending == [new EXCEPT !.at = "sending"]
           sends == new.at # "talking" /\ new.reply \in Cacheable
<1>0. new = CASE how = "down" -> IF r.link[r.start].open THEN Closed(r) ELSE Onward(r)
              [] how \in {"close", "silent"} -> Closed(o)
              [] how = "answer" -> Replied(o, <<r.q>>)
              [] how = "twice" -> Replied(o, <<r.q, r.q>>)
  BY DEF Outcomes
<1>1. r.q \in Questions /\ r.start \in DOMAIN Servers /\ LinkOK(r) /\ TalkOK(r)
  BY DEF ProcessType, ProcessOK
<1>2. Same(r, o) /\ LinkOK(o) /\ o.at = r.at /\ o.start = r.start
  BY <1>1, OpenedFact
<1> HIDE DEF o
<1>3. o \in ProcessType /\ o.q = r.q /\ TalkOK(o)
  BY <1>1, <1>2, TriedSame DEF Same
<1>4. Sure(r.start) => how = "answer"
  BY DEF Sure
<1> HIDE DEF new
<1>9. Outcome(r, new)
  <2>5. CASE how = "down"
    <3>1. Outcome(r, Closed(r)) /\ Outcome(r, Onward(r))
      BY <1>1, <1>4, <2>5, ClosedFact, OnwardFact
    <3>2. new = IF r.link[r.start].open THEN Closed(r) ELSE Onward(r)
      BY <2>5, <1>0
    <3> QED
      BY <3>1, <3>2
  <2>6. CASE how \in {"close", "silent"}
    <3>1. Outcome(o, Closed(o))
      BY <1>2, <1>3, <1>4, <2>6, ClosedFact
    <3>2. new = Closed(o)
      BY <2>6, <1>0
    <3> QED
      BY <3>1, <3>2, <1>2, SameOutcome
  <2>7. CASE how = "answer"
    <3> DEFINE replies == <<r.q>>
    <3>1. replies \in Seq(Questions) /\ Len(replies) = 1 /\ replies[1] = r.q
      BY <1>1
    <3> HIDE DEF replies
    <3>0. o \in ProcessType /\ o.at = "talking" /\ LinkOK(o) /\ TalkOK(o) /\ replies[1] = o.q
      BY <3>1, <1>2, <1>3
    <3>4. Len(replies) >= 1 /\ (Sure(o.start) => Len(replies) = 1)
      BY <3>1
    <3>2. Outcome(o, Replied(o, replies))
      BY <3>0, <3>1, <3>4, RepliedFact, Zenon
    <3>3. new = Replied(o, replies)
      BY <2>7, <1>0 DEF replies
    <3> QED
      BY <3>2, <3>3, <1>2, SameOutcome
  <2>8. CASE how = "twice"
    <3> DEFINE replies == <<r.q, r.q>>
    <3>1. replies \in Seq(Questions) /\ Len(replies) = 2 /\ replies[1] = r.q
      BY <1>1
    <3> HIDE DEF replies
    <3>0. o \in ProcessType /\ o.at = "talking" /\ LinkOK(o) /\ TalkOK(o) /\ replies[1] = o.q
      BY <3>1, <1>2, <1>3
    <3>4. ~Sure(o.start) /\ Len(replies) >= 1
      BY <3>1, <1>2, <1>4, <2>8
    <3>2. Outcome(o, Replied(o, replies))
      BY <3>0, <3>1, <3>4, RepliedFact, Zenon
    <3>3. new = Replied(o, replies)
      BY <2>8, <1>0 DEF replies
    <3> QED
      BY <3>2, <3>3, <1>2, SameOutcome
  <2> QED
    BY <2>5, <2>6, <2>7, <2>8
<1>10. /\ new \in ProcessType /\ ProcessOK(new, c) /\ new.how = r.how /\ new.count = r.count
       /\ new.at # "closing" => Told(new) = Told(r)
  BY <1>9, OutcomeFact
<1>11. new.at \in {"talking", "answering", "closing"} /\ new.stale = r.stale /\ new.q = r.q
  BY <1>9 DEF Outcome, Same
<1>12. /\ sending \in ProcessType /\ sending.at = "sending" /\ sending.how = r.how
       /\ sending.count = r.count /\ sending.q = r.q /\ sending.reply = new.reply
       /\ sending.link = new.link /\ sending.stale = r.stale
  BY <1>10, <1>11 DEF ProcessType, Places
<1>13. ASSUME sends PROVE ProcessOK(sending, c) /\ Told(sending) = Told(r)
  <2> HIDE DEF sending
  <2>1. LinkOK(sending) /\ TalkOK(sending)
    BY <1>10, <1>12 DEF ProcessOK, LinkOK, TalkOK
  <2>2. ReplyOK(sending)
    BY <1>9, <1>11, <1>12, <1>13 DEF ReplyOK, Outcome, Settled
  <2>3. CountOK(sending, c)
    BY <1>12 DEF ProcessOK, CountOK
  <2>4. Told(sending) = Told(r)
    BY <1>12 DEF Told
  <2> QED
    BY <2>1, <2>2, <2>3, <2>4 DEF ProcessOK
<1>14. CASE sends
  <2>1. After(r, how) = sending /\ Sends(r, how)
    BY <1>14 DEF After, Sends, new
  <2> HIDE DEF sending
  <2> QED
    BY <2>1, <1>12, <1>13, <1>14
<1>15. CASE ~sends
  <2>1. After(r, how) = new /\ ~Sends(r, how)
    BY <1>15 DEF After, Sends, new
  <2> QED
    BY <2>1, <1>10, <1>11
<1> QED
  BY <1>14, <1>15

\* Send: the cache of the process has it, and the answer is settled.
LEMMA SendFact ==
    ASSUME NEW c \in Clients, NEW r \in ProcessType, ProcessOK(r, c), r.at = "sending"
    PROVE  LET r2 == Settle([r EXCEPT !.cache[r.q] = "fresh"], r.reply)
           IN /\ r2 \in ProcessType /\ ProcessOK(r2, c) /\ r2.at \in {"answering", "closing"}
              /\ r2.how = r.how /\ r2.count = r.count
              /\ r2.at # "closing" => Told(r2) = Told(r)
<1> DEFINE cache2 == [r.cache EXCEPT ![r.q] = "fresh"]
           o == [r EXCEPT !.cache = cache2]
<1>1. r.q \in Questions /\ r.cache \in [Questions -> Kept] /\ r.reply \in Questions \cup Replies
      /\ LinkOK(r) /\ ReplyOK(r)
  BY DEF ProcessType, ProcessOK
<1>2. cache2 \in [Questions -> Kept]
  BY <1>1 DEF Kept
<1> HIDE DEF cache2
<1>3. Same(r, o) /\ o.link = r.link
  BY <1>2 DEF Same, ProcessType
<1> HIDE DEF o
<1>4. o \in ProcessType /\ LinkOK(o) /\ o.q = r.q
  BY <1>1, <1>3 DEF Same, LinkOK
<1>5. (r.reply \in Questions => r.reply = o.q) /\ (r.reply = "failed" => NoneSure)
  BY <1>1, <1>4 DEF ReplyOK
<1>6. Outcome(o, Settle(o, r.reply))
  BY <1>1, <1>4, <1>5, SettleFact
<1>7. Outcome(r, Settle(o, r.reply))
  BY <1>3, <1>6, SameOutcome
<1>8. o = [r EXCEPT !.cache[r.q] = "fresh"]
  BY DEF o, cache2, ProcessType
<1>9. Settle(o, r.reply).at \in {"closing", "answering"}
  <2>1. Settle(o, r.reply) = [o EXCEPT !.at = IF o.stale THEN "closing" ELSE "answering", !.reply = r.reply]
    BY DEF Settle
  <2>2. "at" \in DOMAIN o /\ "reply" \in DOMAIN o
    BY <1>4 DEF ProcessType
  <2> QED
    BY <2>1, <2>2
<1> QED
  BY <1>7, <1>8, <1>9, OutcomeFact

-----------------------------------------------------------------------------
(* A step of one process: what it leaves alone.                             *)

\* The process of c goes on as r2; of the parent it may only end the wait.
OnlyMoves(c, r2) ==
    /\ child' = [child EXCEPT ![c] = r2]
    /\ UNCHANGED <<queue, pids, pipes, metric, cache, up, taken>>
    /\ busy' = IF child[c].at = "starting" THEN Nobody ELSE busy
    /\ \A d \in Clients \ {c} :
          wire'[d] = wire[d] /\ learned'[d] = learned[d] /\ answers'[d] = answers[d]

LEMMA Others ==
    ASSUME Types, NEW c \in Clients, NEW r2 \in ProcessType, OnlyMoves(c, r2)
    PROVE  /\ child' \in [Clients -> ProcessType] /\ child'[c] = r2
           /\ \A d \in Clients \ {c} : child'[d] = child[d]
           /\ \A d \in Clients : (PipeOpen(d))' = PipeOpen(d)
           /\ \A d \in Clients \ {c} : (Live(d))' = Live(d)
           /\ ParentTypes'
<1>1. child \in [Clients -> ProcessType]
  BY DEF Types, ProcessTypes
<1>2. \A d \in Clients : (PipeOpen(d))' = PipeOpen(d)
  BY DEF OnlyMoves, PipeOpen
<1>3. /\ child' \in [Clients -> ProcessType] /\ child'[c] = r2
      /\ \A d \in Clients \ {c} : child'[d] = child[d]
  BY <1>1 DEF OnlyMoves
<1>4. ParentTypes'
  BY DEF OnlyMoves, Types, ParentTypes
<1>5. \A d \in Clients \ {c} : (Live(d))' = Live(d)
  BY <1>3 DEF Live
<1> QED
  BY <1>2, <1>3, <1>4, <1>5

\* Slots do not change, and a process that was found is found.
LEMMA SlotKept ==
    ASSUME Types, SlotInv, Counted, NEW c \in Clients, Live(c), NEW r2 \in ProcessType,
           r2.at # "none", OnlyMoves(c, r2)
    PROVE  SlotInv' /\ Counted'
<1>1. /\ child'[c] = r2 /\ \A d \in Clients \ {c} : child'[d] = child[d]
      /\ \A d \in Clients \ {c} : (Live(d))' = Live(d)
  BY Others
<1>2. queue' = queue /\ pids' = pids /\ pipes' = pipes /\ metric' = metric
  BY DEF OnlyMoves
<1>3. child[c].at # "none"
  BY DEF Live
<1>4. QueueInv'
  <2>1. \A j \in 1 .. Len(queue) : queue[j] \in Clients
    BY DEF Types, ParentTypes
  <2> QED
    BY <1>1, <1>2, <1>3, <2>1 DEF SlotInv, QueueInv
<1>5. OneSlot' /\ SlotsAgree'
  BY <1>2 DEF SlotInv, OneSlot, SlotsAgree, Holds
<1>6. Started'
  BY <1>1, <1>2 DEF SlotInv, Started, Holds
<1>7. Found'
  BY <1>1, <1>2 DEF SlotInv, Found
<1>8. Counted'
  BY <1>2 DEF Counted, InUse
<1> QED
  BY <1>4, <1>5, <1>6, <1>7, <1>8 DEF SlotInv

LEMMA RestKept ==
    ASSUME Types, FreshInv, ProcessInv, AnswerInv, NEW c \in Clients, NEW r2 \in ProcessType,
           r2.at # "none", ProcessOK(r2, c), OnlyMoves(c, r2), (AnswerOK(c))'
    PROVE  FreshInv' /\ ProcessInv' /\ AnswerInv'
<1>1. /\ child'[c] = r2 /\ \A d \in Clients \ {c} : child'[d] = child[d]
      /\ \A d \in Clients \ {c} : (Live(d))' = Live(d)
  BY Others
<1>2. taken' = taken /\ \A d \in Clients \ {c} :
          wire'[d] = wire[d] /\ learned'[d] = learned[d] /\ answers'[d] = answers[d]
  BY DEF OnlyMoves
<1>3. FreshInv'
  BY <1>1, <1>2 DEF FreshInv
<1>4. ProcessInv'
  BY <1>1 DEF ProcessInv
<1>5. ASSUME NEW d \in Clients PROVE (AnswerOK(d))'
  <2>1. CASE d # c
    BY <2>1, <1>1, <1>2 DEF AnswerInv, AnswerOK
  <2> QED
    BY <2>1
<1> QED
  BY <1>3, <1>4, <1>5 DEF AnswerInv

\* What the process of c writes: nothing, the first half of an answer, or the second.
Writes(c, r2, x) ==
    \/ /\ wire'[c] = wire[c] /\ learned'[c] = learned[c]
       /\ r2.at = "zombie" \/ (r2.at = "sending" <=> child[c].at = "sending")
    \/ /\ child[c].at # "sending" /\ r2.at = "sending"
       /\ wire'[c] = Append(wire[c], x) /\ learned'[c] = learned[c]
    \/ /\ child[c].at = "sending" /\ r2.at # "sending"
       /\ wire'[c] = Append(wire[c], x) /\ learned'[c] = Append(learned[c], x)

\* The lengths in question are numbers.
LEMMA Lengths ==
    ASSUME PipeTypes, NEW d \in Clients
    PROVE  /\ Len(wire[d]) \in Nat /\ Len(learned[d]) \in Nat /\ Len(taken[d]) \in Nat
           /\ TakenHalves(d) \in Nat
           /\ wire[d] \in Seq(Questions) /\ learned[d] \in Seq(Questions) /\ taken[d] \in Seq(Questions)
<1>1. wire[d] \in Seq(Questions) /\ learned[d] \in Seq(Questions) /\ taken[d] \in Seq(Questions)
  BY DEF PipeTypes
<1>2. Len(wire[d]) \in Nat /\ Len(learned[d]) \in Nat /\ Len(taken[d]) \in Nat
  BY <1>1, LenProperties
<1>3. TakenHalves(d) \in Nat
  <2> DEFINE n == Len(taken[d])
             h == IF busy = d /\ child[d].at # "starting" THEN 1 ELSE 0
  <2>1. n \in Nat /\ h \in Nat
    BY <1>2
  <2>2. TakenHalves(d) = 2 * n + h
    BY DEF TakenHalves
  <2> HIDE DEF n, h
  <2> QED
    BY <2>1, <2>2
<1> QED
  BY <1>1, <1>2, <1>3

LEMMA PipeKept ==
    ASSUME Types, SlotInv, PipeInv, NEW c \in Clients, Live(c), NEW r2 \in ProcessType,
           r2.at \notin {"none", "starting"}, OnlyMoves(c, r2), NEW x \in Questions, Writes(c, r2, x)
    PROVE  PipeInv'
<1>1. /\ child'[c] = r2 /\ \A d \in Clients \ {c} : child'[d] = child[d]
      /\ \A d \in Clients : (PipeOpen(d))' = PipeOpen(d)
      /\ \A d \in Clients \ {c} : (Live(d))' = Live(d)
  BY Others
<1>2. /\ taken' = taken /\ up' = up
      /\ \A d \in Clients \ {c} : wire'[d] = wire[d] /\ learned'[d] = learned[d]
      /\ busy' = IF child[c].at = "starting" THEN Nobody ELSE busy
  BY DEF OnlyMoves
<1>3. child[c].at = "starting" => busy = c
  BY DEF PipeInv, BusyInv
<1>4. \A d \in Clients : (TakenHalves(d))' = TakenHalves(d)
  <2> SUFFICES ASSUME NEW d \in Clients PROVE (TakenHalves(d))' = TakenHalves(d)
    OBVIOUS
  <2>1. (busy' = d /\ child'[d].at # "starting") <=> (busy = d /\ child[d].at # "starting")
    <3>1. Nobody \notin Clients
      BY DnsTcpAssumption
    <3> QED
      BY <3>1, <1>1, <1>2, <1>3
  <2> QED
    BY <2>1, <1>2 DEF TakenHalves
<1>5. BusyInv'
  BY <1>1, <1>2, <1>3 DEF PipeInv, BusyInv
<1>6. PipeOpen(c)
  BY DEF SlotInv, Found, PipeOpen
<1>7. PipeTypes
  BY DEF Types
<1> DEFINE sent == TakenHalves(c) + Len(wire[c])
           sent2 == TakenHalves(c) + Len(wire'[c])
<1>8. sent = 2 * Len(learned[c]) + (IF child[c].at = "sending" THEN 1 ELSE 0)
  BY <1>6 DEF PipeInv, HalvesInv
<1>9. /\ Len(wire[c]) \in Nat /\ Len(learned[c]) \in Nat /\ Len(taken[c]) \in Nat
      /\ TakenHalves(c) \in Nat
      /\ wire[c] \in Seq(Questions) /\ learned[c] \in Seq(Questions) /\ taken[c] \in Seq(Questions)
  BY <1>7, Lengths
<1>10. /\ Len(Append(wire[c], x)) = Len(wire[c]) + 1
       /\ \A i \in 1 .. Len(wire[c]) : Append(wire[c], x)[i] = wire[c][i]
       /\ Append(wire[c], x)[Len(wire[c]) + 1] = x
       /\ Len(Append(learned[c], x)) = Len(learned[c]) + 1
       /\ \A i \in 1 .. Len(learned[c]) : Append(learned[c], x)[i] = learned[c][i]
       /\ Append(learned[c], x)[Len(learned[c]) + 1] = x
  BY <1>9, AppendProperties
<1>11. /\ sent2 = 2 * Len(learned'[c]) \/ sent2 = 2 * Len(learned'[c]) + 1
       /\ r2.at # "zombie" => sent2 = 2 * Len(learned'[c]) + (IF r2.at = "sending" THEN 1 ELSE 0)
  <2> DEFINE t == TakenHalves(c)   a == Len(wire[c])   m == Len(learned[c])
             a2 == Len(wire'[c])   m2 == Len(learned'[c])
  <2>1. t \in Nat /\ a \in Nat /\ m \in Nat /\ t + a = 2 * m + (IF child[c].at = "sending" THEN 1 ELSE 0)
    BY <1>8, <1>9
  <2>2. \/ a2 = a /\ m2 = m /\ (r2.at = "zombie" \/ (r2.at = "sending" <=> child[c].at = "sending"))
        \/ a2 = a + 1 /\ m2 = m /\ child[c].at # "sending" /\ r2.at = "sending"
        \/ a2 = a + 1 /\ m2 = m + 1 /\ child[c].at = "sending" /\ r2.at # "sending"
    BY <1>10 DEF Writes
  <2> HIDE DEF t, a, m, a2, m2
  <2>3. /\ t + a2 = 2 * m2 \/ t + a2 = 2 * m2 + 1
        /\ r2.at # "zombie" => t + a2 = 2 * m2 + (IF r2.at = "sending" THEN 1 ELSE 0)
    BY <2>1, <2>2
  <2> QED
    BY <2>3 DEF t, a, m, a2, m2
<1>12. HalvesInv'
  <2> SUFFICES ASSUME NEW d \in Clients, (PipeOpen(d))'
               PROVE  LET s == TakenHalves(d) + Len(wire'[d])
                      IN /\ s = 2 * Len(learned'[d]) \/ s = 2 * Len(learned'[d]) + 1
                         /\ (Live(d))' => s = 2 * Len(learned'[d]) + (IF child'[d].at = "sending" THEN 1 ELSE 0)
    BY <1>4 DEF HalvesInv
  <2>1. CASE d = c
    BY <2>1, <1>1, <1>11 DEF Live
  <2>2. CASE d # c
    BY <2>2, <1>1, <1>2 DEF PipeInv, HalvesInv
  <2> QED
    BY <2>1, <2>2
<1>13. ASSUME NEW j \in 1 .. Len(wire'[c]), NEW n \in 1 .. Len(learned'[c]), TakenHalves(c) + j = 2 * n
       PROVE  wire'[c][j] = learned'[c][n]
  <2>1. \A i \in 1 .. Len(wire[c]) : \A m \in 1 .. Len(learned[c]) :
            TakenHalves(c) + i = 2 * m => wire[c][i] = learned[c][m]
    BY <1>6 DEF PipeInv, WireInv
  <2>2. CASE wire'[c] = wire[c] /\ learned'[c] = learned[c]
    BY <2>1, <2>2, <1>13
  <2>3. CASE /\ child[c].at # "sending" /\ wire'[c] = Append(wire[c], x) /\ learned'[c] = learned[c]
    <3>1. j \in 1 .. Len(wire[c])
      BY <2>3, <1>8, <1>9, <1>10, <1>13
    <3> QED
      BY <3>1, <2>1, <2>3, <1>10, <1>13
  <2>4. CASE /\ child[c].at = "sending" /\ wire'[c] = Append(wire[c], x)
             /\ learned'[c] = Append(learned[c], x)
    <3>1. \/ j \in 1 .. Len(wire[c]) /\ n \in 1 .. Len(learned[c])
          \/ j = Len(wire[c]) + 1 /\ n = Len(learned[c]) + 1
      <4> DEFINE t == TakenHalves(c)   a == Len(wire[c])   m == Len(learned[c])
      <4>1. t \in Nat /\ a \in Nat /\ m \in Nat /\ t + a = 2 * m + 1
        BY <2>4, <1>8, <1>9
      <4>2. j \in 1 .. a + 1 /\ n \in 1 .. m + 1 /\ t + j = 2 * n
        BY <2>4, <1>10, <1>13
      <4> HIDE DEF t, a, m
      <4>3. (j \in 1 .. a /\ n \in 1 .. m) \/ (j = a + 1 /\ n = m + 1)
        BY <4>1, <4>2
      <4> QED
        BY <4>3 DEF a, m
    <3> QED
      BY <3>1, <2>1, <2>4, <1>10, <1>13
  <2> QED
    BY <2>2, <2>3, <2>4 DEF Writes
<1>14. WireInv'
  <2> SUFFICES ASSUME NEW d \in Clients, (PipeOpen(d))',
                      NEW j \in 1 .. Len(wire'[d]), NEW n \in 1 .. Len(learned'[d]),
                      TakenHalves(d) + j = 2 * n
               PROVE  wire'[d][j] = learned'[d][n]
    BY <1>4 DEF WireInv
  <2>1. CASE d = c
    BY <2>1, <1>13
  <2>2. CASE d # c
    BY <2>2, <1>1, <1>2 DEF PipeInv, WireInv
  <2> QED
    BY <2>1, <2>2
<1>15. TakenInv'
  <2>1. TakenInv
    BY DEF PipeInv
  <2> SUFFICES ASSUME NEW d \in Clients
               PROVE  /\ Len(taken[d]) <= Len(learned'[d])
                      /\ \A n \in 1 .. Len(taken[d]) : taken[d][n] = learned'[d][n]
    BY <1>2 DEF TakenInv
  <2>2. CASE learned'[d] = learned[d]
    BY <2>1, <2>2 DEF TakenInv
  <2>3. CASE d = c /\ learned'[c] = Append(learned[c], x)
    BY <2>1, <2>3, <1>9, <1>10 DEF TakenInv
  <2> QED
    BY <2>2, <2>3, <1>2 DEF Writes
<1>16. ClosedInv'
  <2>1. ClosedInv
    BY DEF PipeInv
  <2> QED
    BY <2>1, <1>1, <1>2, <1>6 DEF ClosedInv
<1> QED
  BY <1>5, <1>12, <1>14, <1>15, <1>16 DEF PipeInv

LEMMA ProcessStep ==
    ASSUME IInv, NEW c \in Clients, Live(c), NEW r2 \in ProcessType,
           r2.at \notin {"none", "starting"}, ProcessOK(r2, c), OnlyMoves(c, r2),
           PipeTypes', AnswerTypes', NEW x \in Questions, Writes(c, r2, x), (AnswerOK(c))'
    PROVE  IInv'
<1>1. Types'
  BY Others DEF IInv, Types, ProcessTypes
<1>2. SlotInv' /\ Counted'
  BY SlotKept DEF IInv
<1>3. FreshInv' /\ ProcessInv' /\ AnswerInv'
  BY RestKept DEF IInv
<1>4. PipeInv'
  BY PipeKept DEF IInv
<1> QED
  BY <1>1, <1>2, <1>3, <1>4 DEF IInv

\* Nothing is told: the answers stay right.
LEMMA AnswerKept ==
    ASSUME AnswerInv, ProcessTypes, NEW c \in Clients, Live(c), NEW r2 \in ProcessType,
           child' = [child EXCEPT ![c] = r2], answers' = answers, r2.count >= child[c].count,
           r2.at \in {"closing", "zombie"} \/ (child[c].at # "closing" /\ Told(r2) = Told(child[c]))
    PROVE  (AnswerOK(c))'
<1>1. child'[c] = r2 /\ child[c] \in ProcessType
  BY DEF ProcessTypes
<1>2. AnswerOK(c)
  BY DEF AnswerInv
<1>3. r2.count \in Nat /\ child[c].count \in Nat
  BY <1>1 DEF ProcessType
<1>4. (Live(c))' /\ child'[c].at # "closing" => child[c].at # "closing" /\ Told(r2) = Told(child[c])
  BY <1>1 DEF Live
<1>5. Len(answers[c]) <= r2.count
  <2> DEFINE n == Len(answers[c])
  <2>1. n <= child[c].count /\ n \in Int
    <3>1. n <= child[c].count
      BY <1>2 DEF AnswerOK
    <3> QED
      BY <3>1
  <2> HIDE DEF n
  <2> QED
    BY <2>1, <1>3 DEF n
<1> QED
  BY <1>1, <1>2, <1>4, <1>5 DEF AnswerOK

\* The reply that was settled is told.
LEMMA AnswerTold ==
    ASSUME IInv, NEW c \in Clients, child[c].at = "answering", NEW r2 \in ProcessType,
           child' = [child EXCEPT ![c] = r2], Tell(c, child[c].reply),
           r2.count = child[c].count, Told(r2) = Told(child[c]) + 1
    PROVE  (AnswerOK(c))' /\ AnswerTypes'
<1> DEFINE r == child[c]
           a == [q |-> r.q, what |-> r.reply]
           old == answers[c]
           Answer == [q : Questions, what : Questions \cup Replies]
<1>1. r \in ProcessType /\ child'[c] = r2
  BY DEF IInv, Types, ProcessTypes
<1>2. a \in Answer /\ old \in Seq(Answer) /\ answers \in [Clients -> Seq(Answer)]
  BY <1>1 DEF IInv, Types, AnswerTypes, ProcessType
<1>3. answers' = [answers EXCEPT ![c] = Append(old, a)]
  BY DEF Tell
<1>4. a.q = r.q /\ a.what = r.reply
  OBVIOUS
<1>5. ReplyOK(r) /\ r.count >= 1 /\ r.q = Asks[c][r.count]
  BY DEF IInv, ProcessInv, ProcessOK, CountOK
<1>6. AnswerOK(c) /\ Live(c)
  BY DEF IInv, AnswerInv, Live
<1> HIDE DEF a
<1>7. Len(old) = r.count - 1 /\ Told(r) = r.count - 1
  BY <1>6 DEF AnswerOK, Told
<1> HIDE DEF old, Answer
<1>8. /\ Append(old, a) \in Seq(Answer) /\ Len(Append(old, a)) = Len(old) + 1
      /\ \A i \in 1 .. Len(old) : Append(old, a)[i] = old[i]
      /\ Append(old, a)[Len(old) + 1] = a
  BY <1>2, AppendProperties
<1>9. answers' \in [Clients -> Seq(Answer)] /\ answers'[c] = Append(old, a)
  BY <1>2, <1>3, <1>8
<1>10. r.count \in Nat
  BY <1>1 DEF ProcessType
<1>11. Len(answers'[c]) = r2.count /\ Told(r2) = r2.count
  BY <1>7, <1>8, <1>9, <1>10
<1>12. ASSUME NEW n \in 1 .. Len(answers'[c])
       PROVE  /\ answers'[c][n].q = Asks[c][n]
              /\ answers'[c][n].what \in Questions => answers'[c][n].what = Asks[c][n]
              /\ answers'[c][n].what = "failed" => NoneSure
  <2>1. CASE n = r.count
    <3>1. answers'[c][n] = a
      BY <2>1, <1>7, <1>8, <1>9, <1>10
    <3>2. r.reply \in Questions => r.reply = r.q
      BY <1>5 DEF ReplyOK
    <3>3. r.reply = "failed" => NoneSure
      BY <1>5 DEF ReplyOK
    <3> QED
      BY <3>1, <3>2, <3>3, <2>1, <1>4, <1>5
  <2>2. CASE n # r.count
    <3>1. n \in 1 .. Len(old)
      BY <2>2, <1>7, <1>10, <1>11
    <3>2. answers'[c][n] = answers[c][n]
      BY <3>1, <1>8, <1>9 DEF old
    <3> QED
      BY <3>1, <3>2, <1>6 DEF AnswerOK, old
  <2> QED
    BY <2>1, <2>2
<1>13. AnswerTypes'
  BY <1>9 DEF AnswerTypes, Answer
<1>14. Len(answers'[c]) <= r2.count
  BY <1>10, <1>11
<1> QED
  BY <1>1, <1>11, <1>12, <1>13, <1>14 DEF AnswerOK

-----------------------------------------------------------------------------
(* The actions of a process.                                                *)

LEMMA ChildFacts ==
    ASSUME IInv, NEW c \in Clients
    PROVE  /\ child[c] \in ProcessType /\ ProcessOK(child[c], c)
           /\ AnswerTypes /\ AnswerInv /\ ProcessTypes /\ PipeTypes
           /\ child[c].q \in Questions
BY DEF IInv, Types, ProcessTypes, ProcessInv, ProcessType

LEMMA BeginStep ==
    ASSUME IInv, NEW c \in Clients, Begin(c)
    PROVE  IInv'
<1> DEFINE r == child[c]
           r2 == [r EXCEPT !.at = "reading"]
<1>1. r \in ProcessType /\ ProcessOK(r, c) /\ r.at = "starting"
  BY ChildFacts DEF Begin
<1>2. /\ r2 \in ProcessType /\ r2.at = "reading" /\ r2.count = r.count /\ r2.link = r.link
      /\ r2.stale = r.stale
  BY <1>1 DEF ProcessType, Places
<1>3. child' = [child EXCEPT ![c] = r2] /\ OnlyMoves(c, r2) /\ Writes(c, r2, r.q)
  <2>1. child' = [child EXCEPT ![c] = r2]
    BY DEF Begin, Goes
  <2> HIDE DEF r2
  <2> QED
    BY <2>1, <1>1, <1>2 DEF Begin, OnlyMoves, Quiet, Writes
<1> HIDE DEF r2
<1>4. ProcessOK(r2, c) /\ Told(r2) = Told(r)
  <2>1. CountOK(r, c) /\ LinkOK(r)
    BY <1>1 DEF ProcessOK
  <2>2. CountOK(r2, c)
    BY <2>1, <1>1, <1>2 DEF CountOK
  <2> QED
    BY <2>1, <2>2, <1>1, <1>2 DEF ProcessOK, ReplyOK, LinkOK, TalkOK, Told
<1>5. Live(c) /\ PipeTypes' /\ AnswerTypes' /\ answers' = answers
  BY <1>1, ChildFacts DEF Begin, Live, PipeTypes, AnswerTypes, Quiet
<1>6. r2.count >= r.count
  BY <1>1, <1>2 DEF ProcessType
<1>7. (AnswerOK(c))'
  BY <1>1, <1>2, <1>3, <1>4, <1>5, <1>6, AnswerKept, ChildFacts
<1> QED
  BY <1>1, <1>2, <1>3, <1>4, <1>5, <1>7, ProcessStep, ChildFacts

LEMMA ReadQueryStep ==
    ASSUME IInv, NEW c \in Clients, ReadQuery(c)
    PROVE  IInv'
<1> DEFINE r == child[c]
           q == Asks[c][r.count + 1]
           kept == r.cache[q]
           asked == [r EXCEPT !.count = r.count + 1, !.q = q]
           r2 == CASE kept = "fresh" -> [asked EXCEPT !.at = "answering", !.reply = "cached"]
                   [] kept = "stale" -> [asked EXCEPT !.at = "answering", !.reply = "stale", !.stale = TRUE]
                   [] kept = "none" -> [asked EXCEPT !.at = "talking", !.start = StartAt(r),
                                                     !.first = StartAt(r)]
<1>1. r \in ProcessType /\ ProcessOK(r, c) /\ r.at = "reading" /\ r.q \in Questions
  BY ChildFacts DEF ReadQuery
<1>2. r.count < MaxQueries /\ r.count + 1 <= Len(Asks[c])
  BY DEF ReadQuery
<1>3. child' = [child EXCEPT ![c] = r2]
  BY DEF ReadQuery, Goes
<1>4. /\ r2 \in ProcessType /\ ProcessOK(r2, c) /\ r2.at \in {"answering", "talking"}
      /\ Told(r2) = Told(r) /\ r2.count = r.count + 1
  <2> HIDE DEF r
  <2> QED
    BY <1>1, <1>2, ReadQueryFact
<1> HIDE DEF r2
<1>5. OnlyMoves(c, r2) /\ Writes(c, r2, r.q)
  BY <1>1, <1>3, <1>4 DEF ReadQuery, OnlyMoves, Quiet, Writes
<1>6. Live(c) /\ PipeTypes' /\ AnswerTypes' /\ answers' = answers
  BY <1>1, ChildFacts DEF ReadQuery, Live, PipeTypes, AnswerTypes, Quiet
<1>7. r2.count >= r.count
  BY <1>1, <1>4 DEF ProcessType
<1>8. (AnswerOK(c))'
  BY <1>1, <1>3, <1>4, <1>6, <1>7, AnswerKept, ChildFacts
<1> QED
  BY <1>1, <1>4, <1>5, <1>6, <1>8, ProcessStep, ChildFacts

LEMMA TryStep ==
    ASSUME IInv, NEW c \in Clients, NEW how \in {"answer", "twice", "close", "silent", "down"}, Try(c, how)
    PROVE  IInv'
<1> DEFINE r == child[c]
           r2 == After(r, how)
           sends == Sends(r, how)
<1>1. r \in ProcessType /\ ProcessOK(r, c) /\ r.at = "talking" /\ how \in Conduct[r.start] /\ r.q \in Questions
  BY ChildFacts DEF Try
<1>2. child' = [child EXCEPT ![c] = r2]
  BY DEF Try, Goes, After, Sends, Outcomes
<1>3. wire' = IF sends THEN [wire EXCEPT ![c] = Append(@, r.q)] ELSE wire
  BY DEF Try, Sends, Outcomes
<1>4. /\ r2 \in ProcessType /\ ProcessOK(r2, c)
      /\ r2.at \in {"talking", "answering", "sending", "closing"}
      /\ r2.at = "sending" <=> sends
      /\ r2.count = r.count
      /\ r2.at # "closing" => Told(r2) = Told(r)
  BY <1>1, TryFact
<1> HIDE DEF r2, sends
<1>5. PipeTypes /\ wire[c] \in Seq(Questions) /\ wire \in [Clients -> Seq(Questions)]
  BY ChildFacts DEF PipeTypes
<1>6. /\ \A d \in Clients \ {c} : wire'[d] = wire[d]
      /\ wire'[c] = IF sends THEN Append(wire[c], r.q) ELSE wire[c]
      /\ wire' \in [Clients -> Seq(Questions)]
  BY <1>1, <1>3, <1>5
<1>7. OnlyMoves(c, r2) /\ Writes(c, r2, r.q)
  BY <1>1, <1>2, <1>4, <1>6 DEF Try, OnlyMoves, Quiet, Writes
<1>8. Live(c) /\ PipeTypes' /\ AnswerTypes' /\ answers' = answers
  BY <1>1, <1>5, <1>6, ChildFacts DEF Try, Live, PipeTypes, AnswerTypes, Quiet
<1>9. r2.count >= r.count
  BY <1>1, <1>4 DEF ProcessType
<1>10. (AnswerOK(c))'
  BY <1>1, <1>2, <1>4, <1>8, <1>9, AnswerKept, ChildFacts
<1> QED
  BY <1>1, <1>4, <1>7, <1>8, <1>10, ProcessStep, ChildFacts

LEMMA SendStep ==
    ASSUME IInv, NEW c \in Clients, Send(c)
    PROVE  IInv'
<1> DEFINE r == child[c]
           r2 == Settle([r EXCEPT !.cache[r.q] = "fresh"], r.reply)
<1>1. r \in ProcessType /\ ProcessOK(r, c) /\ r.at = "sending" /\ r.q \in Questions
  BY ChildFacts DEF Send
<1>2. child' = [child EXCEPT ![c] = r2]
  BY DEF Send, Goes
<1>3. /\ r2 \in ProcessType /\ ProcessOK(r2, c) /\ r2.at \in {"answering", "closing"}
      /\ r2.count = r.count
      /\ r2.at # "closing" => Told(r2) = Told(r)
  <2> HIDE DEF r
  <2> QED
    BY <1>1, SendFact
<1> HIDE DEF r2
<1>4. PipeTypes /\ wire \in [Clients -> Seq(Questions)] /\ learned \in [Clients -> Seq(Questions)]
  BY ChildFacts DEF PipeTypes
<1>5. /\ wire' = [wire EXCEPT ![c] = Append(@, r.q)]
      /\ learned' = [learned EXCEPT ![c] = Append(@, r.q)]
  BY DEF Send
<1>6. /\ \A d \in Clients \ {c} : wire'[d] = wire[d] /\ learned'[d] = learned[d]
      /\ wire'[c] = Append(wire[c], r.q) /\ learned'[c] = Append(learned[c], r.q)
      /\ wire' \in [Clients -> Seq(Questions)] /\ learned' \in [Clients -> Seq(Questions)]
  BY <1>1, <1>4, <1>5
<1>7. OnlyMoves(c, r2) /\ Writes(c, r2, r.q)
  BY <1>1, <1>2, <1>3, <1>6 DEF Send, OnlyMoves, Quiet, Writes
<1>8. Live(c) /\ PipeTypes' /\ AnswerTypes' /\ answers' = answers
  BY <1>1, <1>4, <1>6, ChildFacts DEF Send, Live, PipeTypes, AnswerTypes, Quiet
<1>9. r2.count >= r.count
  BY <1>1, <1>3 DEF ProcessType
<1>10. (AnswerOK(c))'
  BY <1>1, <1>2, <1>3, <1>8, <1>9, AnswerKept, ChildFacts
<1> QED
  BY <1>1, <1>3, <1>7, <1>8, <1>10, ProcessStep, ChildFacts

LEMMA AnswerClientStep ==
    ASSUME IInv, NEW c \in Clients, AnswerClient(c)
    PROVE  IInv'
<1> DEFINE r == child[c]
           closing == [r EXCEPT !.at = "closing"]
           again == [r EXCEPT !.at = "talking", !.start = StartAt(r), !.first = StartAt(r)]
           reading == [r EXCEPT !.at = "reading"]
           r2 == IF c \in gone THEN closing ELSE IF r.stale THEN again ELSE reading
<1>1. r \in ProcessType /\ ProcessOK(r, c) /\ r.at = "answering" /\ r.q \in Questions /\ Live(c)
  BY ChildFacts DEF AnswerClient, Live
<1>2. child' = [child EXCEPT ![c] = r2]
  BY DEF AnswerClient, Goes
<1>3. /\ closing \in ProcessType /\ ProcessOK(closing, c)
      /\ closing.at = "closing" /\ closing.how = r.how /\ closing.count = r.count
      /\ r.stale =>
            /\ again \in ProcessType /\ ProcessOK(again, c) /\ Told(again) = Told(r) + 1
            /\ again.at = "talking" /\ again.how = r.how /\ again.count = r.count
      /\ ~r.stale =>
            /\ reading \in ProcessType /\ ProcessOK(reading, c) /\ Told(reading) = Told(r) + 1
            /\ reading.at = "reading" /\ reading.how = r.how /\ reading.count = r.count
  BY <1>1, AnswerFact
<1> HIDE DEF closing, again, reading
<1>4. /\ r2 \in ProcessType /\ ProcessOK(r2, c) /\ r2.at \in {"closing", "talking", "reading"}
      /\ r2.count = r.count
      /\ c \in gone => r2.at = "closing"
      /\ c \notin gone => Told(r2) = Told(r) + 1
  BY <1>3
<1> HIDE DEF r2
<1>5. answers' = IF c \in gone THEN answers
                 ELSE [answers EXCEPT ![c] = Append(@, [q |-> r.q, what |-> r.reply])]
  BY DEF AnswerClient, Tell
<1>6. \A d \in Clients \ {c} : answers'[d] = answers[d]
  <2>1. AnswerTypes
    BY ChildFacts
  <2> QED
    BY <2>1, <1>5 DEF AnswerTypes
<1>7. OnlyMoves(c, r2) /\ Writes(c, r2, r.q) /\ PipeTypes'
  <2>1. PipeTypes
    BY ChildFacts
  <2> QED
    BY <2>1, <1>1, <1>2, <1>4, <1>6 DEF AnswerClient, OnlyMoves, Quiet, Writes, PipeTypes
<1>8. (AnswerOK(c))' /\ AnswerTypes'
  <2>1. CASE c \in gone
    <3>1. answers' = answers
      BY <2>1, <1>5
    <3>2. r2.count >= r.count
      BY <1>1, <1>4 DEF ProcessType
    <3> QED
      BY <2>1, <3>1, <3>2, <1>1, <1>2, <1>4, AnswerKept, ChildFacts DEF AnswerTypes
  <2>2. CASE c \notin gone
    <3>1. Tell(c, child[c].reply)
      BY <2>2, <1>5 DEF Tell
    <3> QED
      BY <2>2, <3>1, <1>1, <1>2, <1>4, AnswerTold
  <2> QED
    BY <2>1, <2>2
<1> QED
  BY <1>1, <1>4, <1>7, <1>8, ProcessStep

\* Close, Alarm and Crash: the process ends, wherever it is.
LEMMA ExitStep ==
    ASSUME IInv, NEW c \in Clients, Live(c), NEW how \in {"exit", "killed"}, Exit(c, how),
           Quiet, UNCHANGED <<wire, answers, learned>>
    PROVE  IInv'
<1> DEFINE r == child[c]
           r2 == [r EXCEPT !.at = "zombie", !.how = how]
<1>1. r \in ProcessType /\ ProcessOK(r, c) /\ r.q \in Questions
  BY ChildFacts
<1>2. r2 \in ProcessType /\ r2.at = "zombie" /\ r2.count = r.count /\ r2.link = r.link
  BY <1>1 DEF ProcessType, Places
<1>3. child' = [child EXCEPT ![c] = r2]
  BY DEF Exit, Goes
<1>4. busy' = IF child[c].at = "starting" THEN Nobody ELSE busy
  BY DEF Exit
<1> HIDE DEF r2
<1>5. ProcessOK(r2, c)
  BY <1>1, <1>2 DEF ProcessOK, CountOK, ReplyOK, LinkOK, TalkOK
<1>6. OnlyMoves(c, r2) /\ Writes(c, r2, r.q)
  BY <1>2, <1>3, <1>4 DEF OnlyMoves, Quiet, Writes
<1>7. PipeTypes' /\ AnswerTypes' /\ answers' = answers
  BY ChildFacts DEF PipeTypes, AnswerTypes, Quiet
<1>8. r2.count >= r.count
  BY <1>1, <1>2 DEF ProcessType
<1>9. (AnswerOK(c))'
  BY <1>2, <1>3, <1>7, <1>8, AnswerKept, ChildFacts
<1> QED
  BY <1>1, <1>2, <1>5, <1>6, <1>7, <1>9, ProcessStep

LEMMA StepStep ==
    ASSUME IInv, NEW c \in Clients, Step(c) \/ Alarm(c) \/ Crash(c)
    PROVE  IInv'
<1>1. CASE Close(c)
  <2>1. Live(c) /\ Exit(c, "exit") /\ Quiet /\ UNCHANGED <<wire, answers, learned>>
    BY <1>1 DEF Close, Live
  <2> QED
    BY <2>1, ExitStep
<1>2. CASE Alarm(c)
  BY <1>2, ExitStep DEF Alarm
<1>3. CASE Crash(c)
  BY <1>3, ExitStep DEF Crash
<1> QED
  BY <1>1, <1>2, <1>3, BeginStep, ReadQueryStep, AnswerClientStep, SendStep, TryStep DEF Step

-----------------------------------------------------------------------------
(* The parent lets a process in.                                            *)

LEMMA LeastNumber ==
    ASSUME NEW T \in SUBSET Nat, T # {}
    PROVE  \E n \in T : \A k \in T : n <= k
<1> DEFINE R == {ss \in Nat \X Nat : ss[1] < ss[2]}
<1>1. IsWellFoundedOn(R, Nat)
  BY NatLessThanWellFounded, Zenon DEF OpToRel
<1>2. \E n \in T : \A k \in T : ~ (<<k, n>> \in R)
  <2> HIDE DEF R
  <2> QED
    BY <1>1, WFMin
<1>3. \A k, n \in Nat : <<k, n>> \in R <=> k < n
  OBVIOUS
<1> HIDE DEF R
<1>4. PICK n \in T : \A k \in T : ~ (<<k, n>> \in R)
  BY <1>2
<1>5. ASSUME NEW k \in T PROVE n <= k
  <2>1. ~ (k < n) /\ k \in Nat /\ n \in Nat
    BY <1>3, <1>4, Zenon
  <2> QED
    BY <2>1
<1> QED
  BY <1>5

\* The slot that is taken is a free one.
LEMMA MaxFree ==
    ASSUME FreeSlots # {}
    PROVE  Max(FreeSlots) \in FreeSlots
<1> DEFINE T == {Slots - i : i \in FreeSlots}
<1>1. Slots \in Nat /\ FreeSlots \subseteq 1 .. Slots
  BY DnsTcpAssumption DEF FreeSlots, SlotRange
<1>2. T \subseteq Nat /\ T # {}
  <2>1. \A i \in FreeSlots : Slots - i \in Nat
    BY <1>1
  <2> HIDE DEF FreeSlots
  <2>2. PICK i : i \in FreeSlots
    OBVIOUS
  <2>3. Slots - i \in T
    BY <2>2
  <2> QED
    BY <2>1, <2>3
<1>3. PICK n \in T : \A k \in T : n <= k
  BY <1>2, LeastNumber
<1>4. PICK i \in FreeSlots : n = Slots - i
  BY <1>3
<1>5. ASSUME NEW j \in FreeSlots PROVE i >= j
  <2>1. n <= Slots - j /\ i \in 1 .. Slots /\ j \in 1 .. Slots
    BY <1>1, <1>3, <1>4
  <2> QED
    BY <2>1, <1>1, <1>4
<1>6. \E x \in FreeSlots : \A y \in FreeSlots : x >= y
  BY <1>4, <1>5
<1> QED
  BY <1>6 DEF Max

LEMMA NoChildFact == NoChild \in ProcessType /\ NoChild.at = "none"
<1>1. (CHOOSE q \in Questions : TRUE) \in Questions
  BY Constants
<1>2. NoLink \in LinkType
  BY EmptySeq DEF NoLink, LinkType
<1>3. [s \in DOMAIN Servers |-> NoLink] \in [DOMAIN Servers -> LinkType]
  BY <1>2
<1>4. [q \in Questions |-> "none"] \in [Questions -> Kept]
  BY DEF Kept
<1>5. 1 \in DOMAIN Servers /\ 0 \in 0 .. Len(Servers)
  BY Constants
<1> QED
  BY <1>1, <1>3, <1>4, <1>5, Constants DEF NoChild, ProcessType, Places

\* Everyone starts with no question read, and no reply unread.
LEMMA StartedFact ==
    ASSUME NEW c \in Clients, NEW kept \in [Questions -> Kept]
    PROVE  LET r2 == [NoChild EXCEPT !.at = "starting", !.cache = kept]
           IN /\ r2 \in ProcessType /\ ProcessOK(r2, c) /\ r2.at = "starting" /\ r2.count = 0
              /\ Told(r2) = 0
<1> DEFINE r2 == [NoChild EXCEPT !.at = "starting", !.cache = kept]
<1>1. r2 \in ProcessType /\ r2.at = "starting" /\ r2.link = NoChild.link /\ r2.count = NoChild.count
      /\ r2.stale = NoChild.stale
  BY NoChildFact DEF ProcessType, Places
<1>2. /\ NoChild.count = 0 /\ NoChild.stale = FALSE
      /\ \A s \in DOMAIN Servers : NoChild.link[s].unread = <<>>
  BY DEF NoChild, NoLink
<1> HIDE DEF r2
<1>3. CountOK(r2, c)
  BY <1>1, <1>2, Constants DEF CountOK
<1>4. LinkOK(r2) /\ TalkOK(r2) /\ ReplyOK(r2) /\ Told(r2) = 0
  BY <1>1, <1>2 DEF LinkOK, TalkOK, ReplyOK, Told
<1> QED
  BY <1>1, <1>2, <1>3, <1>4 DEF ProcessOK, r2

\* The rest of the queue.
LEMMA QueueFact ==
    ASSUME ParentTypes, QueueInv, queue # <<>>
    PROVE  /\ Head(queue) \in Clients /\ child[Head(queue)].at = "none"
           /\ Tail(queue) \in Seq(Clients)
           /\ \A j \in 1 .. Len(Tail(queue)) :
                 /\ Tail(queue)[j] # Head(queue) /\ Tail(queue)[j] \in Clients
                 /\ child[Tail(queue)[j]].at = "none"
                 /\ \A k \in 1 .. Len(Tail(queue)) : Tail(queue)[j] = Tail(queue)[k] => j = k
<1>1. queue \in Seq(Clients) /\ Len(queue) \in Nat
  BY DEF ParentTypes
<1>2. /\ Head(queue) \in Clients /\ Tail(queue) \in Seq(Clients) /\ Len(Tail(queue)) = Len(queue) - 1
      /\ \A j \in 1 .. Len(Tail(queue)) : Tail(queue)[j] = queue[j + 1]
  BY <1>1, HeadTailProperties
<1>3. Head(queue) = queue[1] /\ Len(queue) >= 1
  BY <1>1, EmptySeq
<1>4. \A j \in 1 .. Len(Tail(queue)) : j + 1 \in 1 .. Len(queue) /\ j + 1 # 1
  BY <1>1, <1>2
<1>5. \A j \in 1 .. Len(queue) : queue[j] \in Clients /\ child[queue[j]].at = "none"
  BY <1>1 DEF QueueInv
<1>6. \A j, k \in 1 .. Len(queue) : queue[j] = queue[k] => j = k
  BY DEF QueueInv
<1>7. 1 \in 1 .. Len(queue)
  BY <1>1, <1>3
<1> QED
  BY <1>2, <1>3, <1>4, <1>5, <1>6, <1>7

LEMMA AcceptStep ==
    ASSUME IInv, Accept
    PROVE  IInv'
<1>1. /\ busy = Nobody /\ queue # <<>> /\ FreeSlots # {} /\ queue' = Tail(queue)
      /\ UNCHANGED <<cache, event, up, wire, answers, learned, taken>>
  BY DEF Accept, Idle
<1>2. /\ ParentTypes /\ ProcessTypes /\ PipeTypes /\ AnswerTypes /\ QueueInv /\ OneSlot /\ SlotsAgree
      /\ Started /\ Found /\ Counted /\ FreshInv /\ BusyInv /\ HalvesInv /\ WireInv /\ TakenInv
      /\ ClosedInv /\ ProcessInv /\ AnswerInv
  BY DEF IInv, Types, SlotInv, PipeInv
<1>0. PICK c \in Clients, i \in SlotRange : c = Head(queue) /\ i = Max(FreeSlots)
  <2>1. Head(queue) \in Clients
    BY <1>1, <1>2, QueueFact
  <2>2. Max(FreeSlots) \in SlotRange
    BY <1>1, MaxFree DEF FreeSlots
  <2> QED
    BY <2>1, <2>2
<1> DEFINE r2 == [NoChild EXCEPT !.at = "starting", !.cache = cache]
<1>3. /\ c \in Clients /\ child[c].at = "none" /\ Tail(queue) \in Seq(Clients)
      /\ \A j \in 1 .. Len(Tail(queue)) :
            /\ Tail(queue)[j] # c /\ Tail(queue)[j] \in Clients
            /\ child[Tail(queue)[j]].at = "none"
            /\ \A k \in 1 .. Len(Tail(queue)) : Tail(queue)[j] = Tail(queue)[k] => j = k
  BY <1>0, <1>1, <1>2, QueueFact
<1>4. i \in SlotRange /\ pids[i] = Nobody /\ pipes[i] = Nobody
  <2>1. i \in FreeSlots
    BY <1>0, <1>1, MaxFree
  <2> QED
    BY <2>1 DEF FreeSlots, InUse
<1>5. Nobody \notin Clients
  BY DnsTcpAssumption
<1>6. /\ child[c] = NoChild
      /\ taken[c] = <<>> /\ learned[c] = <<>> /\ wire[c] = <<>> /\ answers[c] = <<>>
  BY <1>2, <1>3 DEF FreshInv
<1>7. CASE /\ pids' = [pids EXCEPT ![i] = c] /\ pipes' = [pipes EXCEPT ![i] = c]
           /\ metric' = metric + 1
           /\ busy' = c
           /\ child' = [child EXCEPT ![c].at = "starting", ![c].cache = cache]
  <2>1. cache \in [Questions -> Kept]
    BY <1>2 DEF ParentTypes
  <2>2. r2 \in ProcessType /\ ProcessOK(r2, c) /\ r2.at = "starting" /\ r2.count = 0 /\ Told(r2) = 0
    BY <2>1, <1>3, StartedFact
  <2>3. child' = [child EXCEPT ![c] = r2]
    BY <1>2, <1>3, <1>6, <1>7 DEF ProcessTypes
  <2> HIDE DEF r2
  <2>4. /\ child' \in [Clients -> ProcessType] /\ child'[c] = r2
        /\ \A d \in Clients \ {c} : child'[d] = child[d]
    BY <2>2, <2>3, <1>2, <1>3 DEF ProcessTypes
  <2>5. /\ pids' \in [SlotRange -> Clients \cup {Nobody}] /\ pids'[i] = c
        /\ pipes' \in [SlotRange -> Clients \cup {Nobody}] /\ pipes'[i] = c
        /\ \A j \in SlotRange \ {i} : pids'[j] = pids[j] /\ pipes'[j] = pipes[j]
    BY <1>2, <1>3, <1>4, <1>7 DEF ParentTypes
  <2>6. Types'
    <3>1. ParentTypes'
      BY <1>1, <1>2, <1>3, <1>7, <2>5 DEF ParentTypes
    <3>2. PipeTypes' /\ AnswerTypes'
      BY <1>1, <1>2 DEF PipeTypes, AnswerTypes
    <3> QED
      BY <3>1, <3>2, <2>4 DEF Types, ProcessTypes
  <2>7. \A j \in SlotRange : pids[j] # c /\ pipes[j] # c
    BY <1>2, <1>3 DEF Started, Holds
  <2>8. \A d \in Clients \ {c} : (PipeOpen(d))' = PipeOpen(d) /\ (Live(d))' = Live(d)
                                 /\ (TakenHalves(d))' = TakenHalves(d)
    <3> SUFFICES ASSUME NEW d \in Clients \ {c}
                 PROVE  (PipeOpen(d))' = PipeOpen(d) /\ (Live(d))' = Live(d)
                        /\ (TakenHalves(d))' = TakenHalves(d)
      OBVIOUS
    <3>1. (PipeOpen(d))' = PipeOpen(d)
      BY <1>4, <1>5, <2>5 DEF PipeOpen
    <3>2. (Live(d))' = Live(d)
      BY <2>4 DEF Live
    <3>3. (TakenHalves(d))' = TakenHalves(d)
      BY <1>1, <1>5, <1>7, <2>4 DEF TakenHalves
    <3> QED
      BY <3>1, <3>2, <3>3
  <2>9. QueueInv'
    BY <1>1, <1>3, <2>4 DEF QueueInv
  <2>10. OneSlot' /\ SlotsAgree' /\ Started'
    <3>1. OneSlot'
      BY <1>2, <2>5, <2>7, <1>4, <1>5 DEF OneSlot, Holds
    <3>2. SlotsAgree'
      BY <1>2, <2>5 DEF SlotsAgree
    <3>3. Started'
      BY <1>2, <2>2, <2>4, <2>5 DEF Started, Holds
    <3> QED
      BY <3>1, <3>2, <3>3
  <2>11. Found'
    <3> SUFFICES ASSUME NEW d \in Clients
                 PROVE  /\ (Live(d))' \/ child'[d].at = "zombie" => \E j \in SlotRange : pids'[j] = d
                        /\ (Live(d))' => \E j \in SlotRange : pipes'[j] = d
      BY DEF Found
    <3>1. CASE d = c
      BY <3>1, <1>4, <2>5
    <3>2. CASE d # c
      <4>1. Live(d) \/ child[d].at = "zombie" => \E j \in SlotRange : pids[j] = d
        BY <1>2 DEF Found
      <4>2. Live(d) => \E j \in SlotRange : pipes[j] = d
        BY <1>2 DEF Found
      <4> QED
        BY <3>2, <4>1, <4>2, <1>4, <1>5, <2>4, <2>5, <2>8
    <3> QED
      BY <3>1, <3>2
  <2>12. Counted'
    <3> DEFINE U == {j \in SlotRange : InUse(j)}
    <3>1. IsFiniteSet(SlotRange)
      BY DnsTcpAssumption, FS_Interval DEF SlotRange
    <3>2. IsFiniteSet(U) /\ i \notin U
      BY <3>1, <1>4, FS_Subset DEF InUse
    <3>3. U' = U \cup {i}
      BY <1>3, <1>4, <1>5, <2>5 DEF InUse
    <3>4. Cardinality(U \cup {i}) = Cardinality(U) + 1
      BY <3>2, FS_AddElement
    <3> QED
      BY <3>3, <3>4, <1>2, <1>7 DEF Counted
  <2>13. FreshInv'
    BY <1>1, <1>2, <2>2, <2>4 DEF FreshInv
  <2>14. BusyInv'
    BY <1>1, <1>2, <1>5, <1>7, <2>4 DEF BusyInv
  <2>15. (TakenHalves(c))' = 0 /\ Len(wire'[c]) = 0 /\ Len(learned'[c]) = 0 /\ Len(taken'[c]) = 0
    BY <1>1, <1>6, <2>2, <2>4 DEF TakenHalves
  <2>16. HalvesInv'
    <3> SUFFICES ASSUME NEW d \in Clients, (PipeOpen(d))'
                 PROVE  LET s == (TakenHalves(d))' + Len(wire'[d])
                        IN /\ s = 2 * Len(learned'[d]) \/ s = 2 * Len(learned'[d]) + 1
                           /\ (Live(d))' => s = 2 * Len(learned'[d]) + (IF child'[d].at = "sending" THEN 1 ELSE 0)
      BY DEF HalvesInv
    <3>1. CASE d = c
      BY <3>1, <2>2, <2>4, <2>15
    <3>2. CASE d # c
      BY <3>2, <1>1, <1>2, <2>4, <2>8 DEF HalvesInv
    <3> QED
      BY <3>1, <3>2
  <2>17. WireInv'
    <3> SUFFICES ASSUME NEW d \in Clients, (PipeOpen(d))',
                        NEW j \in 1 .. Len(wire'[d]), NEW n \in 1 .. Len(learned'[d]),
                        (TakenHalves(d))' + j = 2 * n
                 PROVE  wire'[d][j] = learned'[d][n]
      BY DEF WireInv
    <3>1. d # c
      BY <2>15
    <3> QED
      BY <3>1, <1>1, <1>2, <2>8 DEF WireInv
  <2>18. TakenInv'
    BY <1>1, <1>2 DEF TakenInv
  <2>19. ClosedInv'
    <3>1. (PipeOpen(c))'
      BY <1>4, <2>5 DEF PipeOpen
    <3> QED
      BY <3>1, <1>1, <1>2, <2>4, <2>8 DEF ClosedInv
  <2>20. ProcessInv'
    BY <1>2, <2>2, <2>4 DEF ProcessInv
  <2>21. AnswerInv'
    <3> SUFFICES ASSUME NEW d \in Clients PROVE (AnswerOK(d))'
      BY DEF AnswerInv
    <3>1. CASE d = c
      BY <3>1, <1>1, <1>6, <2>2, <2>4 DEF AnswerOK
    <3>2. CASE d # c
      BY <3>2, <1>1, <1>2, <2>4, <2>8 DEF AnswerInv, AnswerOK
    <3> QED
      BY <3>1, <3>2
  <2> QED
    BY <2>6, <2>9, <2>10, <2>11, <2>12, <2>13, <2>14, <2>16, <2>17, <2>18, <2>19, <2>20, <2>21
       DEF IInv, SlotInv, PipeInv
<1>8. CASE UNCHANGED <<pids, pipes, metric, busy, child>>
  <2>1. Types'
    BY <1>1, <1>2, <1>3, <1>8 DEF Types, ParentTypes, ProcessTypes, PipeTypes, AnswerTypes
  <2>2. QueueInv'
    BY <1>1, <1>3, <1>8 DEF QueueInv
  <2>3. OneSlot' /\ SlotsAgree' /\ Started' /\ Found' /\ Counted'
    BY <1>2, <1>8 DEF OneSlot, SlotsAgree, Started, Found, Counted, Holds, InUse, Live
  <2>4. PipeInv'
    <3>1. BusyInv' /\ ClosedInv'
      BY <1>1, <1>2, <1>8 DEF BusyInv, ClosedInv, PipeOpen
    <3>2. \A d \in Clients : (TakenHalves(d))' = TakenHalves(d) /\ (PipeOpen(d))' = PipeOpen(d)
      BY <1>1, <1>2, <1>8 DEF TakenHalves, PipeOpen
    <3>3. HalvesInv'
      <4> SUFFICES ASSUME NEW d \in Clients, (PipeOpen(d))'
                   PROVE  LET sent == TakenHalves(d) + Len(wire[d])
                          IN /\ sent' = 2 * Len(learned'[d]) \/ sent' = 2 * Len(learned'[d]) + 1
                             /\ (Live(d))' => sent' = 2 * Len(learned'[d])
                                                   + (IF child'[d].at = "sending" THEN 1 ELSE 0)
        BY DEF HalvesInv
      <4>1. wire' = wire /\ learned' = learned /\ child' = child
            /\ (TakenHalves(d))' = TakenHalves(d) /\ PipeOpen(d) /\ ((Live(d))' <=> Live(d))
        BY <1>1, <1>2, <1>8, <3>2 DEF Live
      <4>2. HalvesInv
        BY <1>2
      <4> QED
        BY <4>1, <4>2 DEF HalvesInv
    <3>4. WireInv'
      BY <1>1, <1>2, <1>8, <3>2 DEF WireInv
    <3>5. TakenInv'
      BY <1>1, <1>2, <1>8, <3>2 DEF TakenInv
    <3> QED
      BY <3>1, <3>3, <3>4, <3>5 DEF PipeInv
  <2>5. FreshInv' /\ ProcessInv' /\ AnswerInv'
    BY <1>1, <1>2, <1>8 DEF FreshInv, ProcessInv, AnswerInv, AnswerOK, Live
  <2> QED
    BY <2>1, <2>2, <2>3, <2>4, <2>5 DEF IInv, SlotInv
<1> QED
  BY <1>0, <1>7, <1>8 DEF Accept

-----------------------------------------------------------------------------
(* The parent reads a pipe.                                                 *)

\* What reading a pipe leaves alone.
LEMMA ReadLeaves ==
    ASSUME IInv, NEW i \in SlotRange, NEW c \in Clients, c = pipes[i], ReadPipe(i)
    PROVE  /\ UNCHANGED <<queue, pids, child, up, answers, learned>>
           /\ busy \in {Nobody, c} /\ child[c].at # "starting" /\ PipeOpen(c)
           /\ QueueInv' /\ FreshInv' /\ ProcessInv' /\ AnswerInv'
<1>1. /\ UNCHANGED <<queue, pids, child, up, answers, learned>>
      /\ busy \in {Nobody, c} /\ child[c].at # "starting" /\ up
  BY DEF ReadPipe
<1>2. PipeOpen(c)
  BY DEF PipeOpen
<1>3. child[c].at # "none"
  BY DEF IInv, SlotInv, Started, Holds
<1>4. QueueInv'
  BY <1>1 DEF IInv, SlotInv, QueueInv
<1>5. \A d \in Clients \ {c} : wire'[d] = wire[d] /\ taken'[d] = taken[d]
  <2>1. PipeTypes
    BY DEF IInv, Types
  <2>2. \/ wire' = [wire EXCEPT ![c] = Tail(@)] /\ taken' = taken
        \/ wire' = [wire EXCEPT ![c] = Tail(@)] /\ taken' = [taken EXCEPT ![c] = Append(@, Head(wire[c]))]
        \/ wire' = wire /\ taken' = taken
    BY DEF ReadPipe
  <2> QED
    BY <2>1, <2>2 DEF PipeTypes
<1>6. FreshInv'
  BY <1>1, <1>3, <1>5 DEF IInv, FreshInv
<1>7. ProcessInv' /\ AnswerInv'
  BY <1>1 DEF IInv, ProcessInv, AnswerInv, AnswerOK, Live
<1> QED
  BY <1>1, <1>2, <1>4, <1>6, <1>7

\* One half is taken: the parent waits for the other, or has the answer.
LEMMA TakeStep ==
    ASSUME IInv, NEW i \in SlotRange, NEW c \in Clients, c = pipes[i], ReadPipe(i),
           wire[c] # <<>>, UNCHANGED <<pipes, metric>>,
           wire' = [wire EXCEPT ![c] = Tail(@)],
           \/ /\ busy = Nobody /\ busy' = c /\ UNCHANGED <<cache, taken>>
           \/ /\ busy = c /\ busy' = Nobody
              /\ cache' = [cache EXCEPT ![Head(wire[c])] = "fresh"]
              /\ taken' = [taken EXCEPT ![c] = Append(@, Head(wire[c]))]
    PROVE  IInv'
<1>1. /\ ParentTypes /\ ProcessTypes /\ PipeTypes /\ AnswerTypes /\ QueueInv /\ OneSlot /\ SlotsAgree
      /\ Started /\ Found /\ Counted /\ FreshInv /\ BusyInv /\ HalvesInv /\ WireInv /\ TakenInv
      /\ ClosedInv /\ ProcessInv /\ AnswerInv
  BY DEF IInv, Types, SlotInv, PipeInv
<1>2. /\ UNCHANGED <<queue, pids, child, up, answers, learned>>
      /\ busy \in {Nobody, c} /\ child[c].at # "starting" /\ PipeOpen(c)
      /\ QueueInv' /\ FreshInv' /\ ProcessInv' /\ AnswerInv'
  BY ReadLeaves
<1>3. Nobody \notin Clients
  BY DnsTcpAssumption
<1>4. /\ Len(wire[c]) \in Nat /\ Len(learned[c]) \in Nat /\ Len(taken[c]) \in Nat
      /\ TakenHalves(c) \in Nat
      /\ wire[c] \in Seq(Questions) /\ learned[c] \in Seq(Questions) /\ taken[c] \in Seq(Questions)
  BY <1>1, Lengths
<1>5. /\ Head(wire[c]) \in Questions /\ Tail(wire[c]) \in Seq(Questions)
      /\ Len(Tail(wire[c])) = Len(wire[c]) - 1
      /\ \A j \in 1 .. Len(Tail(wire[c])) : Tail(wire[c])[j] = wire[c][j + 1]
      /\ Head(wire[c]) = wire[c][1] /\ Len(wire[c]) >= 1
  BY <1>4, HeadTailProperties, EmptySeq
<1>6. /\ Append(taken[c], Head(wire[c])) \in Seq(Questions)
      /\ Len(Append(taken[c], Head(wire[c]))) = Len(taken[c]) + 1
      /\ \A n \in 1 .. Len(taken[c]) : Append(taken[c], Head(wire[c]))[n] = taken[c][n]
      /\ Append(taken[c], Head(wire[c]))[Len(taken[c]) + 1] = Head(wire[c])
  BY <1>4, <1>5, AppendProperties
<1>7. /\ wire' \in [Clients -> Seq(Questions)] /\ wire'[c] = Tail(wire[c])
      /\ \A d \in Clients \ {c} : wire'[d] = wire[d]
  BY <1>1, <1>5 DEF PipeTypes
<1>8. /\ taken' \in [Clients -> Seq(Questions)]
      /\ \A d \in Clients \ {c} : taken'[d] = taken[d]
      /\ busy = Nobody => taken'[c] = taken[c]
      /\ busy = c => taken'[c] = Append(taken[c], Head(wire[c]))
  <2>1. taken \in [Clients -> Seq(Questions)]
    BY <1>1 DEF PipeTypes
  <2>2. CASE busy = Nobody
    BY <2>1, <2>2, <1>3
  <2>3. CASE busy = c
    <3> DEFINE more == Append(taken[c], Head(wire[c]))
    <3>1. taken' = [taken EXCEPT ![c] = more]
      BY <2>3, <1>3
    <3>2. more \in Seq(Questions)
      BY <1>6
    <3> HIDE DEF more
    <3>3. taken' \in [Clients -> Seq(Questions)] /\ taken'[c] = more
          /\ \A d \in Clients \ {c} : taken'[d] = taken[d]
      BY <2>1, <3>1, <3>2
    <3> QED
      BY <3>3, <2>3, <1>3 DEF more
  <2> QED
    BY <2>2, <2>3, <1>2
<1>9. (TakenHalves(c))' = TakenHalves(c) + 1
  <2> DEFINE k == Len(taken[c])   k2 == Len(taken'[c])
  <2>1. CASE busy = Nobody
    <3>1. (TakenHalves(c))' = 2 * k2 + 1 /\ TakenHalves(c) = 2 * k + 0 /\ k2 = k
      BY <2>1, <1>2, <1>3, <1>8 DEF TakenHalves
    <3>2. k \in Nat
      BY <1>4
    <3> HIDE DEF k, k2
    <3> QED
      BY <3>1, <3>2
  <2>2. CASE busy = c
    <3>1. (TakenHalves(c))' = 2 * k2 + 0 /\ TakenHalves(c) = 2 * k + 1 /\ k2 = k + 1
      BY <2>2, <1>2, <1>3, <1>6, <1>8 DEF TakenHalves
    <3>2. k \in Nat
      BY <1>4
    <3> HIDE DEF k, k2
    <3> QED
      BY <3>1, <3>2
  <2> QED
    BY <2>1, <2>2, <1>2
<1>10. \A d \in Clients \ {c} : (TakenHalves(d))' = TakenHalves(d)
  BY <1>2, <1>3, <1>8 DEF TakenHalves
<1>11. \A d \in Clients : (PipeOpen(d))' = PipeOpen(d) /\ (Live(d))' = Live(d)
  BY <1>2 DEF PipeOpen, Live
<1>12. Types'
  <2>1. cache' \in [Questions -> Kept]
    BY <1>1, <1>5 DEF ParentTypes, Kept
  <2>2. ParentTypes'
    BY <1>1, <1>2, <2>1 DEF ParentTypes
  <2>3. PipeTypes'
    BY <1>1, <1>2, <1>7, <1>8 DEF PipeTypes
  <2> QED
    BY <1>1, <1>2, <2>2, <2>3 DEF Types, ProcessTypes, AnswerTypes
<1>13. OneSlot' /\ SlotsAgree' /\ Started' /\ Found' /\ Counted'
  BY <1>1, <1>2 DEF OneSlot, SlotsAgree, Started, Found, Counted, Holds, InUse, Live
<1>14. BusyInv'
  BY <1>1, <1>2, <1>3 DEF BusyInv
<1> DEFINE sent == TakenHalves(c) + Len(wire[c])
<1>15. (TakenHalves(c))' + Len(wire'[c]) = sent
  BY <1>4, <1>5, <1>7, <1>9
<1>16. HalvesInv'
  <2> SUFFICES ASSUME NEW d \in Clients, (PipeOpen(d))'
               PROVE  LET s == (TakenHalves(d))' + Len(wire'[d])
                      IN /\ s = 2 * Len(learned'[d]) \/ s = 2 * Len(learned'[d]) + 1
                         /\ (Live(d))' => s = 2 * Len(learned'[d]) + (IF child'[d].at = "sending" THEN 1 ELSE 0)
    BY DEF HalvesInv
  <2> DEFINE old == TakenHalves(d) + Len(wire[d])
  <2>0. /\ old = 2 * Len(learned[d]) \/ old = 2 * Len(learned[d]) + 1
        /\ Live(d) => old = 2 * Len(learned[d]) + (IF child[d].at = "sending" THEN 1 ELSE 0)
    BY <1>1, <1>11 DEF HalvesInv
  <2>1. CASE d = c
    <3>1. (TakenHalves(d))' + Len(wire'[d]) = old
      BY <2>1, <1>15
    <3> HIDE DEF old
    <3> QED
      BY <3>1, <2>0, <1>2, <1>11
  <2>2. CASE d # c
    <3>1. (TakenHalves(d))' + Len(wire'[d]) = old
      BY <2>2, <1>7, <1>10
    <3> HIDE DEF old
    <3> QED
      BY <3>1, <2>0, <1>2, <1>11
  <2> QED
    BY <2>1, <2>2
<1>17. WireInv'
  <2> SUFFICES ASSUME NEW d \in Clients, (PipeOpen(d))',
                      NEW j \in 1 .. Len(wire'[d]), NEW n \in 1 .. Len(learned'[d]),
                      (TakenHalves(d))' + j = 2 * n
               PROVE  wire'[d][j] = learned'[d][n]
    BY DEF WireInv
  <2>1. CASE d = c
    <3>1. j + 1 \in 1 .. Len(wire[c]) /\ TakenHalves(c) + (j + 1) = 2 * n
      BY <2>1, <1>4, <1>5, <1>7, <1>9
    <3>2. wire[c][j + 1] = learned[c][n]
      BY <2>1, <3>1, <1>1, <1>2 DEF WireInv
    <3> QED
      BY <2>1, <3>2, <1>2, <1>5, <1>7
  <2>2. CASE d # c
    BY <2>2, <1>1, <1>2, <1>7, <1>10, <1>11 DEF WireInv
  <2> QED
    BY <2>1, <2>2
<1>18. TakenInv'
  <2> SUFFICES ASSUME NEW d \in Clients
               PROVE  /\ Len(taken'[d]) <= Len(learned[d])
                      /\ \A n \in 1 .. Len(taken'[d]) : taken'[d][n] = learned[d][n]
    BY <1>2 DEF TakenInv
  <2>1. CASE taken'[d] = taken[d]
    BY <2>1, <1>1 DEF TakenInv
  <2>2. CASE d = c /\ busy = c
    <3> DEFINE k == Len(taken[c])   m == Len(learned[c])   a == Len(wire[c])   t == TakenHalves(c)
    <3>1. k \in Nat /\ m \in Nat /\ a \in Nat /\ a >= 1
      BY <1>4, <1>5
    <3>2. t = 2 * k + 1
      BY <2>2, <1>2 DEF TakenHalves
    <3>3. t + a = 2 * m \/ t + a = 2 * m + 1
      BY <1>1, <1>2 DEF HalvesInv
    <3>4. k + 1 <= m /\ t + 1 = 2 * (k + 1) /\ k + 1 \in 1 .. m /\ 1 \in 1 .. a
      <4> HIDE DEF k, m, a, t
      <4> QED
        BY <3>1, <3>2, <3>3
    <3>5. wire[c][1] = learned[c][k + 1]
      BY <3>4, <1>1, <1>2 DEF WireInv
    <3>6. taken'[d] = Append(taken[c], Head(wire[c]))
      BY <2>2, <1>8
    <3>7. \A n \in 1 .. k + 1 : n \in 1 .. k \/ n = k + 1
      BY <3>1
    <3>8. \A n \in 1 .. k : taken[c][n] = learned[c][n]
      BY <1>1 DEF TakenInv
    <3> QED
      BY <2>2, <3>4, <3>5, <3>6, <3>7, <3>8, <1>5, <1>6
  <2> QED
    BY <2>1, <2>2, <1>2, <1>8
<1>19. ClosedInv'
  BY <1>1, <1>2, <1>8, <1>11 DEF ClosedInv
<1> QED
  BY <1>2, <1>12, <1>13, <1>14, <1>16, <1>17, <1>18, <1>19 DEF IInv, SlotInv, PipeInv

\* The end of a pipe: the slot is free once the process has been waited for.
LEMMA EndStep ==
    ASSUME IInv, NEW i \in SlotRange, NEW c \in Clients, c = pipes[i], ReadPipe(i),
           Ended(c), busy' = Nobody, ClosePipe(i), UNCHANGED <<wire, cache, taken>>
    PROVE  IInv'
<1>1. /\ ParentTypes /\ ProcessTypes /\ PipeTypes /\ AnswerTypes /\ QueueInv /\ OneSlot /\ SlotsAgree
      /\ Started /\ Found /\ Counted /\ FreshInv /\ BusyInv /\ HalvesInv /\ WireInv /\ TakenInv
      /\ ClosedInv /\ ProcessInv /\ AnswerInv
  BY DEF IInv, Types, SlotInv, PipeInv
<1>2. /\ UNCHANGED <<queue, pids, child, up, answers, learned>>
      /\ busy \in {Nobody, c} /\ child[c].at # "starting" /\ PipeOpen(c)
      /\ QueueInv' /\ FreshInv' /\ ProcessInv' /\ AnswerInv'
  BY ReadLeaves
<1>3. Nobody \notin Clients
  BY DnsTcpAssumption
<1>4. /\ pipes' \in [SlotRange -> Clients \cup {Nobody}] /\ pipes'[i] = Nobody
      /\ \A j \in SlotRange \ {i} : pipes'[j] = pipes[j]
      /\ metric' = IF pids[i] = Nobody THEN metric - 1 ELSE metric
  BY <1>1 DEF ClosePipe, ParentTypes
<1>5. ~(PipeOpen(c))' /\ \A d \in Clients \ {c} : (PipeOpen(d))' = PipeOpen(d)
  <2>1. \A j \in SlotRange \ {i} : pipes[j] # c
    BY <1>1 DEF OneSlot, Holds
  <2> QED
    BY <2>1, <1>3, <1>4 DEF PipeOpen
<1>6. ~Live(c) /\ Len(wire[c]) = 0
  BY DEF Ended
<1>7. /\ \A d \in Clients : (Live(d))' = Live(d)
      /\ \A d \in Clients \ {c} : (TakenHalves(d))' = TakenHalves(d)
  BY <1>2, <1>3 DEF Live, TakenHalves
<1>8. Types'
  <2>1. metric' \in Int
    BY <1>1, <1>4 DEF ParentTypes
  <2>2. ParentTypes'
    BY <1>1, <1>2, <1>4, <2>1 DEF ParentTypes
  <2> QED
    BY <1>1, <1>2, <2>2 DEF Types, ProcessTypes, PipeTypes, AnswerTypes
<1>9. OneSlot' /\ SlotsAgree' /\ Started'
  BY <1>1, <1>2, <1>3, <1>4 DEF OneSlot, SlotsAgree, Started, Holds
<1>10. Found'
  <2> SUFFICES ASSUME NEW d \in Clients
               PROVE  /\ (Live(d))' \/ child'[d].at = "zombie" => \E j \in SlotRange : pids'[j] = d
                      /\ (Live(d))' => \E j \in SlotRange : pipes'[j] = d
    BY DEF Found
  <2>1. Live(d) \/ child[d].at = "zombie" => \E j \in SlotRange : pids[j] = d
    BY <1>1 DEF Found
  <2>2. Live(d) => d # c /\ PipeOpen(d)
    BY <1>1, <1>6 DEF Found, PipeOpen
  <2> QED
    BY <2>1, <2>2, <1>2, <1>5, <1>7 DEF PipeOpen
<1>11. Counted'
  <2> DEFINE U == {j \in SlotRange : InUse(j)}
  <2>1. IsFiniteSet(U)
    <3>1. IsFiniteSet(SlotRange)
      BY DnsTcpAssumption, FS_Interval DEF SlotRange
    <3> QED
      BY <3>1, FS_Subset
  <2>2. i \in U
    BY <1>3 DEF InUse
  <2>3. CASE pids[i] = Nobody
    <3>1. U' = U \ {i}
      BY <2>3, <1>2, <1>4 DEF InUse
    <3>2. Cardinality(U \ {i}) = Cardinality(U) - 1
      BY <2>1, <2>2, FS_RemoveElement
    <3> QED
      BY <3>1, <3>2, <2>3, <1>1, <1>4 DEF Counted
  <2>4. CASE pids[i] # Nobody
    <3>1. U' = U
      BY <2>4, <1>2, <1>4 DEF InUse
    <3> QED
      BY <3>1, <2>4, <1>1, <1>4 DEF Counted
  <2> QED
    BY <2>3, <2>4
<1>12. BusyInv'
  BY <1>1, <1>2, <1>3 DEF BusyInv
<1>13. HalvesInv'
  BY <1>1, <1>2, <1>5, <1>7 DEF HalvesInv
<1>14. WireInv'
  BY <1>1, <1>2, <1>5, <1>7 DEF WireInv
<1>15. TakenInv'
  BY <1>1, <1>2 DEF TakenInv
<1>16. Len(taken[c]) = Len(learned[c])
  <2> DEFINE k == Len(taken[c])   m == Len(learned[c])   t == TakenHalves(c)
  <2>1. k \in Nat /\ m \in Nat
    BY <1>1, Lengths
  <2>2. t = 2 * k \/ t = 2 * k + 1
    <3>1. t = 2 * k + (IF busy = c /\ child[c].at # "starting" THEN 1 ELSE 0)
      BY DEF TakenHalves
    <3> HIDE DEF k, t
    <3> QED
      BY <2>1, <3>1
  <2>3. t = 2 * m \/ t = 2 * m + 1
    <3>1. t + 0 = 2 * m \/ t + 0 = 2 * m + 1
      BY <1>1, <1>2, <1>6 DEF HalvesInv
    <3>2. t \in Nat
      BY <1>1, Lengths
    <3> HIDE DEF t, m
    <3> QED
      BY <2>1, <3>1, <3>2
  <2> HIDE DEF k, m, t
  <2>4. k = m
    BY <2>1, <2>2, <2>3
  <2> QED
    BY <2>4 DEF k, m
<1>17. ClosedInv'
  BY <1>1, <1>2, <1>5, <1>16 DEF ClosedInv
<1> QED
  BY <1>2, <1>8, <1>9, <1>10, <1>11, <1>12, <1>13, <1>14, <1>15, <1>17 DEF IInv, SlotInv, PipeInv

LEMMA ReadPipeStep ==
    ASSUME IInv, NEW i \in SlotRange, ReadPipe(i)
    PROVE  IInv'
<1>1. PICK c \in Clients : c = pipes[i]
  BY DEF ReadPipe, IInv, Types, ParentTypes
<1>2. CASE /\ busy = Nobody /\ wire[c] # <<>>
           /\ busy' = c
           /\ wire' = [wire EXCEPT ![c] = Tail(@)]
           /\ UNCHANGED <<cache, taken, pipes, metric>>
  BY <1>1, <1>2, TakeStep
<1>3. CASE /\ busy = c /\ wire[c] # <<>>
           /\ busy' = Nobody
           /\ wire' = [wire EXCEPT ![c] = Tail(@)]
           /\ cache' = [cache EXCEPT ![Head(wire[c])] = "fresh"]
           /\ taken' = [taken EXCEPT ![c] = Append(@, Head(wire[c]))]
           /\ UNCHANGED <<pipes, metric>>
  BY <1>1, <1>3, TakeStep
<1>4. CASE /\ Ended(c) /\ busy' = Nobody /\ ClosePipe(i) /\ UNCHANGED <<wire, cache, taken>>
  BY <1>1, <1>4, EndStep
<1> QED
  BY <1>1, <1>2, <1>3, <1>4 DEF ReadPipe

-----------------------------------------------------------------------------
(* The parent waits for processes, or ends them.                            *)

\* Processes are waited for: their records are as good as before.
WaitedFor ==
    /\ child' \in [Clients -> ProcessType]
    /\ \A d \in Clients :
          \/ child'[d] = child[d]
          \/ /\ child'[d].at = "waited" /\ child[d].at # "none"
             /\ child'[d].how = child[d].how /\ child'[d].count = child[d].count
             /\ child'[d].link = child[d].link
    /\ UNCHANGED <<queue, busy, cache, wire, answers, learned, taken>>

LEMMA WaitedFact ==
    ASSUME NEW r \in ProcessType
    PROVE  LET r2 == [r EXCEPT !.at = "waited"]
           IN /\ r2 \in ProcessType /\ r2.at = "waited" /\ r2.how = r.how /\ r2.count = r.count
              /\ r2.link = r.link
BY DEF ProcessType, Places

LEMMA WaitedKeeps ==
    ASSUME IInv, WaitedFor, busy = Nobody
    PROVE  /\ ProcessTypes' /\ PipeTypes' /\ AnswerTypes' /\ QueueInv' /\ FreshInv' /\ ProcessInv'
           /\ AnswerInv' /\ BusyInv' /\ TakenInv'
           /\ \A d \in Clients : (TakenHalves(d))' = TakenHalves(d)
           /\ \A d \in Clients : (Live(d))' => Live(d) /\ child'[d] = child[d]
<1>1. /\ ParentTypes /\ ProcessTypes /\ PipeTypes /\ AnswerTypes /\ QueueInv /\ FreshInv /\ BusyInv
      /\ TakenInv /\ ProcessInv /\ AnswerInv
  BY DEF IInv, Types, SlotInv, PipeInv
<1>2. Nobody \notin Clients
  BY DnsTcpAssumption
<1>3. \A d \in Clients : (Live(d))' => Live(d) /\ child'[d] = child[d]
  BY DEF WaitedFor, Live
<1>4. ProcessTypes' /\ PipeTypes' /\ AnswerTypes'
  BY <1>1 DEF WaitedFor, ProcessTypes, PipeTypes, AnswerTypes
<1>5. QueueInv'
  <2>1. \A j \in 1 .. Len(queue) : queue[j] \in Clients
    BY <1>1 DEF ParentTypes
  <2> QED
    BY <2>1, <1>1 DEF WaitedFor, QueueInv
<1>6. FreshInv'
  BY <1>1 DEF WaitedFor, FreshInv
<1>7. ProcessInv'
  <2> SUFFICES ASSUME NEW d \in Clients, child'[d] # child[d] PROVE ProcessOK(child'[d], d)
    BY <1>1 DEF ProcessInv
  <2>1. ProcessOK(child[d], d)
    BY <1>1 DEF ProcessInv
  <2>2. child'[d].at = "waited" /\ child'[d].count = child[d].count /\ child'[d].link = child[d].link
    BY DEF WaitedFor
  <2> QED
    BY <2>1, <2>2 DEF ProcessOK, CountOK, ReplyOK, LinkOK, TalkOK
<1>8. AnswerInv'
  <2> SUFFICES ASSUME NEW d \in Clients PROVE (AnswerOK(d))'
    BY DEF AnswerInv
  <2>1. answers' = answers /\ child'[d].count = child[d].count
    BY DEF WaitedFor
  <2> QED
    BY <2>1, <1>1, <1>3 DEF AnswerInv, AnswerOK
<1>9. BusyInv'
  BY <1>1, <1>2 DEF WaitedFor, BusyInv
<1>10. TakenInv'
  BY <1>1 DEF WaitedFor, TakenInv
<1>11. \A d \in Clients : (TakenHalves(d))' = TakenHalves(d)
  BY <1>2 DEF WaitedFor, TakenHalves
<1> QED
  BY <1>3, <1>4, <1>5, <1>6, <1>7, <1>8, <1>9, <1>10, <1>11

LEMMA ReapStep ==
    ASSUME IInv, Reap
    PROVE  IInv'
<1> DEFINE done == {i \in SlotRange : pids[i] # Nobody /\ child[pids[i]].at = "zombie"}
           shut == {i \in done : Lost(i)}
<1>1. /\ ParentTypes /\ ProcessTypes /\ PipeTypes /\ AnswerTypes /\ QueueInv /\ OneSlot /\ SlotsAgree
      /\ Started /\ Found /\ Counted /\ FreshInv /\ BusyInv /\ HalvesInv /\ WireInv /\ TakenInv
      /\ ClosedInv /\ ProcessInv /\ AnswerInv
  BY DEF IInv, Types, SlotInv, PipeInv
<1>2. /\ busy = Nobody /\ up = up'
      /\ pids' = [i \in SlotRange |-> IF i \in done THEN Nobody ELSE pids[i]]
      /\ pipes' = [i \in SlotRange |-> IF i \in shut THEN Nobody ELSE pipes[i]]
      /\ metric' = metric - Cardinality({i \in done : pipes'[i] = Nobody})
      /\ child' = [c \in Clients |-> IF child[c].at = "zombie" THEN [child[c] EXCEPT !.at = "waited"]
                                     ELSE child[c]]
      /\ UNCHANGED <<queue, busy, cache, wire, answers, learned, taken>>
  BY DEF Reap, Idle
<1>3. Nobody \notin Clients
  BY DnsTcpAssumption
<1>4. \A i \in SlotRange : /\ pids[i] \in Clients \cup {Nobody} /\ pipes[i] \in Clients \cup {Nobody}
                           /\ i \in shut => i \in done /\ pipes[i] # Nobody /\ child[pids[i]].how = "killed"
  BY <1>1 DEF ParentTypes, Lost
<1>5. \A i \in done : i \in SlotRange /\ pids[i] \in Clients /\ child[pids[i]].at = "zombie"
  BY <1>4
<1>6. \A d \in Clients : child[d].at = "zombie" => \E i \in done : pids[i] = d
  BY <1>1, <1>3 DEF Found
<1>7. WaitedFor
  <2>1. ASSUME NEW d \in Clients
        PROVE  /\ child'[d] \in ProcessType
               /\ \/ child'[d] = child[d]
                  \/ /\ child'[d].at = "waited" /\ child[d].at # "none"
                     /\ child'[d].how = child[d].how /\ child'[d].count = child[d].count
                     /\ child'[d].link = child[d].link
    <3>1. child[d] \in ProcessType
      BY <1>1 DEF ProcessTypes
    <3>2. child'[d] = IF child[d].at = "zombie" THEN [child[d] EXCEPT !.at = "waited"] ELSE child[d]
      BY <1>2
    <3>3. CASE child[d].at = "zombie"
      BY <3>1, <3>2, <3>3, WaitedFact
    <3> QED
      BY <3>1, <3>2, <3>3
  <2> QED
    BY <2>1, <1>2 DEF WaitedFor
<1>8. /\ ProcessTypes' /\ PipeTypes' /\ AnswerTypes' /\ QueueInv' /\ FreshInv' /\ ProcessInv'
      /\ AnswerInv' /\ BusyInv' /\ TakenInv'
      /\ \A d \in Clients : (TakenHalves(d))' = TakenHalves(d)
      /\ \A d \in Clients : (Live(d))' => Live(d) /\ child'[d] = child[d]
  BY <1>2, <1>7, WaitedKeeps
<1> HIDE DEF done, shut
<1>9. /\ pids' \in [SlotRange -> Clients \cup {Nobody}] /\ pipes' \in [SlotRange -> Clients \cup {Nobody}]
      /\ \A i \in SlotRange : pids'[i] = IF i \in done THEN Nobody ELSE pids[i]
      /\ \A i \in SlotRange : pipes'[i] = IF i \in shut THEN Nobody ELSE pipes[i]
  BY <1>2, <1>4
<1>10. IsFiniteSet(SlotRange)
  BY DnsTcpAssumption, FS_Interval DEF SlotRange
<1>11. OneSlot' /\ SlotsAgree'
  BY <1>1, <1>3, <1>9 DEF OneSlot, SlotsAgree, Holds
<1>12. Started'
  BY <1>1, <1>3, <1>7, <1>9 DEF Started, Holds, WaitedFor
<1>13. \A d \in Clients : Live(d) => \A i \in done : pids[i] # d
  BY <1>5 DEF Live
<1>14. Found'
  <2> SUFFICES ASSUME NEW d \in Clients
               PROVE  /\ (Live(d))' \/ child'[d].at = "zombie" => \E j \in SlotRange : pids'[j] = d
                      /\ (Live(d))' => \E j \in SlotRange : pipes'[j] = d
    BY DEF Found
  <2>1. child'[d].at # "zombie"
    <3>1. child[d] \in ProcessType
      BY <1>1 DEF ProcessTypes
    <3>2. child[d].at = "zombie" => child'[d].at = "waited"
      BY <3>1, <1>2, WaitedFact
    <3>3. child[d].at # "zombie" => child'[d] = child[d]
      BY <1>2
    <3> QED
      BY <3>2, <3>3
  <2>2. ASSUME Live(d)
        PROVE  /\ \E j \in SlotRange : pids'[j] = d
               /\ \E j \in SlotRange : pipes'[j] = d
    <3>1. PICK j \in SlotRange : pids[j] = d
      BY <2>2, <1>1 DEF Found
    <3>2. PICK k \in SlotRange : pipes[k] = d
      BY <2>2, <1>1 DEF Found
    <3>3. j = k
      BY <3>1, <3>2, <1>1 DEF OneSlot, Holds
    <3>4. j \notin done
      BY <3>1, <2>2, <1>13
    <3> QED
      BY <3>1, <3>2, <3>3, <3>4, <1>4, <1>9
  <2> QED
    BY <2>1, <2>2, <1>8
<1>15. Counted'
  <2> DEFINE U == {j \in SlotRange : InUse(j)}
             D == {j \in done : pipes'[j] = Nobody}
  <2>1. IsFiniteSet(U) /\ IsFiniteSet(D) /\ D \subseteq U
    <3>1. D \subseteq U
      BY <1>3, <1>5 DEF InUse
    <3>2. IsFiniteSet(U)
      BY <1>10, FS_Subset
    <3> QED
      BY <3>1, <3>2, FS_Subset
  <2>2. U' = U \ D
    BY <1>4, <1>9 DEF InUse
  <2> HIDE DEF U, D
  <2>3. Cardinality(U \ D) = Cardinality(U) - Cardinality(D)
    <3>1. Cardinality(U \ D) = Cardinality(U) - Cardinality(U \cap D)
      BY <2>1, FS_Difference
    <3>2. U \cap D = D
      BY <2>1
    <3> QED
      BY <3>1, <3>2
  <2>4. metric = Cardinality(U) /\ metric' = metric - Cardinality(D)
    BY <1>1, <1>2 DEF Counted, U, D
  <2>5. metric' = Cardinality(U')
    BY <2>2, <2>3, <2>4
  <2> QED
    BY <2>5 DEF Counted, U
<1>16. Types'
  <2>1. IsFiniteSet({i \in done : pipes'[i] = Nobody})
    <3>1. {i \in done : pipes'[i] = Nobody} \subseteq SlotRange
      BY <1>5
    <3> QED
      BY <3>1, <1>10, FS_Subset
  <2>2. metric' \in Int
    BY <2>1, <1>1, <1>2, FS_CardinalityType DEF ParentTypes
  <2> QED
    BY <2>2, <1>1, <1>2, <1>8, <1>9 DEF Types, ParentTypes
<1>17. \A d \in Clients : (PipeOpen(d))' => PipeOpen(d)
  BY <1>3, <1>9 DEF PipeOpen
<1>18. HalvesInv'
  BY <1>1, <1>2, <1>8, <1>17 DEF HalvesInv
<1>19. WireInv'
  BY <1>1, <1>2, <1>8, <1>17 DEF WireInv
<1>20. ClosedInv'
  <2> SUFFICES ASSUME NEW d \in Clients, up, ~(PipeOpen(d))', child'[d].how = "exit"
               PROVE  Len(taken[d]) = Len(learned[d])
    BY <1>2 DEF ClosedInv
  <2>1. child[d].how = "exit"
    BY <1>7 DEF WaitedFor
  <2>2. ~PipeOpen(d)
    <3> SUFFICES ASSUME NEW j \in SlotRange, pipes[j] = d PROVE FALSE
      BY DEF PipeOpen
    <3>1. j \in shut
      BY <1>9 DEF PipeOpen
    <3>2. pids[j] = d /\ child[pids[j]].how = "killed"
      BY <3>1, <1>1, <1>3, <1>4, <1>5 DEF SlotsAgree
    <3> QED
      BY <3>2, <2>1
  <2> QED
    BY <2>1, <2>2, <1>1 DEF ClosedInv
<1> QED
  BY <1>8, <1>11, <1>12, <1>14, <1>15, <1>16, <1>18, <1>19, <1>20 DEF IInv, SlotInv, PipeInv

LEMMA TermStep ==
    ASSUME IInv, Term
    PROVE  IInv'
<1> DEFINE told == {pids[i] : i \in SlotRange} \ {Nobody}
<1>1. /\ ParentTypes /\ ProcessTypes /\ PipeTypes /\ AnswerTypes /\ QueueInv /\ OneSlot /\ SlotsAgree
      /\ Started /\ Found /\ Counted /\ FreshInv /\ BusyInv /\ HalvesInv /\ WireInv /\ TakenInv
      /\ ClosedInv /\ ProcessInv /\ AnswerInv
  BY DEF IInv, Types, SlotInv, PipeInv
<1>2. /\ busy = Nobody /\ up' = FALSE
      /\ child' = [c \in Clients |-> IF c \in told /\ Live(c) THEN [child[c] EXCEPT !.at = "waited"]
                                     ELSE child[c]]
      /\ UNCHANGED <<queue, pids, pipes, metric, busy, cache, wire, answers, learned, taken>>
  BY DEF Term, Idle
<1>3. \A d \in Clients : Live(d) => d \in told
  <2>1. Nobody \notin Clients
    BY DnsTcpAssumption
  <2> QED
    BY <2>1, <1>1 DEF Found
<1> HIDE DEF told
<1>4. ASSUME NEW d \in Clients
      PROVE  /\ child'[d] \in ProcessType
             /\ ~Live(d) => child'[d] = child[d]
             /\ Live(d) =>
                   /\ child'[d].at = "waited" /\ child[d].at # "none"
                   /\ child'[d].how = child[d].how /\ child'[d].count = child[d].count
                   /\ child'[d].link = child[d].link
  <2>1. child[d] \in ProcessType
    BY <1>1 DEF ProcessTypes
  <2>2. child'[d] = IF Live(d) THEN [child[d] EXCEPT !.at = "waited"] ELSE child[d]
    BY <1>2, <1>3
  <2>3. Live(d) => child[d].at # "none"
    BY DEF Live
  <2> QED
    BY <2>1, <2>2, <2>3, WaitedFact
<1>5. WaitedFor
  BY <1>2, <1>4 DEF WaitedFor
<1>6. /\ ProcessTypes' /\ PipeTypes' /\ AnswerTypes' /\ QueueInv' /\ FreshInv' /\ ProcessInv'
      /\ AnswerInv' /\ BusyInv' /\ TakenInv'
      /\ \A d \in Clients : (TakenHalves(d))' = TakenHalves(d)
      /\ \A d \in Clients : (Live(d))' => Live(d) /\ child'[d] = child[d]
  BY <1>2, <1>5, WaitedKeeps
<1>7. Types'
  BY <1>1, <1>2, <1>6 DEF Types, ParentTypes
<1>8. OneSlot' /\ SlotsAgree' /\ Started' /\ Counted'
  BY <1>1, <1>2, <1>5 DEF OneSlot, SlotsAgree, Started, Counted, Holds, InUse, WaitedFor
<1>9. Found'
  BY <1>1, <1>2, <1>4, <1>6 DEF Found, Live
<1>10. \A d \in Clients : (PipeOpen(d))' = PipeOpen(d)
  BY <1>2 DEF PipeOpen
<1>11. HalvesInv' /\ WireInv'
  <2>1. HalvesInv'
    BY <1>1, <1>2, <1>6, <1>10 DEF HalvesInv
  <2>2. WireInv'
    BY <1>1, <1>2, <1>6, <1>10 DEF WireInv
  <2> QED
    BY <2>1, <2>2
<1>12. ClosedInv'
  BY <1>2 DEF ClosedInv
<1> QED
  BY <1>6, <1>7, <1>8, <1>9, <1>11, <1>12 DEF IInv, SlotInv, PipeInv

-----------------------------------------------------------------------------
(* All steps, and what the invariant says.                                  *)

\* A client that closes, and an entry that expires, change nothing of this.
LEMMA QuietStep ==
    ASSUME IInv, \/ \E c \in Clients : Hangup(c)
                 \/ \E q \in Questions : Expire(q)
                 \/ UNCHANGED vars
    PROVE  IInv'
<1>1. /\ UNCHANGED <<queue, pids, pipes, metric, busy, up, child, wire, answers, learned, taken>>
      /\ cache' \in [Questions -> Kept]
  <2>1. cache \in [Questions -> Kept]
    BY DEF IInv, Types, ParentTypes
  <2> QED
    BY <2>1 DEF Hangup, Expire, Kept, vars
<1>2. Types'
  BY <1>1 DEF IInv, Types, ParentTypes, ProcessTypes, PipeTypes, AnswerTypes
<1>3. SlotInv' /\ Counted'
  BY <1>1 DEF IInv, SlotInv, QueueInv, OneSlot, SlotsAgree, Started, Found, Counted, Holds, InUse, Live
<1>4. PipeInv'
  <2>1. BusyInv' /\ ClosedInv'
    BY <1>1 DEF IInv, PipeInv, BusyInv, ClosedInv, PipeOpen
  <2>2. \A d \in Clients : (TakenHalves(d))' = TakenHalves(d) /\ (PipeOpen(d))' = PipeOpen(d)
    BY <1>1 DEF TakenHalves, PipeOpen
  <2>3. HalvesInv'
    <3> SUFFICES ASSUME NEW d \in Clients, (PipeOpen(d))'
                 PROVE  LET sent == TakenHalves(d) + Len(wire[d])
                        IN /\ sent' = 2 * Len(learned'[d]) \/ sent' = 2 * Len(learned'[d]) + 1
                           /\ (Live(d))' => sent' = 2 * Len(learned'[d])
                                                 + (IF child'[d].at = "sending" THEN 1 ELSE 0)
      BY DEF HalvesInv
    <3>1. wire' = wire /\ learned' = learned /\ child' = child
          /\ (TakenHalves(d))' = TakenHalves(d) /\ PipeOpen(d) /\ ((Live(d))' <=> Live(d))
      BY <1>1, <2>2 DEF Live
    <3>2. HalvesInv
      BY DEF IInv, PipeInv
    <3> QED
      BY <3>1, <3>2 DEF HalvesInv
  <2>4. WireInv'
    BY <1>1, <2>2 DEF IInv, PipeInv, WireInv
  <2>5. TakenInv'
    BY <1>1, <2>2 DEF IInv, PipeInv, TakenInv
  <2> QED
    BY <2>1, <2>3, <2>4, <2>5 DEF PipeInv
<1>5. FreshInv' /\ ProcessInv' /\ AnswerInv'
  BY <1>1 DEF IInv, FreshInv, ProcessInv, AnswerInv, AnswerOK, Live
<1> QED
  BY <1>2, <1>3, <1>4, <1>5 DEF IInv

LEMMA InitInv == Init => IInv
<1> SUFFICES ASSUME Init PROVE IInv
  OBVIOUS
<1>1. Nobody \notin Clients /\ IsFiniteSet(Clients) /\ Cardinality(Clients) \in Nat
  BY DnsTcpAssumption, FS_CardinalityType
<1>2. /\ pids = [i \in SlotRange |-> Nobody] /\ pipes = pids
      /\ metric = 0 /\ busy = Nobody /\ up = TRUE
      /\ cache = [q \in Questions |-> "none"]
      /\ child = [c \in Clients |-> NoChild]
      /\ wire = [c \in Clients |-> <<>>] /\ learned = wire /\ taken = wire
      /\ answers = [c \in Clients |-> <<>>]
  BY DEF Init
<1>3. /\ queue \in [1 .. Cardinality(Clients) -> Clients]
      /\ \A i, j \in 1 .. Cardinality(Clients) : i # j => queue[i] # queue[j]
  BY DEF Init, SetToSeqs
<1>4. queue \in Seq(Clients) /\ Len(queue) = Cardinality(Clients)
  BY <1>1, <1>3
<1>5. Types
  <2>1. ParentTypes
    BY <1>2, <1>4 DEF ParentTypes, Kept
  <2>2. ProcessTypes
    BY <1>2, NoChildFact DEF ProcessTypes
  <2>3. PipeTypes /\ AnswerTypes
    BY <1>2 DEF PipeTypes, AnswerTypes
  <2> QED
    BY <2>1, <2>2, <2>3 DEF Types
<1>6. \A c \in Clients : child[c] = NoChild /\ child[c].at = "none" /\ ~Live(c)
  BY <1>2, NoChildFact DEF Live
<1>7. \A i \in SlotRange : pids[i] = Nobody /\ pipes[i] = Nobody
  BY <1>2
<1>8. QueueInv
  BY <1>3, <1>4, <1>6 DEF QueueInv
<1>9. OneSlot /\ SlotsAgree /\ Started /\ Found
  BY <1>1, <1>6, <1>7 DEF OneSlot, SlotsAgree, Started, Found, Holds
<1>10. Counted
  <2>1. {i \in SlotRange : InUse(i)} = {}
    BY <1>7 DEF InUse
  <2> QED
    BY <2>1, <1>2, FS_EmptySet DEF Counted
<1>11. \A c \in Clients : wire[c] = <<>> /\ learned[c] = <<>> /\ taken[c] = <<>> /\ answers[c] = <<>>
  BY <1>2
<1>12. FreshInv
  BY <1>6, <1>11 DEF FreshInv
<1>13. \A c \in Clients : ~PipeOpen(c)
  BY <1>1, <1>7 DEF PipeOpen
<1>14. PipeInv
  <2>1. BusyInv /\ HalvesInv /\ WireInv
    BY <1>6, <1>13 DEF BusyInv, HalvesInv, WireInv
  <2>2. TakenInv /\ ClosedInv
    BY <1>11 DEF TakenInv, ClosedInv
  <2> QED
    BY <2>1, <2>2 DEF PipeInv
<1>15. ProcessInv
  <2>1. /\ NoChild.count = 0 /\ NoChild.at = "none"
        /\ \A s \in DOMAIN Servers : NoChild.link[s].unread = <<>>
    BY DEF NoChild, NoLink
  <2> SUFFICES ASSUME NEW c \in Clients PROVE ProcessOK(NoChild, c)
    BY <1>6 DEF ProcessInv
  <2>2. CountOK(NoChild, c)
    BY <2>1, Constants DEF CountOK
  <2>3. ReplyOK(NoChild) /\ LinkOK(NoChild) /\ TalkOK(NoChild)
    BY <2>1 DEF ReplyOK, LinkOK, TalkOK
  <2> QED
    BY <2>2, <2>3 DEF ProcessOK
<1>16. AnswerInv
  <2>1. NoChild.count = 0
    BY DEF NoChild
  <2> QED
    BY <2>1, <1>6, <1>11 DEF AnswerInv, AnswerOK
<1> QED
  BY <1>5, <1>8, <1>9, <1>10, <1>12, <1>14, <1>15, <1>16 DEF IInv, SlotInv

LEMMA NextInv == IInv /\ [Next]_vars => IInv'
<1> SUFFICES ASSUME IInv, [Next]_vars PROVE IInv'
  OBVIOUS
<1>1. CASE Parent
  BY <1>1, AcceptStep, ReapStep, ReadPipeStep DEF Parent
<1>2. CASE Term
  BY <1>2, TermStep
<1>3. ASSUME NEW c \in Clients, Step(c) \/ Alarm(c) \/ Crash(c) PROVE IInv'
  BY <1>3, StepStep
<1> QED
  BY <1>1, <1>2, <1>3, QuietStep DEF Next

LEMMA InvSlots == IInv => SlotsCounted
<1> SUFFICES ASSUME IInv PROVE SlotsCounted
  OBVIOUS
<1>1. Counted /\ Found /\ OneSlot
  BY DEF IInv, SlotInv
<1>2. ASSUME NEW c \in Clients
      PROVE  Cardinality({i \in SlotRange : c \in {pids[i], pipes[i]}}) <= 1
  <2> DEFINE H == {i \in SlotRange : c \in {pids[i], pipes[i]}}
  <2>1. CASE H = {}
    BY <2>1, FS_EmptySet
  <2>2. CASE H # {}
    <3>1. PICK i : i \in H
      BY <2>2
    <3>2. \A j \in H : j = i
      BY <3>1, <1>1 DEF OneSlot, Holds
    <3>3. H = {i}
      BY <3>1, <3>2
    <3> HIDE DEF H
    <3>4. Cardinality(H) = 1
      BY <3>3, FS_Singleton
    <3> QED
      BY <3>4 DEF H
  <2> QED
    BY <2>1, <2>2
<1> QED
  BY <1>1, <1>2 DEF SlotsCounted, Counted, Found

LEMMA InvAnswers == IInv => AnswersInOrder
<1> SUFFICES ASSUME IInv, NEW c \in Clients
             PROVE  /\ Len(answers[c]) <= MaxQueries
                    /\ \A n \in DOMAIN answers[c] :
                          /\ answers[c][n].q = Asks[c][n]
                          /\ answers[c][n].what \in Questions => answers[c][n].what = Asks[c][n]
                          /\ answers[c][n].what = "failed" => \A s \in DOMAIN Servers : Conduct[s] # {"answer"}
  BY DEF AnswersInOrder
<1>1. AnswerOK(c) /\ child[c] \in ProcessType /\ CountOK(child[c], c) /\ AnswerTypes
  BY ChildFacts DEF AnswerInv, ProcessOK
<1>2. answers[c] \in Seq([q : Questions, what : Questions \cup Replies])
  BY <1>1 DEF AnswerTypes
<1>3. DOMAIN answers[c] = 1 .. Len(answers[c]) /\ Len(answers[c]) \in Nat
  BY <1>2, LenProperties
<1>4. Len(answers[c]) <= MaxQueries
  <2>1. Len(answers[c]) <= child[c].count /\ child[c].count <= MaxQueries /\ child[c].count \in Nat
    BY <1>1 DEF AnswerOK, CountOK, ProcessType
  <2> QED
    BY <2>1, <1>3, Constants
<1> QED
  BY <1>1, <1>3, <1>4 DEF AnswerOK, NoneSure, Sure

LEMMA InvLearned == IInv => LearnedTaken
<1> SUFFICES ASSUME IInv, NEW c \in Clients
             PROVE  /\ IsPrefix(taken[c], learned[c])
                    /\ up /\ child[c].at = "waited" /\ child[c].how = "exit"
                          /\ (\A i \in SlotRange : pipes[i] # c)
                          => taken[c] = learned[c]
  BY DEF LearnedTaken
<1>1. TakenInv /\ ClosedInv /\ PipeTypes
  BY DEF IInv, PipeInv, Types
<1>2. /\ taken[c] \in Seq(Questions) /\ learned[c] \in Seq(Questions)
      /\ Len(taken[c]) \in Nat /\ Len(learned[c]) \in Nat
  BY <1>1, Lengths
<1>3. Len(taken[c]) <= Len(learned[c]) /\ \A n \in 1 .. Len(taken[c]) : taken[c][n] = learned[c][n]
  BY <1>1 DEF TakenInv
<1> DEFINE k == Len(taken[c])   s == SubSeq(learned[c], 1, k)
<1>4. \A n \in 1 .. k : learned[c][n] \in Questions
  <2>1. \A n \in 1 .. k : n \in 1 .. Len(learned[c])
    BY <1>2, <1>3
  <2> QED
    BY <2>1, <1>2, ElementOfSeq
<1>5. s \in Seq(Questions) /\ Len(s) = k /\ \A n \in 1 .. k : s[n] = learned[c][n]
  <2>1. /\ s \in Seq(Questions) /\ Len(s) = IF 1 <= k THEN k - 1 + 1 ELSE 0
        /\ \A n \in 1 .. k - 1 + 1 : s[n] = learned[c][1 + n - 1]
    BY <1>2, <1>4, SubSeqProperties
  <2> HIDE DEF s
  <2>2. \A n \in 1 .. k : n \in 1 .. k - 1 + 1 /\ 1 + n - 1 = n
    BY <1>2
  <2> QED
    BY <2>1, <2>2, <1>2
<1> HIDE DEF s
<1>6. s = taken[c]
  BY <1>2, <1>3, <1>5, SeqEqual
<1>7. IsPrefix(taken[c], learned[c])
  BY <1>2, <1>3, <1>6, SubSeqFull DEF IsPrefix, s
<1>8. ASSUME Len(taken[c]) = Len(learned[c]) PROVE taken[c] = learned[c]
  BY <1>2, <1>3, <1>8, SeqEqual
<1> QED
  BY <1>1, <1>7, <1>8 DEF ClosedInv, PipeOpen

\* DNS over TCP, for every number of connections, slots, servers and questions:
\* metrics and slots agree and every process is found (dnsmasq.c 1945-2030),
\* answers are to their questions (tcp_request), and what is learned reaches
\* the cache of the parent (cache_recv_insert).
THEOREM ConnectionsHonest == Spec => []ConnectionsRight
<1>1. IInv => ConnectionsRight
  BY InvSlots, InvAnswers, InvLearned DEF ConnectionsRight
<1> QED
  BY <1>1, InitInv, NextInv, PTL DEF Spec
=============================================================================
