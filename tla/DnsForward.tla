----------------------------- MODULE DnsForward -----------------------------
(***************************************************************************)
(* The DNS forwarder of dnsmasq (forward.c) over UDP: the table of queries *)
(* that wait for an upstream answer (struct frec), the clients each of     *)
(* them owes an answer (struct frec_src), the sockets bound to random      *)
(* ports they share (struct randfd), the choice of servers, retries of     *)
(* clients, quick retries and the going away of servers.                   *)
(*                                                                         *)
(* A reply is on its way from the moment its query is sent and may arrive  *)
(* at any later time, when the port may belong to another socket.  What    *)
(* the cache says of a question is a state of its own (see DnsCache);      *)
(* which servers a question may go to is a constant (see DomainMatch).     *)
(* The loss of a datagram of a client is the client not having sent it.    *)
(***************************************************************************)
EXTENDS Integers, FiniteSets, SequencesExt, FiniteSetsExt

CONSTANTS Clients,
          Questions,      \* name, class and type
          Asks,           \* what clients may ask: <<client, transaction id, question>>
          Patient,        \* the ask of a client that repeats it until it is answered
          Large,          \* those whose answer does not fit a small client
          Small,          \* clients with a small udp_pkt_size
          Cached,         \* questions whose answer may be kept
          Servers,
          Group,          \* the servers for each question, as in serverarray
          Rcodes,         \* the answers each server may give
          Source,         \* source address and interface of each server
          Fixed,          \* its pre-allocated socket, or NoPort
          Ports,          \* the random ports there are, naturals
          PortRange,      \* size of a small range of ports, otherwise 0
          RandSocks,      \* numrrand
          RandLimit,      \* randport_limit
          FtabSize,       \* ftabsize
          Modes,          \* sets of the options below
          FastRetry,      \* quick retries there is time for before TIMEOUT
          DupTime, Timeout, DropTime,   \* 2 s, TIMEOUT and 4*TIMEOUT
          ForwardTest, ForwardTime,
          MaxFlight,      \* bound on replies under way when a query is sent
          MaxMishaps      \* bound on losses, duplicates and changes of the servers

NoServer == "none"
NoPort == 0
AllServers == "all-servers"     \* OPT_ALL_SERVERS
Order == "strict-order"         \* OPT_ORDER
Stale == "use-stale-cache"      \* cache_max_expiry

ASSUME DnsForwardAssumption ==
    /\ 0 < DupTime /\ DupTime <= Timeout /\ Timeout < DropTime
    /\ Patient \in Asks /\ Asks \subseteq Clients \X Nat \X Questions
    /\ Ports \subseteq Nat \ {NoPort} /\ NoServer \notin Servers
    /\ {RandSocks, RandLimit, FtabSize, FastRetry, ForwardTest, ForwardTime,
        MaxFlight, MaxMishaps, PortRange} \subseteq Nat

VARIABLES fw,       \* the state of forward.c, see InitForward
          up,       \* the servers that are configured
          cache,    \* what the cache has for a question: none, stale, fresh
          net,      \* replies on their way
          due,      \* who has asked and not been answered: <<client, id, question>>
          astray,   \* kinds of answers given to one who was not due one
          options,
          mishaps

vars == <<fw, up, cache, net, due, astray, options, mishaps>>

-----------------------------------------------------------------------------
Blank == [sent |-> NoServer, q |-> CHOOSE q \in Questions : TRUE, id |-> 0, srcs |-> <<>>,
          age |-> 0, all |-> 0, rfds |-> <<>>, fast |-> 0]

InitForward ==
    [frecs  |-> <<>>,                         \* frec_list
     rand   |-> [i \in 1 .. RandSocks |-> [ref |-> 0, serv |-> NoServer, port |-> NoPort]],
     temps  |-> {},                           \* rfl_poll
     finger |-> 0,
     spare  |-> 0, made |-> 0,                \* free_frec_src, frec_src_count
     last   |-> [s \in Servers |-> NoServer], \* last_server of the first of a group
     count  |-> [s \in Servers |-> 0],        \* forwardcount
     since  |-> [s \in Servers |-> ForwardTime + 1],       \* forwardtime
     down   |-> FALSE,                        \* a NULL pointer was followed
     out    |-> <<>>,                         \* queries sent by this step
     said   |-> <<>>]                         \* answers given by this step

Live(w) == {i \in DOMAIN w.frecs : w.frecs[i].sent # NoServer}
ServerArray(q) == SelectSeq(Group[q], LAMBDA s : s \in up)
SameGroup(s, t) == \E q \in Questions : {s, t} \subseteq ToSet(Group[q])
Position(s, seq) == SelectInSeq(seq, LAMBDA t : t = s)
Say(w, client, id, q, what) ==
    [w EXCEPT !.said = Append(@, [to |-> client, id |-> id, q |-> q, what |-> what])]

-----------------------------------------------------------------------------
(* The sockets.                                                             *)

BusySocks(w) == {i \in 1 .. RandSocks : w.rand[i].ref # 0}
OpenPorts(w) == w.temps \cup {w.rand[i].port : i \in BusySocks(w)} \cup {Fixed[s] : s \in Servers}
RandomSock(w) == LET free == Ports \ OpenPorts(w) IN IF free = {} THEN NoPort ELSE Min(free)
ServerIsequal(s, t) == t # NoServer /\ Source[t] = Source[s]
SocketOf(w, p) == {i \in BusySocks(w) : w.rand[i].port = p}

\* Mutant: a shared socket is closed by the first that is done with it.
FreeRfds_Close(w, rfds) ==
    [w EXCEPT !.temps = @ \ ToSet(rfds),
              !.rand = [i \in DOMAIN @ |-> IF @[i].port \in ToSet(rfds)
                                           THEN [@[i] EXCEPT !.ref = 0] ELSE @[i]]]

FreeRfds(w, rfds) ==
    LET Drop(e) == IF e.ref > 1 THEN [e EXCEPT !.ref = @ - 1]
                   ELSE [ref |-> 0, serv |-> NoServer, port |-> NoPort]
    IN [w EXCEPT !.temps = @ \ ToSet(rfds),
                 !.rand = [i \in DOMAIN @ |-> IF @[i].ref # 0 /\ @[i].port \in ToSet(rfds)
                                              THEN Drop(@[i]) ELSE @[i]]]

\* The count of sockets in use reads their server, which may be gone.
PortsFull(w) == PortRange # 0 /\ Cardinality(BusySocks(w)) >= PortRange
PortsCrash(w) ==
    /\ PortRange # 0
    /\ \E i \in BusySocks(w) : /\ w.rand[i].serv = NoServer
                               /\ Cardinality({j \in BusySocks(w) : j < i}) < PortRange

Linked(w, f, p) == [w EXCEPT !.frecs[f].rfds = <<p>> \o @]

\* A new socket in a free slot of randomsocks, if there is one.
NewSocket(w, s) ==
    LET in(free, port) ==
            IF free = {} \/ port = NoPort THEN w
            ELSE [w EXCEPT !.rand[Min(free)] = [ref |-> 1, serv |-> s, port |-> port]]
    IN IF PortsFull(w) THEN w ELSE in(1 .. RandSocks \ BusySocks(w), RandomSock(w))

\* One that another query has: not one of our own, in turn from finger.
Shareable(w, f, s) == {i \in BusySocks(w) : /\ ServerIsequal(s, w.rand[i].serv)
                                            /\ w.rand[i].port \notin ToSet(w.frecs[f].rfds)}
NextShareable(w, f, s) ==
    CHOOSE i \in Shareable(w, f, s) : \A j \in Shareable(w, f, s) :
        (i - 1 - w.finger) % RandSocks <= (j - 1 - w.finger) % RandSocks

\* The socket, and the state it leaves; NoPort when none could be had.
AllocateRfd(w, f, s) ==
    LET rfds == w.frecs[f].rfds
        Mine == {j \in DOMAIN rfds : \E i \in SocketOf(w, rfds[j]) : ServerIsequal(s, w.rand[i].serv)}
        with(v, port) == [w |-> Linked(v, f, port), port |-> port]
        again(j) == [w |-> [w EXCEPT !.frecs[f].rfds = <<rfds[j]>> \o RemoveAt(rfds, j)],
                     port |-> rfds[j]]
        shared(i) == with([w EXCEPT !.rand[i].ref = @ + 1, !.finger = i], w.rand[i].port)
        temp(port) == IF port = NoPort THEN [w |-> w, port |-> NoPort]
                      ELSE with([w EXCEPT !.temps = @ \cup {port}], port)
        new(v) ==
            IF v # w
            THEN with(v, v.rand[CHOOSE i \in 1 .. RandSocks : v.rand[i] # w.rand[i]].port)
            ELSE IF Shareable(w, f, s) # {} THEN shared(NextShareable(w, f, s))
            ELSE temp(RandomSock(w))
    IN CASE Fixed[s] # NoPort -> [w |-> w, port |-> Fixed[s]]
         [] Fixed[s] = NoPort /\ Cardinality(Mine) >= RandLimit -> again(Max(Mine))
         [] OTHER ->
              IF PortsCrash(w) THEN [w |-> [w EXCEPT !.down = TRUE], port |-> NoPort]
              ELSE new(NewSocket(w, s))

-----------------------------------------------------------------------------
(* The table.                                                               *)

\* Mutant: the sockets of the query stay open.
FreeFrec_KeepSockets(w, f) ==
    [w EXCEPT !.frecs[f] = Blank, !.spare = @ + Len(w.frecs[f].srcs) - 1]

FreeFrec(w, f) ==
    [FreeRfds(w, w.frecs[f].rfds) EXCEPT !.frecs[f] = Blank,
                                         !.spare = @ + Len(w.frecs[f].srcs) - 1]

FreeFrecs(w, F) == FoldSet(LAMBDA f, v : FreeFrec(v, f), w, F)

GetId(w) == Min(1 .. Len(w.frecs) + 1 \ {w.frecs[i].id : i \in Live(w)})

\* 0 when there is none, or the first that fits is too old.
LookupFrec(w, q, ids) ==
    LET fit == {i \in Live(w) : w.frecs[i].q = q /\ w.frecs[i].id \in ids}
    IN IF fit = {} \/ w.frecs[Min(fit)].age >= DropTime THEN 0 ELSE Min(fit)

AnyId(w) == {w.frecs[i].id : i \in Live(w)}

\* Mutant: a record that was dropped for its age is not the one to use.
GetNewFrec_Forget(w, master) ==
    LET v == FreeFrecs(w, {i \in Live(w) : w.frecs[i].age >= DropTime})
        young == {i \in Live(v) : v.frecs[i].age < Timeout /\ SameGroup(v.frecs[i].sent, master)}
        free == DOMAIN w.frecs \ Live(w)
    IN IF Cardinality(young) >= FtabSize THEN [w |-> v, f |-> 0]
       ELSE IF free # {} THEN [w |-> v, f |-> Max(free)]
       ELSE [w |-> [v EXCEPT !.frecs = <<Blank>> \o @], f |-> 1]

GetNewFrec(w, master) ==
    LET young(v) == {i \in Live(v) : v.frecs[i].age < Timeout /\ SameGroup(v.frecs[i].sent, master)}
        old(v) == {i \in Live(v) : v.frecs[i].age >= Timeout}
        oldest(v) == Max({i \in old(v) : \A j \in old(v) : v.frecs[j].age <= v.frecs[i].age})
        reuse(v, f) == [w |-> FreeFrec(v, f), f |-> f]
        in(v) ==
            IF Cardinality(young(v)) >= FtabSize THEN [w |-> v, f |-> 0]
            ELSE IF DOMAIN v.frecs # Live(v) THEN [w |-> v, f |-> Max(DOMAIN v.frecs \ Live(v))]
            ELSE IF old(v) # {} THEN reuse(v, oldest(v))
            ELSE [w |-> [v EXCEPT !.frecs = <<Blank>> \o @], f |-> 1]
    IN in(FreeFrecs(w, {i \in Live(w) : w.frecs[i].age >= DropTime}))

-----------------------------------------------------------------------------
(* forward_query.                                                           *)

\* To the servers from start on; to one, or counting them when to all.
SendOne(f, s, acc) ==
    LET on(r) ==
            LET e == r.w.frecs[f] IN
            IF r.port = NoPort THEN [acc EXCEPT !.w = r.w]
            ELSE [w |-> [r.w EXCEPT !.frecs[f].sent = s,
                                    !.frecs[f].all = IF @ = 0 THEN 0 ELSE @ + 1,
                                    !.out = Append(@, [to |-> s, port |-> r.port,
                                                       q |-> e.q, id |-> e.id])],
                  sent |-> TRUE, done |-> e.all = 0]
    IN IF acc.done \/ acc.w.down THEN acc ELSE on(AllocateRfd(acc.w, f, s))

SendLoop(w, f, q, start) ==
    LET arr == ServerArray(q)
        first == IF w.frecs[f].all # 0 THEN 1 ELSE start
    IN FoldLeft(LAMBDA acc, s : SendOne(f, s, acc), [w |-> w, sent |-> FALSE, done |-> FALSE],
                SubSeq(arr, first, Len(arr)))

\* Sent on, or cancelled: the one who asked is refused, with the id of the first.
Sent(w, f, a, q, start) ==
    LET refused(v) == IF a.live THEN Say(v, a.client, w.frecs[f].srcs[1].id, q, "full") ELSE v
        outcome(r) == IF r.sent \/ r.w.down THEN r.w ELSE refused(FreeFrec(r.w, f))
    IN outcome(SendLoop(w, f, q, start))

\* The client's question is answered here: no server, or the table is full.
Refused(w, a) == IF a.live THEN Say(w, a.client, a.id, a.q, "full") ELSE w

Start(w, f, arr) ==
    LET m == arr[1]
        probe == w.count[m] > ForwardTest \/ w.since[m] > ForwardTime \/ w.last[m] = NoServer
    IN IF Order \in options
       THEN [w |-> [w EXCEPT !.frecs[f].all = IF AllServers \in options THEN 1 ELSE 0], start |-> 1]
       ELSE IF probe
       THEN [w |-> [w EXCEPT !.frecs[f].all = 1, !.count[m] = 0, !.since[m] = 0], start |-> 1]
       ELSE [w |-> [w EXCEPT !.frecs[f].all = IF AllServers \in options THEN 1 ELSE 0,
                             !.count[m] = @ + 1],
             start |-> Position(w.last[m], arr)]

NewQuery(w, a) ==
    LET arr == ServerArray(a.q)
        e(v) == [Blank EXCEPT !.q = a.q, !.id = GetId(v),
                              !.srcs = <<[client |-> a.client, id |-> a.id, live |-> a.live]>>]
        send(f, s) == Sent(s.w, f, a, a.q, s.start)
        in(r) == IF r.f = 0 THEN Refused(r.w, a)
                 ELSE send(r.f, Start([r.w EXCEPT !.frecs[r.f] = e(r.w)], r.f, arr))
    IN IF arr = <<>> THEN Refused(w, a) ELSE in(GetNewFrec(w, arr[1]))

\* Mutant: strict order asks the same server again.
RetryQuery_Same(w, f, a, why) ==
    LET e == w.frecs[f]
        at == Position(e.sent, ServerArray(e.q))
    IN IF Order \notin options /\ why.old /\ ~why.fast
       THEN Sent([w EXCEPT !.frecs[f].all = 1], f, a, e.q, 1)
       ELSE Sent(w, f, a, e.q, at)

\* Asked again, by a client, a refusal or the clock.  why tells whether the
\* source is known, whether a server has refused, and whether it is quick.
RetryQuery(w, f, a, why) ==
    LET e == w.frecs[f]
        arr == ServerArray(e.q)
        at == Position(e.sent, arr)
        all == Order \notin options /\ why.old /\ ~why.fast
        next == Order \in options /\ ~why.fast
    IN IF next /\ at = Len(arr) /\ why.refused THEN Refused(w, a)
       ELSE Sent(IF all THEN [w EXCEPT !.frecs[f].all = 1] ELSE w, f, a, e.q,
                 IF all THEN 1 ELSE IF next THEN Min({at + 1, Len(arr)}) ELSE at)

\* Mutant: the same client asking again is noted once more.
KnownSource_Never(e, a) == FALSE
KnownSource(e, a) == \E j \in DOMAIN e.srcs : e.srcs[j].id = a.id /\ e.srcs[j].client = a.client

\* Another client with the question of a query under way.
Duplicate(w, f, a) ==
    LET e == w.frecs[f]
        src == [client |-> a.client, id |-> a.id, live |-> a.live]
        v == [w EXCEPT !.frecs[f].srcs = InsertAt(@, 2, src),
                       !.spare = IF @ = 0 THEN 0 ELSE @ - 1,
                       !.made = IF w.spare = 0 THEN @ + 1 ELSE @]
        rest == IF e.age >= Timeout THEN FreeFrec(w, f) ELSE w
    IN IF w.spare = 0 /\ w.made >= FtabSize
       \* the packet is already the one for upstream, with its id
       THEN IF a.live THEN Say(rest, a.client, e.id, a.q, "full") ELSE rest
       ELSE IF e.age < DupTime THEN v
       ELSE RetryQuery(v, f, a, [old |-> FALSE, refused |-> FALSE, fast |-> FALSE])

ForwardQuery(w, a) ==
    LET with(f) ==
            IF f = 0 THEN NewQuery(w, a)
            ELSE IF KnownSource(w.frecs[f], a)
            THEN RetryQuery(w, f, a, [old |-> TRUE, refused |-> FALSE, fast |-> FALSE])
            ELSE Duplicate(w, f, a)
    IN with(LookupFrec(w, a.q, AnyId(w)))

-----------------------------------------------------------------------------
(* reply_query.                                                             *)

\* Mutant: the answer is sent to those, too, who have a stale one already.
ReturnReply_All(w, f, rcode) ==
    LET e == w.frecs[f]
    IN FreeFrec(FoldLeft(LAMBDA v, s : Say(v, s.client, s.id, e.q, rcode), w, e.srcs), f)

ReturnReply(w, f, rcode) ==
    LET e == w.frecs[f]
        Fits(s) == e.q \notin Large \/ s.client \notin Small
        Tell(v, seq, what) == FoldLeft(LAMBDA u, s : Say(u, s.client, s.id, e.q, what), v, seq)
        whole == SelectSeq(e.srcs, LAMBDA s : s.live /\ Fits(s))
        cut == SelectSeq(e.srcs, LAMBDA s : s.live /\ ~Fits(s))
    IN FreeFrec(Tell(Tell(w, whole, rcode), cut, "truncated"), f)

Failed == {"refused", "servfail"}
NoOne == [client |-> CHOOSE c \in Clients : TRUE, id |-> 0,
          q |-> CHOOSE q \in Questions : TRUE, live |-> FALSE]

\* On a socket of the query, or one that belongs to a server of its group.
Expected(w, f, p) ==
    LET arr == ToSet(ServerArray(p.q))
    IN /\ p.port \in ToSet(w.frecs[f].rfds) \cup {Fixed[s] : s \in arr}
       /\ p.to \in arr

LastServer(w, p) ==
    LET m == ServerArray(p.q)[1]
    IN [w EXCEPT !.last[m] = IF p.rcode # "refused" THEN p.to
                             ELSE IF @ = p.to THEN NoServer ELSE @]

ReplyQuery(w, p) ==
    LET f == LookupFrec(w, p.q, {p.id})
        v == LastServer(w, p)
        all == v.frecs[f].all
        heard == [v EXCEPT !.frecs[f].all = IF all = 0 THEN 0 ELSE all - 1]
        done == [FreeRfds(heard, heard.frecs[f].rfds) EXCEPT !.frecs[f].rfds = <<>>,
                                                             !.frecs[f].sent = p.to]
    IN IF f = 0 \/ ~Expected(w, f, p) THEN w
       ELSE IF p.rcode \in Failed /\ all = 0
       THEN RetryQuery(v, f, NoOne, [old |-> TRUE, refused |-> TRUE, fast |-> FALSE])
       ELSE IF all - 1 > 1 /\ p.rcode = "refused" THEN heard
       ELSE ReturnReply(done, f, p.rcode)

Answered(w, p) ==
    LET f == LookupFrec(w, p.q, {p.id})
    IN f # 0 /\ Expected(w, f, p) /\ p.rcode = "ok"

\* The server is removed: its queries go, its sockets keep their users.
ServerGone(w, s) ==
    LET v == FreeFrecs(w, {f \in Live(w) : w.frecs[f].sent = s})
    IN [v EXCEPT !.rand = [i \in DOMAIN @ |-> IF @[i].serv = s
                                              THEN [@[i] EXCEPT !.serv = NoServer] ELSE @[i]]]

\* build_server_array
Rebuilt(w) == [w EXCEPT !.last = [s \in Servers |-> NoServer]]
NewServer(w, s) == [w EXCEPT !.count[s] = 0, !.since[s] = ForwardTime + 1]

-----------------------------------------------------------------------------
(* The steps.  A query sent draws a reply, or none; an answer is taken off  *)
(* what is due.                                                             *)

Pay(d, said) ==
    FoldLeft(LAMBDA acc, s : [due |-> acc.due \ {<<s.to, s.id, s.q>>},
                              odd |-> IF <<s.to, s.id, s.q>> \in acc.due THEN acc.odd
                                      ELSE acc.odd \cup {s.what}],
             [due |-> d, odd |-> {}], said)

Replies(out) == {[to |-> out[i].to, port |-> out[i].port, q |-> out[i].q, id |-> out[i].id,
                  rcode |-> r] : i \in DOMAIN out, r \in UNION {Rcodes[s] : s \in Servers}}

\* One reply of each server's choice to each query; "none" is none.
Chosen(out, R) ==
    /\ \A p \in R : p.rcode \in Rcodes[p.to] \ {"none"}
    /\ \A i \in DOMAIN out :
          LET mine == {p \in R : /\ p.to = out[i].to /\ p.port = out[i].port
                                /\ p.q = out[i].q /\ p.id = out[i].id}
          IN Cardinality(mine) \in {1} \cup (IF "none" \in Rcodes[out[i].to] THEN {0} ELSE {})

Step(w, d, n) ==
    LET p == Pay(d, w.said)
    IN /\ fw' = [w EXCEPT !.out = <<>>, !.said = <<>>]
       /\ due' = p.due
       /\ astray' = astray \cup p.odd
       /\ \E R \in SUBSET Replies(w.out) : Chosen(w.out, R) /\ net' = n \cup R

ReceiveQuery(c, id, q) ==
    LET a == [client |-> c, id |-> id, q |-> q, live |-> cache[q] = "none"]
        local == Say(fw, c, id, q, cache[q])
        w == IF cache[q] = "fresh" THEN local
             ELSE ForwardQuery(IF cache[q] = "stale" THEN local ELSE fw, a)
    IN /\ Cardinality(net) < MaxFlight
       /\ Step(w, due \cup {<<c, id, q>>}, net)
       /\ UNCHANGED <<up, cache, options, mishaps>>

Receive(p, n) ==
    LET w == IF p.port \in OpenPorts(fw) THEN ReplyQuery(fw, p) ELSE fw
    IN /\ Step(w, due, n)
       /\ cache' = IF p.q \in Cached /\ p.port \in OpenPorts(fw) /\ Answered(fw, p)
                   THEN [cache EXCEPT ![p.q] = "fresh"] ELSE cache
       /\ UNCHANGED <<up, options>>

Arrive(p) == p \in net /\ Receive(p, net \ {p}) /\ UNCHANGED mishaps

\* The reply arrives, and a copy of it is still under way.
ArriveTwice(p) ==
    /\ p \in net /\ mishaps < MaxMishaps
    /\ Receive(p, net)
    /\ mishaps' = mishaps + 1

Lose(p) ==
    /\ p \in net /\ mishaps < MaxMishaps
    /\ net' = net \ {p}
    /\ mishaps' = mishaps + 1
    /\ UNCHANGED <<fw, up, cache, due, astray, options>>

QuickRetry(f) ==
    LET e == fw.frecs[f]
    IN /\ f \in Live(fw) /\ e.age < Timeout /\ e.fast < FastRetry
       /\ Cardinality(net) < MaxFlight
       /\ Step(RetryQuery([fw EXCEPT !.frecs[f].fast = @ + 1], f, NoOne,
                          [old |-> TRUE, refused |-> TRUE, fast |-> TRUE]), due, net)
       /\ UNCHANGED <<up, cache, options, mishaps>>

ServersChange(s) ==
    /\ mishaps < MaxMishaps
    /\ mishaps' = mishaps + 1
    /\ up' = IF s \in up THEN up \ {s} ELSE up \cup {s}
    /\ fw' = Rebuilt(IF s \in up THEN ServerGone(fw, s) ELSE NewServer(fw, s))
    /\ UNCHANGED <<cache, net, due, astray, options>>

Expire(q) ==
    /\ cache[q] # "none"
    /\ cache' = [cache EXCEPT ![q] = IF @ = "fresh" /\ Stale \in options THEN "stale" ELSE "none"]
    /\ UNCHANGED <<fw, up, net, due, astray, options, mishaps>>

Tick ==
    /\ fw' = [fw EXCEPT !.frecs = [i \in DOMAIN @ |->
                                     IF @[i].sent = NoServer THEN @[i]
                                     ELSE [@[i] EXCEPT !.age = Min({@ + 1, DropTime})]],
                        !.since = [s \in Servers |-> Min({@[s] + 1, ForwardTime + 1})]]
    /\ UNCHANGED <<up, cache, net, due, astray, options, mishaps>>

Init ==
    /\ fw = InitForward
    /\ up = Servers
    /\ cache = [q \in Questions |-> "none"]
    /\ net = {} /\ due = {} /\ astray = {}
    /\ options \in Modes
    /\ mishaps = 0

Next ==
    /\ ~fw.down
    /\ \/ \E <<c, id, q>> \in Asks : ReceiveQuery(c, id, q)
       \/ \E p \in net : Arrive(p) \/ ArriveTwice(p) \/ Lose(p)
       \/ \E f \in DOMAIN fw.frecs : QuickRetry(f)
       \/ \E s \in Servers : ServersChange(s)
       \/ \E q \in Questions : Expire(q)
       \/ Tick

\* Replies of a server that are still waited for.
Awaited(s, q) ==
    {p \in net : /\ p.to = s /\ p.q = q /\ p.port \in OpenPorts(fw)
                /\ LookupFrec(fw, q, {p.id}) # 0 /\ Expected(fw, LookupFrec(fw, q, {p.id}), p)}

\* The patient client is due an answer; its query is in the table.
Asking == Patient \in due /\ Cardinality(net) < MaxFlight
Tabled ==
    LET f == LookupFrec(fw, Patient[3], AnyId(fw))
    IN f # 0 /\ KnownSource(fw.frecs[f], [client |-> Patient[1], id |-> Patient[2]])
Again == ReceiveQuery(Patient[1], Patient[2], Patient[3])

\* It asks again, and the replies of each server arrive, neither always too
\* late; time goes on.  What the other clients do is open.  These are strong
\* fairness of Again and Arrive, with what enables them written out.
Fairness ==
    /\ <>[]~Asking \/ []<><<Again>>_vars
    /\ <>[]~(Asking /\ Tabled) \/ []<><<Tabled /\ Again>>_vars
    /\ []<>(net = {}) \/ []<><<\E p \in net : Arrive(p)>>_vars
    /\ \A s \in Servers :
          \/ <>[](~Tabled \/ Awaited(s, Patient[3]) = {})
          \/ []<><<Tabled /\ \E p \in Awaited(s, Patient[3]) : Arrive(p)>>_vars
    /\ WF_vars(Tick)

Spec == Init /\ [][Next]_vars /\ Fairness

-----------------------------------------------------------------------------
(* Properties.                                                              *)

\* Whatever is combined, retried or answered from a stale record: an answer
\* of upstream goes only to a client that asked that question with that id
\* and has had no answer since (return_reply, frec_src).
AnswersOwed == astray \subseteq {"full"}

\* The same of a refusal given because the table is full (forward.c:236).
RefusalsOwed == astray = {}

\* The count of users of a shared socket is that of the queries that have it,
\* each at most once; an overflow socket is one query's; no two are one.
SocketsBalanced ==
    LET Users(p) == {f \in DOMAIN fw.frecs : p \in ToSet(fw.frecs[f].rfds)}
    IN /\ \A i \in BusySocks(fw) : fw.rand[i].ref = Cardinality(Users(fw.rand[i].port))
       /\ \A p \in fw.temps : Cardinality(Users(p)) = 1
       /\ \A f \in DOMAIN fw.frecs :
             /\ IsInjective(fw.frecs[f].rfds)
             /\ ToSet(fw.frecs[f].rfds) \subseteq OpenPorts(fw)
       /\ \A i, j \in BusySocks(fw) : i # j => fw.rand[i].port # fw.rand[j].port
       /\ \A i \in BusySocks(fw) : fw.rand[i].port \notin fw.temps

\* The table never grows past ftabsize for each group of servers, and every
\* record of a further client is in a query or on the free list (get_new_frec).
TableBounded ==
    LET masters == {Group[q] : q \in Questions}
        Extra(e) == IF e.sent = NoServer THEN 0 ELSE Len(e.srcs) - 1
    IN /\ Len(fw.frecs) <= FtabSize * Cardinality(masters)
       /\ fw.spare + FoldLeft(LAMBDA n, e : n + Extra(e), 0, fw.frecs) = fw.made

\* A client that keeps asking is answered, in whatever order the servers are
\* tried, as long as one for its question answers and the records of further
\* clients have not run out (which others can then keep as it is for ever).
Answers(q) == \E s \in ToSet(ServerArray(q)) : Rcodes[s] = {"ok"}
AskersAnswered ==
    Patient \in due ~> \/ Patient \notin due
                       \/ ~Answers(Patient[3]) \/ "full" \in astray

\* Refused only when no server has an answer under way (forward.c:1265).
RefusedByAll ==
    [][\A p \in net : net' = net \ {p} /\ p.rcode = "refused" /\ due' # due
         => ~\E o \in net : o.q = p.q /\ o.id = p.id /\ o.rcode = "ok" /\ Answered(fw, o)]_vars

\* The server of a random socket is looked at only when there is one
\* (forward.c:2859).
NeverDown == ~fw.down

\* Each reply to who asked, each socket with who uses it, each record counted.
BooksBalanced == AnswersOwed /\ SocketsBalanced /\ TableBounded
=============================================================================
