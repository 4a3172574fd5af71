----------------------------- MODULE Dhcp6Server -----------------------------
(***************************************************************************)
(* The DHCPv6 server of dnsmasq (rfc3315.c, dhcp6.c, lease.c): its ranges   *)
(* ("contexts") on several prefixes, the addresses reserved for hosts, the  *)
(* leases and their file; restarts with another configuration; the hosts    *)
(* that solicit, request, renew, rebind, confirm, release and decline; and  *)
(* a network that loses and repeats packets.                                *)
(*                                                                         *)
(* An address is a pair of a prefix and a host part.  Every host uses one    *)
(* IA at a time.  Times are relative, as in DhcpServer.                     *)
(***************************************************************************)
EXTENDS Integers, FiniteSets, SequencesExt

CONSTANTS Hosts,          \* one DUID each
          Iaids,          \* the IAIDs a host may use, one at a time
          Hash,           \* what address6_allocate makes of DUID and IAID
          At,             \* the link address of a host's relay, or Arrival
          Rapid,          \* the hosts that ask for rapid commit
          MacKnown,       \* the hosts whose hardware address can be found out
          Configs,        \* configurations, one after the other: see Context
          Arrivals,       \* prefixes of the interface the server listens on
          Reserved,       \* dhcp-host: a sequence of addresses for every host
          Noted,          \* addresses hosts remember, and intruders use
          Own,            \* the host part of the server's own addresses
          Wish,           \* lifetimes a host asks for: [preferred, valid]
          Sanity,         \* the 120 s below which no wish is granted
          LeaseTime,      \* lease time in ticks
          Backoff,        \* DECLINE_BACKOFF
          Authoritative,  \* OPT_AUTHORITATIVE
          MaxLeases,      \* dhcp_max
          MaxMishaps      \* bound: lost, repeated, delayed packets, crashes, ...

Arrival == 0
NoDuid == "none"
Context == [net : Nat \ {0}, lo : Nat, hi : Nat, static : BOOLEAN,
            deprecate : BOOLEAN, stateless : BOOLEAN, filter : SUBSET Hosts]
Statics == UNION {Range(Reserved[h]) : h \in Hosts}

ASSUME Dhcp6Assumption ==
    /\ NoDuid \notin Hosts
    /\ \A k \in DOMAIN Configs : Range(Configs[k]) \subseteq Context
    /\ \A k \in DOMAIN Configs : \A x \in Range(Configs[k]) : x.lo <= x.hi
    /\ {Sanity, LeaseTime, Backoff, MaxLeases} \subseteq Nat \ {0}
    /\ MaxMishaps \in Nat

VARIABLES
    conf,       \* which of Configs is in force
    leases,     \* the list of leases, newest first
    dirty,      \* file_dirty
    busy,       \* the answer has left, the file is still to be brought up to date
    file,       \* what the lease file holds
    epoch,      \* addr_epoch of each context, modulo its size
    declined,   \* ticks since a reserved address was declined, or -1
    up, full, lost,
    host,       \* the DHCPv6 client of each host
    static,     \* addresses used by hosts that do without DHCP
    req, rep,   \* the packet under way from and to each host
    mishaps

server == <<leases, dirty, busy, file, epoch, declined>>
world  == <<conf, up, full, lost, static, mishaps>>
vars == <<server, world, host, req, rep>>

None == [op |-> "none"]
Blank == [st |-> "init", addrs |-> {}, iaid |-> 1, t1 |-> 0, paused |-> FALSE,
          asleep |-> FALSE]
Infinite == LeaseTime + 1
Lesser(a, b) == IF a < b THEN a ELSE b

Holds(h, a) == \E x \in host[h].addrs : x.addr = a
Answers(a) == a \in static \/ \E h \in Hosts : Holds(h, a) /\ ~host[h].asleep

-----------------------------------------------------------------------------
(* dhcp6.c: the contexts a packet may be served from.                       *)

Preferred(x) == IF x.deprecate THEN 0 ELSE Infinite

\* complete_context6: a context of the arrival interface goes in front of the
\* first that is not preferred for longer.
Linked(xs, chain, k) ==
    LET later == {i \in DOMAIN chain : Preferred(xs[chain[i]]) <= Preferred(xs[k])}
    IN IF later = {} THEN Append(chain, k) ELSE InsertAt(chain, Min(later), k)

\* The chain for a packet, as indices in the configuration: that of the arrival
\* interface, or, for a relayed packet, the contexts around the link address.
Chain(h) ==
    LET xs == Configs[conf]
        direct(chain, k) == IF xs[k].net \in Arrivals THEN Linked(xs, chain, k) ELSE chain
        relayed(chain, k) == IF xs[k].net = At[h] THEN <<k>> \o chain ELSE chain
        all == [i \in DOMAIN xs |-> i]
    IN IF At[h] = Arrival THEN FoldLeft(direct, <<>>, all)
       ELSE FoldLeft(relayed, <<>>, all)

Ctx(k) == Configs[conf][k]

\* match_netid on the filter of a context: without filter only if plain.
Matches(h, k, plain) == IF Ctx(k).filter = {} THEN plain ELSE h \in Ctx(k).filter

FirstOf(s, none) == IF s = <<>> THEN none ELSE Head(s)

NoContext == 0
FirstContext(h, Test(_)) == FirstOf(SelectSeq(Chain(h), Test), NoContext)

\* Mutant: any range will do.
Valid_Anywhere(h, a) == FirstContext(h, LAMBDA k : Matches(h, k, TRUE))

\* address6_valid: on the link, if configured for the host.
Valid(h, a) == FirstContext(h, LAMBDA k : Ctx(k).net = a[1] /\ Matches(h, k, TRUE))

\* address6_available: may be given out.
Available(h, a) ==
    FirstContext(h, LAMBDA k :
        /\ ~Ctx(k).static /\ ~Ctx(k).stateless
        /\ Ctx(k).net = a[1] /\ a[2] \in Ctx(k).lo .. Ctx(k).hi
        /\ Matches(h, k, TRUE))

-----------------------------------------------------------------------------
(* lease.c.                                                                *)

Pruned(ls) == SelectSeq(ls, LAMBDA l : l.left # 0)
NoLease == [addr |-> <<0, 0>>, duid |-> NoDuid, iaid |-> 0, left |-> 0]

FirstLease(ls, Test(_)) == FirstOf(SelectSeq(ls, Test), NoLease)

\* lease6_find_by_addr and lease6_find.
FindByAddr(ls, a) == FirstLease(ls, LAMBDA l : l.addr = a)
Find(ls, h, iaid, a) ==
    FirstLease(ls, LAMBDA l : l.addr = a /\ l.duid = h /\ l.iaid = iaid)

Replaced(ls, l, new) == [i \in DOMAIN ls |-> IF ls[i] = l THEN new ELSE ls[i]]
Without(ls, l) == SelectSeq(ls, LAMBDA x : x # l)

\* lease6_allocate: if there is room, a lease in front, about to expire.
Created(ls, a) ==
    IF Len(ls) >= MaxLeases THEN ls ELSE <<[NoLease EXCEPT !.addr = a]>> \o ls

\* Mutant: an address leased to another host passes for free.
CheckAddress_Any(ls, h, iaid, a) == TRUE

\* check_address: nobody has it, or this IA.
CheckAddress(ls, h, iaid, a) ==
    LET l == FindByAddr(ls, a) IN l = NoLease \/ (l.duid = h /\ l.iaid = iaid)

\* update_leases: the lease of the address, old or new, goes to the IA.
Updated(ls, h, iaid, a, time) ==
    LET made == IF FindByAddr(ls, a) = NoLease THEN Created(ls, a) ELSE ls
        l == FindByAddr(made, a)
    IN IF l = NoLease THEN made
       ELSE Replaced(made, l, [addr |-> a, duid |-> h, iaid |-> iaid, left |-> time])

-----------------------------------------------------------------------------
(* rfc3315.c: reserved addresses and lifetimes.                             *)

\* config_implies: a could come from the host's dhcp-host line.
ConfigImplies(h, k, a) == a \in Range(Reserved[h]) /\ Ctx(k).net = a[1]

\* Mutant: a declined address is offered again at once.
Rested_AtOnce(a) == TRUE

Rested(a) == declined[a] = -1 \/ declined[a] >= Backoff

NoAddr == <<0, 0>>

\* config_valid: the first reserved address of the prefix that may be used.
ConfigAddr(ls, h, iaid, k) ==
    FirstOf(SelectSeq(Reserved[h], LAMBDA a :
                Rested(a) /\ Ctx(k).net = a[1] /\ CheckAddress(ls, h, iaid, a)), NoAddr)

\* config_find_by_address6: reserved for anybody.
IsReserved(a) == a \in Statics

\* calculate_times: the wish, within what is sane and what the lease allows.
CalculateTimes(k, wish) ==
    LET sane(t) == IF t = 0 THEN LeaseTime
                   ELSE Lesser(LeaseTime, IF t < Sanity THEN Sanity ELSE t)
        heed == wish.preferred <= wish.valid
        valid == IF heed THEN sane(wish.valid) ELSE LeaseTime
        pref  == IF heed THEN sane(wish.preferred) ELSE LeaseTime
    IN [valid |-> valid, preferred |-> IF Ctx(k).deprecate THEN 0 ELSE pref]

NoWish == [preferred |-> 0, valid |-> 0]

\* end_ia: T1 is half the least lifetime that is not zero.
T1(ia) ==
    LET times == UNION {{e.valid, e.preferred} : e \in ia} \ {0}
    IN IF times = {} THEN 0 ELSE Min(times) \div 2

\* address6_allocate in one context: from a place that depends on the IA, the
\* first address that is neither the server's, nor leased, nor reserved.
AllocateIn(ls, h, iaid, k) ==
    LET x == Ctx(k)
        size == x.hi - x.lo + 1
        at(n) == <<x.net, x.lo + ((Hash[h] + iaid + epoch[k] + n) % size)>>
        own == IF At[h] = Arrival THEN {Own} ELSE {}
        free == {n \in 0 .. size - 1 :
                    /\ at(n)[2] \notin own
                    /\ FindByAddr(ls, at(n)) = NoLease
                    /\ ~IsReserved(at(n))}
    IN IF free = {} \/ x.deprecate \/ x.static \/ x.stateless THEN NoAddr
       ELSE at(Min(free))

-----------------------------------------------------------------------------
(* rfc3315.c: dhcp6_no_relay, one handler per message.  "acc" is what has   *)
(* been done so far: the leases, the addresses put in the IA, the prefixes  *)
(* that have one, those whose reserved address is used.                     *)

Start(ls) == [leases |-> ls, ia |-> {}, used |-> {}, configured |-> {}]
Given(acc) == {e.addr : e \in acc.ia}

\* add_address, with mark_context_used.
AddAddress(acc, h, msg, commit, k, a, wish) ==
    LET t == CalculateTimes(k, wish)
    IN [acc EXCEPT !.ia = @ \cup {[addr |-> a, valid |-> t.valid, preferred |-> t.preferred]},
                   !.used = @ \cup {a[1]},
                   !.leases = IF commit THEN Updated(@, h, msg.iaid, a, t.valid) ELSE @]

\* SOLICIT, the addresses the client names: the reserved one in their place, or
\* those it may have.
Hinted(h, msg, commit, acc, a) ==
    LET k == Valid(h, a)
        fixed == IF k = NoContext \/ a[1] \in acc.configured THEN NoAddr
                 ELSE ConfigAddr(acc.leases, h, msg.iaid, k)
        d == Available(h, a)
        wish == Wish[h]
    IN IF k = NoContext THEN acc
       ELSE IF fixed # NoAddr
       THEN [AddAddress(acc, h, msg, commit, k, fixed, wish) EXCEPT !.configured = @ \cup {a[1]}]
       ELSE IF d # NoContext /\ CheckAddress(acc.leases, h, msg.iaid, a)
       THEN AddAddress(acc, h, msg, commit, d, a, wish)
       ELSE acc

\* SOLICIT, the reserved addresses.
Suggested(h, msg, commit, acc, k) ==
    LET a == ConfigAddr(acc.leases, h, msg.iaid, k) IN
    IF Ctx(k).net \in acc.configured \/ ~Matches(h, k, TRUE) \/ a = NoAddr THEN acc
    ELSE [AddAddress(acc, h, msg, commit, k, a, NoWish) EXCEPT !.configured = @ \cup {a[1]}]

\* SOLICIT, the leases the client has.
Kept(h, msg, commit, acc, l) ==
    LET k == Available(h, l.addr) IN
    IF l.addr \in Given(acc) \/ l.duid # h \/ l.iaid # msg.iaid \/ k = NoContext THEN acc
    ELSE AddAddress(acc, h, msg, commit, k, l.addr, NoWish)

\* SOLICIT, a new address on every prefix without one.
Allocated(h, msg, commit, acc, k) ==
    LET a == AllocateIn(acc.leases, h, msg.iaid, k) IN
    IF Ctx(k).net \in acc.used \/ a = NoAddr THEN acc
    ELSE AddAddress(acc, h, msg, commit, k, a, NoWish)

\* Contexts made for the tags of the client come before those without filter.
InPasses(h) ==
    SelectSeq(Chain(h), LAMBDA k : Matches(h, k, FALSE))
        \o SelectSeq(Chain(h), LAMBDA k : Ctx(k).filter = {})

Assign(h, msg, commit, ls) ==
    LET a1 == FoldLeft(LAMBDA acc, a : Hinted(h, msg, commit, acc, a), Start(ls), msg.addrs)
        a2 == FoldLeft(LAMBDA acc, k : Suggested(h, msg, commit, acc, k), a1, Chain(h))
        a3 == FoldLeft(LAMBDA acc, l : Kept(h, msg, commit, acc, l), a2, a2.leases)
    IN FoldLeft(LAMBDA acc, k : Allocated(h, msg, commit, acc, k), a3, InPasses(h))

Result(ls, answer) ==
    [leases |-> ls, answer |-> answer, epoch |-> epoch, declined |-> declined]
Answer(op, status, ia) == [op |-> op, status |-> status, ia |-> ia, t1 |-> T1(ia)]

\* DHCP6SOLICIT, with or without rapid commit.
Solicited(ls, h, msg, commit) ==
    LET reply(acc) ==
            Result(acc.leases, Answer(IF commit THEN "REPLY" ELSE "ADVERTISE",
                                      IF acc.ia = {} THEN "NoAddrs" ELSE "ok", acc.ia))
    IN reply(Assign(h, msg, commit, ls))

\* DHCP6REQUEST.
Requested(ls, h, msg) ==
    LET one(acc, a) ==
            LET k == Valid(h, a)
                d == Available(h, a)
                fixed == k # NoContext /\ ConfigImplies(h, k, a)
            IN IF (d = NoContext /\ ~fixed) \/ ~CheckAddress(acc.leases, h, msg.iaid, a)
               THEN acc
               ELSE AddAddress(acc, h, msg, TRUE, IF d = NoContext THEN k ELSE d, a, Wish[h])
        reply(done) ==
            Result(done.leases,
                   Answer("REPLY", IF done.ia = {} THEN "NoAddrs" ELSE "ok", done.ia))
    IN IF msg.addrs = <<>> THEN Solicited(ls, h, msg, TRUE)
       ELSE reply(FoldLeft(one, Start(ls), msg.addrs))

\* DHCP6RENEW and DHCP6REBIND, one address; "halt" when the loop is left.  A
\* lease the server lacks is made anew for a REBIND if it is authoritative, and
\* gets its DUID only if the hardware address is known.
Renewed(h, msg, acc, a) ==
    LET rebind == msg.op = "REBIND"
        made == IF rebind /\ Authoritative THEN Created(acc.leases, a) ELSE acc.leases
        context == FirstOf(SelectSeq(<<Available(h, a), Valid(h, a)>>,
                                     LAMBDA k : k # NoContext), NoContext)
        times(k) == IF k = NoContext THEN [valid |-> 0, preferred |-> 0]
                    ELSE CalculateTimes(k, Wish[h])
        kept(lease, k, t) ==
            [lease EXCEPT !.iaid = msg.iaid,
                          !.left = IF k = NoContext THEN @ ELSE t.valid,
                          !.duid = IF k # NoContext /\ h \in MacKnown THEN h ELSE @]
        extended(found, k, t) ==
            [acc EXCEPT
                !.ia = @ \cup {[addr |-> a, valid |-> t.valid, preferred |-> t.preferred]},
                !.some = @ \/ k # NoContext,
                !.leases = IF found = NoLease THEN <<kept(Head(made), k, t)>> \o Tail(made)
                           ELSE Replaced(@, found, kept(found, k, t))]
        result(found) ==
            IF found = NoLease /\ made = acc.leases
            THEN [acc EXCEPT !.halt = TRUE, !.lacks = ~rebind, !.ia = IF rebind THEN @ ELSE {}]
            ELSE LET in(k) == extended(found, k, times(k)) IN in(context)
    IN IF acc.halt THEN acc ELSE result(Find(acc.leases, h, msg.iaid, a))

RenewedAll(ls, h, msg) ==
    LET status(acc) == IF acc.lacks THEN "NoBinding"
                       ELSE IF msg.op = "REBIND" /\ ~acc.some THEN "NoAddrs" ELSE "ok"
        reply(acc) == Result(acc.leases, Answer("REPLY", status(acc), acc.ia))
    IN reply(FoldLeft(LAMBDA x, a : Renewed(h, msg, x, a),
                      [leases |-> ls, ia |-> {}, halt |-> FALSE, lacks |-> FALSE,
                       some |-> FALSE], msg.addrs))

\* DHCP6CONFIRM: are they all on the link?
Confirmed(ls, h, msg) ==
    LET good == \A a \in Range(msg.addrs) : Valid(h, a) # NoContext
    IN Result(ls, IF msg.addrs = <<>> THEN None
                  ELSE Answer("REPLY", IF good THEN "ok" ELSE "NotOnLink", {}))

\* lease6_find and lease_prune, for every address in the message.
GivenUp(ls, h, msg) ==
    SelectSeq(ls, LAMBDA l : ~(l.duid = h /\ l.iaid = msg.iaid /\ l.addr \in Range(msg.addrs)))

\* DHCP6RELEASE.
Released(ls, h, msg) == Result(GivenUp(ls, h, msg), Answer("REPLY", "done", {}))

\* DHCP6DECLINE: a reserved address of the first context rests; for any other
\* one all contexts start elsewhere next time.
Declined(ls, h, msg) ==
    LET resting == {a \in Range(msg.addrs) : ConfigImplies(h, Chain(h)[1], a)}
        others == Cardinality(Range(msg.addrs) \ resting)
        size(k) == Ctx(k).hi - Ctx(k).lo + 1
    IN [Result(GivenUp(ls, h, msg), Answer("REPLY", "done", {})) EXCEPT
           !.declined = [a \in Statics |-> IF a \in resting THEN 0 ELSE declined[a]],
           !.epoch = [k \in DOMAIN epoch |->
                         IF k \in Range(Chain(h)) THEN (epoch[k] + others) % size(k) ELSE epoch[k]]]

\* A packet for which there is no context gets no answer.
Dhcp6Reply(h, msg) ==
    LET ls == Pruned(leases) IN
    CASE Chain(h) = <<>> -> Result(ls, None)
      [] Chain(h) # <<>> /\ msg.op = "SOLICIT" -> Solicited(ls, h, msg, msg.rapid)
      [] Chain(h) # <<>> /\ msg.op = "REQUEST" -> Requested(ls, h, msg)
      [] Chain(h) # <<>> /\ msg.op \in {"RENEW", "REBIND"} -> RenewedAll(ls, h, msg)
      [] Chain(h) # <<>> /\ msg.op = "CONFIRM" -> Confirmed(ls, h, msg)
      [] Chain(h) # <<>> /\ msg.op = "RELEASE" -> Released(ls, h, msg)
      [] Chain(h) # <<>> /\ msg.op = "DECLINE" -> Declined(ls, h, msg)

\* dhcp6_packet, up to sendto: the answer leaves before the file is written.
Handled(h) ==
    /\ up /\ ~busy /\ req[h] # None
    /\ \E r \in {Dhcp6Reply(h, req[h])} :
       /\ leases' = r.leases
       /\ epoch' = r.epoch
       /\ declined' = r.declined
       /\ dirty' = (dirty \/ r.leases # leases)
       /\ busy' = dirty'
       /\ rep' = IF r.answer = None THEN rep ELSE [rep EXCEPT ![h] = r.answer]
    /\ UNCHANGED <<file, host, conf, up, full, lost, static>>

Dhcp6Packet(h) ==
    /\ Handled(h)
    /\ req' = [req EXCEPT ![h] = None]
    /\ UNCHANGED mishaps

Elsewhere == UNCHANGED <<host, req, rep, conf, static>>

\* Mutant: a write that failed is forgotten.
UpdateFile_Forgets(ls) ==
    /\ file' = IF full THEN <<>> ELSE ls
    /\ dirty' = FALSE

\* lease_update_file, after the packet.  A full file system leaves a truncated
\* file, and the news for the next time.
UpdateFile(ls) ==
    /\ file' = IF full THEN <<>> ELSE ls
    /\ dirty' = full

Finish ==
    /\ up /\ busy
    /\ UpdateFile(leases)
    /\ busy' = FALSE
    /\ UNCHANGED <<leases, epoch, declined, up, full, lost, mishaps>> /\ Elsewhere

RunOut == \E i \in DOMAIN leases : leases[i].left = 0

\* EVENT_ALARM.
Alarm ==
    /\ up /\ ~busy /\ (dirty \/ RunOut)
    /\ leases' = Pruned(leases)
    /\ UpdateFile(leases')
    /\ UNCHANGED <<busy, epoch, declined, up, full, lost, mishaps>> /\ Elsewhere

Mishap == mishaps < MaxMishaps /\ mishaps' = mishaps + 1

Fresh(k) == [i \in DOMAIN Configs[k] |-> 0]

\* The server is killed, between two steps or while it writes the file.
Crash ==
    /\ up /\ Mishap
    /\ up' = FALSE
    /\ \/ UNCHANGED file /\ lost' = (lost \/ dirty)
       \/ dirty /\ file' = <<>> /\ lost' = TRUE
    /\ leases' = <<>> /\ dirty' = FALSE /\ busy' = FALSE
    /\ epoch' = Fresh(conf)
    /\ declined' = [a \in Statics |-> -1]
    /\ UNCHANGED full /\ Elsewhere

\* lease_init, with the same configuration or the next one.
LeaseInit ==
    /\ ~up
    /\ up' = TRUE
    /\ conf' \in {conf, conf + 1} \cap DOMAIN Configs
    /\ epoch' = Fresh(conf')
    /\ leases' = Pruned(Reverse(file))
    /\ dirty' = (leases' # Reverse(file))
    /\ UNCHANGED <<busy, file, declined, full, lost, mishaps, host, req, rep, static>>

-----------------------------------------------------------------------------
(* The hosts: DHCPv6 clients as RFC 8415 wants them.                        *)

Outside == UNCHANGED <<server, conf, up, full, lost, static>>
Quietly == Outside /\ UNCHANGED mishaps

Sends(h, hc, msg) ==
    /\ req[h] = None
    /\ req' = [req EXCEPT ![h] = msg]
    /\ rep' = [rep EXCEPT ![h] = None]
    /\ host' = [host EXCEPT ![h] = hc]

Message(h, op, addrs) ==
    [op |-> op, iaid |-> host[h].iaid, addrs |-> SetToSeq(addrs), rapid |-> FALSE]
AddrsOf(hc) == {x.addr : x \in hc.addrs}
Awake(hc) == ~hc.asleep /\ ~hc.paused
Hears(h, states) == ~host[h].asleep /\ host[h].st \in states /\ rep[h] # None

Solicits(h, hints) ==
    /\ Awake(host[h]) /\ host[h].st = "init"
    /\ Sends(h, [host[h] EXCEPT !.st = "soliciting"],
             [Message(h, "SOLICIT", hints) EXCEPT !.rapid = (h \in Rapid)])

Solicit(h) == Solicits(h, {}) /\ Quietly

\* The same, naming an address the host remembers from another day.
SolicitHint(h, a) == Solicits(h, {a}) /\ Mishap /\ Outside

\* An ADVERTISE is taken up, with the addresses in it or without any.
Request(h) ==
    /\ Hears(h, {"soliciting"}) /\ rep[h].op = "ADVERTISE" /\ rep[h].status = "ok"
    /\ Sends(h, [host[h] EXCEPT !.st = "requesting"],
             Message(h, "REQUEST", {e.addr : e \in rep[h].ia}))
    /\ Quietly

\* The same, with an IA that names no address.
RequestAny(h) ==
    /\ Hears(h, {"soliciting"}) /\ rep[h].op = "ADVERTISE" /\ rep[h].status = "ok"
    /\ Mishap
    /\ Sends(h, [host[h] EXCEPT !.st = "requesting"], Message(h, "REQUEST", {}))
    /\ Outside

DropAll(hc) == [hc EXCEPT !.st = "init", !.addrs = {}, !.t1 = 0, !.paused = TRUE]

Granted(h) == {e \in rep[h].ia : e.valid > 0}

\* A REPLY that grants addresses: each is probed, and declined if it is taken.
Accept(h) ==
    LET hc == host[h]
        taken == {e.addr : e \in {x \in Granted(h) : Answers(x.addr)}}
        got == {[addr |-> e.addr, left |-> e.valid] :
                   e \in {x \in Granted(h) : x.addr \notin taken}}
        new == IF got = {} THEN DropAll(hc)
               ELSE [hc EXCEPT !.st = "bound", !.addrs = got, !.t1 = rep[h].t1]
    IN /\ Hears(h, {"soliciting", "requesting"}) /\ rep[h].op = "REPLY" /\ Granted(h) # {}
       /\ IF taken # {} THEN Sends(h, new, Message(h, "DECLINE", taken))
          ELSE /\ host' = [host EXCEPT ![h] = new]
               /\ rep' = [rep EXCEPT ![h] = None]
               /\ UNCHANGED req
       /\ Quietly

\* An answer without an address.
Rejected(h) ==
    /\ Hears(h, {"soliciting", "requesting"})
    /\ rep[h].status = "NoAddrs"
    /\ host' = [host EXCEPT ![h] = DropAll(@)]
    /\ rep' = [rep EXCEPT ![h] = None]
    /\ UNCHANGED req
    /\ Quietly

\* RENEW from T1 on, REBIND when that was of no use.
Renew(h, op) ==
    /\ Awake(host[h]) /\ host[h].st = "bound" /\ host[h].t1 = 0
    /\ op = "REBIND" => \E x \in host[h].addrs : x.left = 1
    /\ Sends(h, [host[h] EXCEPT !.st = "renewing"], Message(h, op, AddrsOf(host[h])))
    /\ Quietly

\* Its answer: new lifetimes, addresses to be given up, or a server that knows
\* of none and is asked for them again.
Extended(h) ==
    LET hc == host[h]
        named == {e.addr : e \in rep[h].ia}
        addrs == {x \in hc.addrs : x.addr \notin named}
                 \cup {[addr |-> e.addr, left |-> e.valid] : e \in Granted(h)}
    IN /\ Hears(h, {"renewing"}) /\ rep[h].op = "REPLY"
       /\ IF rep[h].status = "NoBinding"
          THEN Sends(h, [hc EXCEPT !.st = "requesting"], Message(h, "REQUEST", AddrsOf(hc)))
          ELSE /\ host' = [host EXCEPT ![h] =
                             IF addrs = {} THEN DropAll(hc)
                             ELSE [hc EXCEPT !.st = "bound", !.addrs = addrs, !.t1 = rep[h].t1,
                                             !.paused = (rep[h].t1 = 0)]]
               /\ rep' = [rep EXCEPT ![h] = None]
               /\ UNCHANGED req
       /\ Quietly

\* A host that wakes, or whose link comes up, asks whether it may stay.
Confirm(h) ==
    /\ host[h].asleep
    /\ IF host[h].addrs = {}
       THEN /\ host' = [host EXCEPT ![h].asleep = FALSE, ![h].st = "init"]
            /\ UNCHANGED <<req, rep>>
       ELSE Sends(h, [host[h] EXCEPT !.asleep = FALSE, !.st = "confirming"],
                  Message(h, "CONFIRM", AddrsOf(host[h])))
    /\ Quietly

Stays(h) ==
    /\ Hears(h, {"confirming"}) /\ rep[h].op = "REPLY"
    /\ host' = [host EXCEPT ![h] = IF rep[h].status = "ok" THEN [@ EXCEPT !.st = "bound"]
                                   ELSE DropAll(@)]
    /\ rep' = [rep EXCEPT ![h] = None]
    /\ UNCHANGED req
    /\ Quietly

\* An answer nobody waits for.
Expected(h) ==
    /\ ~host[h].asleep
    /\ \/ /\ host[h].st \in {"soliciting", "requesting"}
          /\ rep[h].status = "NoAddrs" \/ (rep[h].op = "REPLY" /\ Granted(h) # {})
       \/ host[h].st = "soliciting" /\ rep[h].op = "ADVERTISE"
       \/ host[h].st \in {"renewing", "confirming"} /\ rep[h].op = "REPLY"

Discard(h) ==
    /\ rep[h] # None /\ ~Expected(h)
    /\ rep' = [rep EXCEPT ![h] = None]
    /\ UNCHANGED <<host, req>>
    /\ Quietly

Waiting(h) == host[h].st \in {"soliciting", "requesting", "renewing", "confirming"}

TimedOut(h) ==
    /\ ~host[h].asleep /\ Waiting(h) /\ req[h] = None /\ rep[h] = None
    /\ host' = [host EXCEPT ![h] =
           IF @.addrs = {} THEN DropAll(@) ELSE [@ EXCEPT !.st = "bound", !.paused = TRUE]]
    /\ UNCHANGED <<req, rep>>
    /\ Quietly

Release(h) ==
    /\ Awake(host[h]) /\ host[h].st = "bound" /\ Mishap
    /\ Sends(h, DropAll(host[h]), Message(h, "RELEASE", AddrsOf(host[h])))
    /\ Outside

\* Another system starts on the host, with an IAID of its own.
Reboot(h) ==
    /\ host[h] # Blank /\ Mishap
    /\ \E i \in Iaids : host' = [host EXCEPT ![h] = [Blank EXCEPT !.iaid = i]]
    /\ rep' = [rep EXCEPT ![h] = None]
    /\ UNCHANGED req
    /\ Outside

Sleep(h) ==
    /\ ~host[h].asleep /\ host[h].st = "bound" /\ Mishap
    /\ host' = [host EXCEPT ![h].asleep = TRUE]
    /\ UNCHANGED <<req, rep>>
    /\ Outside

-----------------------------------------------------------------------------
(* The network, the other hosts, the storage and the clock.                *)

LoseRequest(h) ==
    /\ req[h] # None
    /\ \/ ~up /\ UNCHANGED mishaps
       \/ up /\ Mishap
    /\ req' = [req EXCEPT ![h] = None]
    /\ UNCHANGED <<host, rep>> /\ Outside

LoseReply(h) ==
    /\ rep[h] # None /\ Mishap
    /\ rep' = [rep EXCEPT ![h] = None]
    /\ UNCHANGED <<host, req>> /\ Outside

TwicePacket(h) ==
    /\ Handled(h) /\ Mishap
    /\ UNCHANGED req

Intrude(a) ==
    /\ Mishap /\ static = {} /\ \A h \in Hosts : ~Holds(h, a)
    /\ static' = {a}
    /\ UNCHANGED <<server, conf, host, req, rep, up, full, lost>>

Leave ==
    /\ static # {} /\ static' = {}
    /\ UNCHANGED <<server, conf, host, req, rep, up, full, lost, mishaps>>

DiskFull ==
    /\ ~full /\ Mishap /\ full' = TRUE
    /\ UNCHANGED <<server, conf, host, req, rep, up, lost, static>>

DiskFree ==
    /\ full /\ full' = FALSE
    /\ UNCHANGED <<server, conf, host, req, rep, up, lost, static, mishaps>>

Ready(h) ==
    LET hc == host[h] IN
    \/ rep[h] # None
    \/ ~hc.asleep /\ Waiting(h)
    \/ Awake(hc) /\ (hc.st = "init" \/ (hc.st = "bound" /\ hc.t1 = 0))

Still == ~busy /\ \A h \in Hosts : req[h] = None /\ ~Ready(h)

Less(n) == IF n = 0 THEN 0 ELSE n - 1
Elapsed(ls) == [i \in DOMAIN ls |-> [ls[i] EXCEPT !.left = Less(@)]]

Aged(hc) ==
    LET addrs == {[x EXCEPT !.left = @ - 1] : x \in {y \in hc.addrs : y.left > 1}} IN
    [hc EXCEPT !.addrs = addrs, !.t1 = Less(@), !.paused = FALSE,
               !.st = IF hc.addrs # {} /\ addrs = {} THEN "init" ELSE @]

\* Lifetimes under way: the network is fast against them.
AgedRep(r) ==
    IF r = None THEN r
    ELSE [r EXCEPT !.ia = {[e EXCEPT !.valid = Less(@), !.preferred = Less(@)] : e \in r.ia}]

Passed ==
    [leases |-> Elapsed(leases), file |-> Elapsed(file),
     declined |-> [a \in Statics |->
                      IF declined[a] = -1 THEN -1 ELSE Lesser(declined[a] + 1, Backoff)],
     host |-> [h \in Hosts |-> Aged(host[h])],
     rep |-> [h \in Hosts |-> AgedRep(rep[h])]]

Tick ==
    /\ ~busy /\ ~(up /\ RunOut)
    /\ IF up /\ Still THEN UNCHANGED mishaps ELSE Mishap
    /\ leases' = Passed.leases
    /\ file' = Passed.file
    /\ declined' = Passed.declined
    /\ host' = Passed.host
    /\ rep' = Passed.rep
    /\ UNCHANGED <<conf, dirty, busy, epoch, req, up, full, lost, static>>

Settled ==
    /\ up /\ Still /\ ~RunOut /\ (dirty => full)
    /\ Passed = [leases |-> leases, file |-> file, declined |-> declined, host |-> host,
                 rep |-> rep]

-----------------------------------------------------------------------------
Init ==
    /\ conf = 1 /\ leases = <<>> /\ dirty = FALSE /\ busy = FALSE /\ file = <<>>
    /\ epoch = Fresh(1)
    /\ declined = [a \in Statics |-> -1]
    /\ up = TRUE /\ full = FALSE /\ lost = FALSE /\ static = {}
    /\ host = [h \in Hosts |-> Blank]
    /\ req = [h \in Hosts |-> None] /\ rep = [h \in Hosts |-> None]
    /\ mishaps = 0

GoOn ==
    \/ Finish \/ Alarm \/ LeaseInit \/ Tick
    \/ \E h \in Hosts :
          \/ Dhcp6Packet(h) \/ Request(h) \/ Accept(h) \/ Rejected(h) \/ Extended(h)
          \/ Stays(h) \/ Discard(h) \/ TimedOut(h)
          \/ Solicit(h)
          \/ Renew(h, "RENEW") \/ Renew(h, "REBIND")

Incident ==
    \/ Crash \/ Leave \/ DiskFull \/ DiskFree
    \/ \E a \in Noted : Intrude(a)
    \/ \E h \in Hosts :
          \/ \E a \in Noted : SolicitHint(h, a)
          \/ RequestAny(h) \/ Confirm(h) \/ Release(h) \/ Reboot(h) \/ Sleep(h)
          \/ LoseRequest(h) \/ LoseReply(h) \/ TwicePacket(h)

Next == GoOn \/ Incident

Spec == Init /\ [][Next]_vars
FairSpec == Spec /\ ([]<>Settled \/ []<><<GoOn>>_vars)

-----------------------------------------------------------------------------
\* Whatever a host asks for, and whether or not the file was lost, a lease
\* passes to another host or IA only when it has run out or was given up.
LeaseKept ==
    [][up /\ up' => \A i \in DOMAIN leases, j \in DOMAIN leases' :
          leases[i].left > 0 /\ leases'[j].addr = leases[i].addr
          => leases'[j].duid = leases[i].duid /\ leases'[j].iaid = leases[i].iaid]_vars

\* What a host uses is leased to it, in memory or in the file, for at least as
\* long, unless the server died between an answer and the file.
Known == IF up THEN leases ELSE file
HeldIsLeased ==
    lost \/ \A h \in Hosts : \A x \in host[h].addrs :
        \E i \in DOMAIN Known : /\ Known[i].addr = x.addr /\ Known[i].duid = h
                                /\ Known[i].iaid = host[h].iaid /\ Known[i].left >= x.left

\* Every host that is awake has an address again and again.
Served == \A h \in Hosts : []<>(host[h].asleep \/ host[h].addrs # {})

\* After the prefixes have changed, nobody stays on one that is gone.
Renumbered ==
    <>[](\A h \in Hosts : host[h].asleep \/ \A x \in host[h].addrs :
            \E k \in DOMAIN Configs[conf] : Ctx(k).net = x.addr[1])

\* A lease is its host's alone until it ends, and the host's until then.
LeasesHeld == []HeldIsLeased /\ LeaseKept

\* Hosts keep getting addresses, and get new ones when the network is renumbered.
ServedAnew == Served /\ Renumbered
=============================================================================
