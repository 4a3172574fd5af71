----------------------------- MODULE RouterAdvert -----------------------------
(***************************************************************************)
(* Router advertisements of dnsmasq (radv.c), the ranges it constructs from  *)
(* the addresses of its interfaces (dhcp6.c) and the names it gives to the   *)
(* autoconfigured addresses of its DHCPv4 hosts (slaac.c, lease.c), while    *)
(* the kernel's addresses come, go and are deprecated.                      *)
(*                                                                         *)
(* A turn of the loop in periodic_ra is a step: the kernel is asked anew in  *)
(* every turn.  Times are ticks from now; -1 is a timer that does not run.   *)
(***************************************************************************)
EXTENDS Integers, FiniteSets, SequencesExt

CONSTANTS Places,      \* [iface, net] an address may be on, as the kernel lists them
          Templates,   \* interfaces with a dhcp-range constructor: ra-names
          Plain,       \* prefixes with a dhcp-range of their own, without ra-names
          Stations,
          Site,        \* the interface a host is behind
          Bridge,      \* bridge-interface: whose ranges an interface is sent
          Leased,      \* hosts with a DHCPv4 lease and a name
          Intervals,   \* what new_timeout may choose
          KernelValid, \* the lifetime of the kernel's addresses
          Ceiling,     \* the shorter of lease time and two hours
          MaxBackoff,  \* 12 in the code
          Hasty,       \* may an address return before its loss is noticed?
          MaxChanges,  \* bound: changes of addresses
          MaxAdvertMishaps  \* bound: advertisements and pings lost, hosts restarted

VARIABLES
    addr,      \* the kernel's address at each place: no, tentative, up, deprecated
    pending,   \* EVENT_NEWADDR is queued
    ctxs,      \* daemon->dhcp6 without the templates, newest first
    loop,      \* in periodic_ra, and what param.iface says there
    slaac,     \* per host and prefix: backoff and ping_time
    dns,       \* the autoconfigured addresses that have a name
    echo,      \* ping replies under way
    knows,     \* what each host does with a prefix: none, preferred, deprecated
    changes, advertMishaps

advertVars == <<addr, pending, ctxs, loop, slaac, dns, echo, knows, changes, advertMishaps>>

Off == -1
NoIface == 0
Idle == [on |-> FALSE, iface |-> NoIface]
Nets == {Places[k].net : k \in DOMAIN Places}
Shorter(a, b) == IF a < b THEN a ELSE b
RangeOf(i, n) == [iface |-> i, net |-> n, plain |-> FALSE, old |-> FALSE,
                  ra |-> 1, saved |-> 0, lost |-> 0]
Started(c) == [c EXCEPT !.ra = 1]
NoAddress == [used |-> FALSE, backoff |-> 0, ping |-> Off]

-----------------------------------------------------------------------------
(* radv.c.                                                                 *)

\* Mutant: a context that ends takes the timer with it.
Transferred_Not(cs, found, expired, t) == cs

\* The timer of an old context that is freed goes to the last one found.
Transferred(cs, found, expired, t) ==
    IF found # 0 /\ cs[found].ra = Off /\ \E k \in expired : cs[k].ra # Off
    THEN [cs EXCEPT ![found].ra = t]
    ELSE cs

\* add_prefixes: the contexts, in the order found, for the addresses on i.
Found(i, cs) ==
    LET on(k) == SelectSeq([j \in DOMAIN cs |-> j],
                           LAMBDA j : ~cs[j].old /\ cs[j].net = Places[k].net)
        places == SelectSeq([k \in DOMAIN Places |-> k],
                            LAMBDA k : Places[k].iface = i /\ addr[k] # "no")
    IN FlattenSeq([x \in DOMAIN places |-> on(places[x])])

\* The prefixes of an advertisement: those of contexts found, preferred unless
\* the address is deprecated, and the old ones, not preferred any more.
Content(i, cs, seen, expired) ==
    LET of(flags) == {Places[k].net : k \in {x \in DOMAIN Places :
                        /\ Places[x].iface = i /\ addr[x] \in flags
                        /\ \E j \in seen : cs[j].net = Places[x].net}}
        old == {j \in DOMAIN cs \ expired : cs[j].old /\ cs[j].iface = i}
    IN [fresh |-> of({"up", "tentative"}),
        stale |-> of({"deprecated"}) \cup {cs[j].net : j \in old}]

\* send_ra_alias: what is advertised on i, and what becomes of the contexts.
\* Only the first one keeps its timer; one for a vanished address goes when it
\* has been advertised for long enough.
SendRa(i, cs, t) ==
    LET hits == Found(i, cs)
        seen == Range(hits)
        marked == [j \in DOMAIN cs |->
                      IF j \notin seen THEN cs[j]
                      ELSE [cs[j] EXCEPT !.saved = KernelValid,
                                         !.ra = IF j = Head(hits) THEN @ ELSE Off]]
        expired == {j \in DOMAIN cs : cs[j].old /\ cs[j].iface = i /\ cs[j].lost > cs[j].saved}
        last == IF hits = <<>> THEN 0 ELSE Last(hits)
        timed == Transferred(marked, last, expired, t)
        kept == SelectSeq([j \in DOMAIN cs |-> j], LAMBDA j : j \notin expired)
    IN [ctxs |-> [x \in DOMAIN kept |-> timed[kept[x]]], says |-> Content(i, cs, seen, expired)]

\* A host takes an advertisement.
Told(k, says) ==
    [n \in Nets |-> IF n \in says.fresh THEN "preferred"
                    ELSE IF n \in says.stale /\ k[n] # "none" THEN "deprecated" ELSE k[n]]

Overdue(c) == c.ra = 0

\* iface_search: the first address with an overdue context; the others on its
\* prefix, old ones included, lose their timers.
IfaceSearch(cs) ==
    LET due(k) == {j \in DOMAIN cs : /\ ~cs[j].old /\ Overdue(cs[j])
                                     /\ cs[j].net = Places[k].net}
        hits == {k \in DOMAIN Places : addr[k] # "no" /\ due(k) # {}}
    IN IF hits = {} THEN [place |-> 0, ctx |-> 0]
       ELSE [place |-> Min(hits), ctx |-> Min(due(Min(hits)))]

Searched(cs, ctx, t) ==
    [j \in DOMAIN cs |->
        IF j = ctx THEN [cs[j] EXCEPT !.ra = t]
        ELSE IF j > ctx /\ cs[j].net = cs[ctx].net THEN [cs[j] EXCEPT !.ra = Off]
        ELSE cs[j]]

\* One turn for the first overdue context: its interface is known (old), is
\* found by its address (not advertised on while the address is tentative), or
\* is not there, which ends the timer.  param.iface is left from turn to turn.
Turn(cs, t) ==
    LET c == Min({j \in DOMAIN cs : Overdue(cs[j])})
        s == IfaceSearch(cs)
    IN IF cs[c].old
       THEN [ctxs |-> [cs EXCEPT ![c].ra = t], iface |-> cs[c].iface]
       ELSE IF s.ctx = 0
       THEN [ctxs |-> [cs EXCEPT ![c].ra = Off], iface |-> loop.iface]
       ELSE [ctxs |-> Searched(cs, s.ctx, t),
             iface |-> IF addr[s.place] = "tentative" THEN loop.iface
                       ELSE Places[s.place].iface]

Behind(i) == {h \in Stations : Bridge[Site[h]] = i}

\* An advertisement is lost to the hosts in "deaf".
AdvertMishap(some) ==
    IF some THEN advertMishaps < MaxAdvertMishaps /\ advertMishaps' = advertMishaps + 1
             ELSE UNCHANGED advertMishaps

PeriodicRa ==
    /\ loop.on /\ \E j \in DOMAIN ctxs : Overdue(ctxs[j])
    /\ \E t \in Intervals, deaf \in SUBSET Stations :
         LET turn == Turn(ctxs, t)
             r == SendRa(turn.iface, turn.ctxs, t)
         IN /\ deaf \subseteq Behind(turn.iface)
            /\ AdvertMishap(deaf # {})
            /\ loop' = [loop EXCEPT !.iface = turn.iface]
            /\ ctxs' = IF turn.iface = NoIface THEN turn.ctxs ELSE r.ctxs
            /\ knows' = [h \in Stations |-> IF h \in Behind(turn.iface) \ deaf
                                         THEN Told(knows[h], r.says) ELSE knows[h]]
    /\ UNCHANGED <<addr, pending, slaac, dns, echo, changes>>

NoneDue ==
    /\ loop.on /\ ~\E j \in DOMAIN ctxs : Overdue(ctxs[j])
    /\ loop' = Idle
    /\ UNCHANGED <<addr, pending, ctxs, slaac, dns, echo, knows, changes, advertMishaps>>

\* icmp6_packet: a host solicits, and the answer goes to it alone.
RouterSolicit(h) ==
    /\ ~loop.on
    /\ \E t \in Intervals, deaf \in BOOLEAN :
         LET r == SendRa(Bridge[Site[h]], ctxs, t)
         IN /\ AdvertMishap(deaf)
            /\ ctxs' = r.ctxs
            /\ knows' = IF deaf THEN knows ELSE [knows EXCEPT ![h] = Told(@, r.says)]
    /\ UNCHANGED <<addr, pending, loop, slaac, dns, echo, changes>>

-----------------------------------------------------------------------------
(* slaac.c and lease.c.                                                    *)

\* slaac_add_addrs: an address for every current context of the lease's
\* interface; a new one is pinged, and advertised for; the others are dropped.
Wanted(h, cs) == {cs[j].net : j \in {x \in DOMAIN cs : /\ ~cs[x].old /\ ~cs[x].plain
                                                      /\ cs[x].iface = Site[h]}}
AddAddrs(sl, h, cs, force) ==
    [n \in Nets |->
        IF n \notin Wanted(h, cs) THEN NoAddress
        ELSE IF sl[h][n].used /\ ~force THEN sl[h][n]
        ELSE [used |-> TRUE, backoff |-> 1, ping |-> 0]]

\* lease_update_slaac.
UpdateSlaac(cs, hs, force) ==
    [h \in Stations |-> IF h \in hs THEN AddAddrs(slaac, h, cs, force) ELSE slaac[h]]

\* ra_start_unsolicited for the contexts of addresses that are new.
Prodded(cs, sl) ==
    [j \in DOMAIN cs |->
        IF \E h \in Leased : /\ cs[j].iface = Site[h] /\ ~cs[j].old /\ ~cs[j].plain
                             /\ sl[h][cs[j].net].used /\ ~slaac[h][cs[j].net].used
        THEN Started(cs[j]) ELSE cs[j]]

\* lease_update_dns: confirmed addresses have a name.
Names(sl) == {<<h, n>> \in Leased \X Nets : sl[h][n].used /\ sl[h][n].backoff = 0}
Removed(sl) ==
    \E h \in Leased, n \in Nets : slaac[h][n].used /\ sl[h][n] # slaac[h][n]

Due(s) == s.used /\ s.backoff # 0 /\ s.ping = 0
EchoAnswers(h, n) == knows[h][n] # "none"

\* periodic_slaac: a ping to every address whose time has come, again after a
\* while; an unreachable one is given up at the longest interval.
Pinged(s, h, n) ==
    IF ~Due(s) THEN s
    ELSE IF ~EchoAnswers(h, n) /\ s.backoff = MaxBackoff THEN [s EXCEPT !.ping = Off]
    ELSE [s EXCEPT !.ping = 1, !.backoff = Shorter(@ + 1, MaxBackoff)]

PeriodicSlaac(sl) ==
    /\ slaac' = [h \in Stations |-> [n \in Nets |-> Pinged(sl[h][n], h, n)]]
    /\ echo' = echo \cup {<<h, n>> \in Leased \X Nets : Due(sl[h][n]) /\ EchoAnswers(h, n)}

\* slaac_ping_reply.
PingReply(h, n) ==
    /\ ~loop.on /\ <<h, n>> \in echo
    /\ echo' = echo \ {<<h, n>>}
    /\ slaac' = IF slaac[h][n].used THEN [slaac EXCEPT ![h][n].backoff = 0] ELSE slaac
    /\ dns' = IF slaac'# slaac THEN Names(slaac') ELSE dns
    /\ UNCHANGED <<addr, pending, ctxs, loop, knows, changes, advertMishaps>>

\* The DHCPv4 client of a host starts anew: lease_set_hwaddr with force.
InitReboot(h) ==
    /\ ~loop.on /\ h \in Leased /\ AdvertMishap(TRUE)
    /\ LET sl == UpdateSlaac(ctxs, {h}, TRUE) IN
       /\ dns' = IF Removed(sl) THEN Names(sl) ELSE dns
       /\ ctxs' = Prodded(ctxs, sl)
       /\ PeriodicSlaac(sl)
    /\ loop' = [Idle EXCEPT !.on = TRUE]
    /\ UNCHANGED <<addr, pending, knows, changes>>

\* EVENT_ALARM: lease_update_file.
AdvertAlarm ==
    /\ ~loop.on
    /\ \/ \E j \in DOMAIN ctxs : Overdue(ctxs[j])
       \/ \E h \in Leased, n \in Nets : Due(slaac[h][n])
    /\ PeriodicSlaac(slaac)
    /\ loop' = [Idle EXCEPT !.on = TRUE]
    /\ UNCHANGED <<addr, pending, ctxs, dns, knows, changes, advertMishaps>>

-----------------------------------------------------------------------------
(* dhcp6.c: dhcp_construct_contexts.                                        *)

Worker(acc, k) ==
    LET p == Places[k]
        cs == acc.ctxs
        plain == {j \in DOMAIN cs : cs[j].plain /\ cs[j].net = p.net}
        same == {j \in DOMAIN cs : ~cs[j].plain /\ cs[j].net = p.net /\ cs[j].iface = p.iface}
        first == \E j \in plain : cs[j].iface = NoIface
        back == \E j \in same : cs[j].old
    IN IF addr[k] \in {"no", "deprecated"} THEN acc
       ELSE IF plain # {}
       THEN [acc EXCEPT !.newone = @ \/ first,
                        !.ctxs = [j \in DOMAIN cs |->
                            IF j \notin plain THEN cs[j]
                            ELSE [cs[j] EXCEPT !.iface = p.iface,
                                               !.ra = IF cs[j].iface = NoIface THEN 1 ELSE @]]]
       ELSE IF p.iface \notin Templates THEN acc
       ELSE IF same = {}
       THEN [acc EXCEPT !.ctxs = <<RangeOf(p.iface, p.net)>> \o @,
                        !.newone = TRUE, !.kept = @ \cup {p}]
       ELSE [acc EXCEPT !.newone = @ \/ back, !.kept = @ \cup {p},
                        !.ctxs = [j \in DOMAIN cs |->
                            IF j \in same /\ cs[j].old
                            THEN Started([cs[j] EXCEPT !.old = FALSE]) ELSE cs[j]]]

\* Mutant: a context whose address is gone is freed at once.
Gone_Silently(cs, kept) ==
    SelectSeq(cs, LAMBDA c : c.plain \/ c.old \/ [iface |-> c.iface, net |-> c.net] \in kept)

\* A constructed context whose address is gone is advertised as old for a while.
Gone(cs, kept) ==
    [j \in DOMAIN cs |->
        IF cs[j].plain \/ cs[j].old \/ [iface |-> cs[j].iface, net |-> cs[j].net] \in kept
        THEN cs[j]
        ELSE Started([cs[j] EXCEPT !.old = TRUE, !.lost = 0, !.saved = Shorter(@, Ceiling)])]

ConstructContexts ==
    LET made == FoldLeft(Worker, [ctxs |-> ctxs, newone |-> FALSE, kept |-> {}],
                         [k \in DOMAIN Places |-> k])
        cs == Gone(made.ctxs, made.kept)
    IN [ctxs |-> cs, newone |-> made.newone \/ cs # made.ctxs]

\* Mutant: the names are looked after only when a range appears.
Renamed_OnlyNew(cs) == Len(cs) > Len(ctxs)

\* newname: the constructed ranges that are current are not what they were.
Renamed(cs) ==
    LET current(x) == {<<x[j].iface, x[j].net>> : j \in {y \in DOMAIN x : ~x[y].old /\ ~x[y].plain}}
    IN current(cs) # current(ctxs)

\* newaddress, on EVENT_NEWADDR.
NewAddress ==
    /\ pending /\ ~loop.on
    /\ pending' = FALSE
    /\ LET new == ConstructContexts
           sl == IF Renamed(new.ctxs) THEN UpdateSlaac(new.ctxs, Leased, FALSE) ELSE slaac
       IN /\ ctxs' = Prodded(new.ctxs, sl)
          /\ dns' = IF Removed(sl) THEN Names(sl) ELSE dns
          /\ IF new.newone
             THEN PeriodicSlaac(sl) /\ loop' = [Idle EXCEPT !.on = TRUE]
             ELSE UNCHANGED <<slaac, echo, loop>>
    /\ UNCHANGED <<addr, knows, changes, advertMishaps>>

-----------------------------------------------------------------------------
(* The kernel, the hosts and the clock.                                     *)

Change(k, from, to) ==
    /\ changes < MaxChanges /\ changes' = changes + 1
    /\ addr[k] \in from
    /\ addr' = [addr EXCEPT ![k] = to]
    /\ UNCHANGED <<ctxs, loop, slaac, dns, echo, knows, advertMishaps>>

Appear(k) ==
    /\ Hasty \/ ~pending
    /\ Change(k, {"no"}, "tentative")
    /\ pending' \in {pending, TRUE}
Vanish(k)    == Change(k, {"tentative", "up", "deprecated"}, "no") /\ pending' = TRUE
Deprecate(k) == Change(k, {"up"}, "deprecated") /\ pending' = TRUE
Prolong(k)   == Change(k, {"deprecated"}, "up") /\ pending' = TRUE

\* Duplicate address detection has an end.
Settle(k) ==
    /\ addr[k] = "tentative"
    /\ addr' = [addr EXCEPT ![k] = "up"]
    /\ pending' = TRUE
    /\ UNCHANGED <<ctxs, loop, slaac, dns, echo, knows, changes, advertMishaps>>

Restart(h) ==
    /\ AdvertMishap(TRUE)
    /\ knows' = [knows EXCEPT ![h] = [n \in Nets |-> "none"]]
    /\ echo' = {e \in echo : e[1] # h}
    /\ UNCHANGED <<addr, pending, ctxs, loop, slaac, dns, changes>>

LosePing(e) ==
    /\ e \in echo /\ AdvertMishap(TRUE)
    /\ echo' = echo \ {e}
    /\ UNCHANGED <<addr, pending, ctxs, loop, slaac, dns, knows, changes>>

Fewer(t) == IF t > 0 THEN t - 1 ELSE t

\* The server and the network are fast against the clock.
AdvertTick ==
    /\ ~loop.on /\ ~pending /\ echo = {}
    /\ \A j \in DOMAIN ctxs : ~Overdue(ctxs[j])
    /\ \A h \in Leased, n \in Nets : ~Due(slaac[h][n])
    /\ \A k \in DOMAIN Places : addr[k] # "tentative"
    /\ ctxs' = [j \in DOMAIN ctxs |->
                   [ctxs[j] EXCEPT !.ra = Fewer(@),
                                   !.lost = IF ctxs[j].old THEN Shorter(@ + 1, Ceiling + 1) ELSE @]]
    /\ slaac' = [h \in Stations |-> [n \in Nets |-> [slaac[h][n] EXCEPT !.ping = Fewer(@)]]]
    /\ UNCHANGED <<addr, pending, loop, dns, echo, knows, changes, advertMishaps>>

AdvertInit ==
    /\ addr = [k \in DOMAIN Places |-> "no"]
    /\ pending = TRUE
    /\ ctxs = [j \in DOMAIN Plain |-> [RangeOf(NoIface, Plain[j]) EXCEPT !.plain = TRUE]]
    /\ loop = Idle
    /\ slaac = [h \in Stations |-> [n \in Nets |-> NoAddress]]
    /\ dns = {} /\ echo = {}
    /\ knows = [h \in Stations |-> [n \in Nets |-> "none"]]
    /\ changes = 0 /\ advertMishaps = 0

AdvertGoesOn ==
    \/ PeriodicRa \/ NoneDue \/ AdvertAlarm \/ NewAddress \/ AdvertTick
    \/ \E h \in Stations, n \in Nets : PingReply(h, n)
    \/ \E k \in DOMAIN Places : Settle(k)

AdvertIncident ==
    \/ \E h \in Stations : RouterSolicit(h) \/ InitReboot(h) \/ Restart(h)
    \/ \E e \in echo : LosePing(e)
    \/ \E k \in DOMAIN Places : Appear(k) \/ Vanish(k) \/ Deprecate(k) \/ Prolong(k)

AdvertNext == AdvertGoesOn \/ AdvertIncident

\* Nothing is left to be done: no timer runs and nothing is under way.
AdvertSettled ==
    /\ ~loop.on /\ ~pending /\ echo = {}
    /\ \A j \in DOMAIN ctxs : ctxs[j].ra = Off
    /\ \A h \in Leased, n \in Nets : slaac[h][n].backoff = 0 \/ slaac[h][n].ping = Off
    /\ \A k \in DOMAIN Places : addr[k] # "tentative"

AdvertSpec == AdvertInit /\ [][AdvertNext]_advertVars
FairAdvertSpec == AdvertSpec /\ ([]<>AdvertSettled \/ []<><<AdvertGoesOn>>_advertVars)

-----------------------------------------------------------------------------
Present(h, n) ==
    \E k \in DOMAIN Places : /\ Places[k] = [iface |-> Bridge[Site[h]], net |-> n]
                             /\ addr[k] \in {"up", "tentative"}
Advertised(h, n) == Bridge[Site[h]] \in Templates \/ n \in Range(Plain)

\* Every host on a link gets to know its prefixes, also those it missed, and
\* again after it has forgotten them: the advertisements do not cease.
Learns ==
    \A h \in Stations, n \in Nets :
        []<>(~Present(h, n) \/ ~Advertised(h, n) \/ knows[h][n] = "preferred")

\* Every host stops preferring a prefix the router no longer has.
Demise == \A h \in Stations, n \in Nets : []<>(Present(h, n) \/ knows[h][n] # "preferred")

\* An autoconfigured address has a name only while its prefix is current.
NamesCurrent ==
    \A e \in dns : \E j \in DOMAIN ctxs :
        ctxs[j].net = e[2] /\ ctxs[j].iface = Site[e[1]] /\ ~ctxs[j].old

\* What hosts believe of prefixes follows what there is.
PrefixesFollowed == Learns /\ Demise
=============================================================================
