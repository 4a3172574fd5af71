----------------------------- MODULE DhcpServer -----------------------------
(***************************************************************************)
(* The DHCPv4 server of dnsmasq (dhcp.c, rfc2131.c, lease.c), authoritative *)
(* and with one range on one interface, as TftpMode configures it, with     *)
(* addresses that may be reserved for hosts; the lease file; the machines   *)
(* that boot from it; and a network that loses and repeats packets.         *)
(*                                                                         *)
(* Addresses are numbers, the range is 1 .. PoolSize.  Times are relative:  *)
(* "left" is what remains of a lease, and Forever what never runs out.      *)
(***************************************************************************)
EXTENDS Integers, FiniteSets, SequencesExt

CONSTANTS Machines,     \* one hardware address each
          Hash,         \* the hash address_allocate makes of it
          Clids,        \* client identifiers a machine may use, NoClid for none
          PoolSize,     \* addresses of the dhcp-range
          Router,       \* the server's own address, in the range or outside
          Hosts,        \* dhcp-host: the address reserved for a machine, or 0
          LeaseTime,    \* lease time in ticks
          RenewAt,      \* what is left of a lease when its client renews
          Backoff,      \* DECLINE_BACKOFF
          PingCache,    \* PING_CACHE_TIME
          MaxLeases,    \* dhcp_max
          MaxMishaps    \* bound: packets lost, repeated or delayed, reboots,
                        \* sleeps, crashes, full disks, intruders, reloads

NoClid == "none"
Pool == 1 .. PoolSize
Reservable == {Hosts[m] : m \in Machines} \ {0}
Addrs == Pool \cup Reservable
Forever == LeaseTime + 1

ASSUME DhcpAssumption ==
    /\ Hash \in [Machines -> Nat] /\ Hosts \in [Machines -> Nat]
    /\ \A m \in Machines : Clids[m] # {}
    /\ \A m, n \in Machines : m # n => Clids[m] \cap Clids[n] \subseteq {NoClid}
    /\ PoolSize \in Nat \ {0} /\ Router \in Nat /\ Router \notin Reservable
    /\ \A m, n \in Machines : Hosts[m] = Hosts[n] /\ Hosts[m] # 0 => m = n
    /\ {LeaseTime, RenewAt, Backoff, MaxLeases} \subseteq Nat \ {0}
    /\ RenewAt <= LeaseTime
    /\ {PingCache, MaxMishaps} \subseteq Nat

VARIABLES
    leases,     \* the list of leases, newest first
    dirty,      \* file_dirty
    file,       \* what the lease file holds
    epoch,      \* addr_epoch of the range, modulo its size
    reserved,   \* the dhcp-host addresses in force, 0 for none
    declined,   \* for each of them, ticks since it was declined, or -1
    pinged,     \* ping_results: ticks since an address did not answer, or -1
    up,         \* the server runs
    full,       \* the file system takes no more
    lost,       \* a crash took what the lease file lacked
    machine,    \* the DHCP client of each machine
    static,     \* addresses used by hosts that do without DHCP
    req, rep,   \* the packet under way from and to each machine
    mishaps

server == <<leases, dirty, file, epoch, declined, pinged>>
world  == <<reserved, up, full, lost, static, mishaps>>
vars == <<server, world, machine, req, rep>>

None == [op |-> "none"]
Blank == [st |-> "init", addr |-> 0, clid |-> NoClid, left |-> 0, grant |-> 0,
          asleep |-> FALSE, paused |-> FALSE]
Least(a, b) == IF a < b THEN a ELSE b

\* Who has an address right now, and who would answer for it.
Holds(m, a) == machine[m].st \in {"bound", "renewing"} /\ machine[m].addr = a
Answers(a) == a \in static \/ \E m \in Machines : Holds(m, a) /\ ~machine[m].asleep

-----------------------------------------------------------------------------
(* lease.c.                                                                *)

\* The entries of a list that are in S, in their order.
Only(ls, S) ==
    LET kept[i \in 0 .. Len(ls)] ==
            IF i = 0 THEN <<>>
            ELSE IF ls[i] \in S THEN Append(kept[i - 1], ls[i]) ELSE kept[i - 1]
    IN kept[Len(ls)]

\* lease_prune: without what has run out, or is the target.
Pruned(ls) == Only(ls, {l \in ToSet(ls) : l.left # 0})
Without(ls, l) == Only(ls, ToSet(ls) \ {l})

NoLease == [addr |-> 0, mac |-> "none", clid |-> NoClid, left |-> 0]

FirstOf(ls, Test(_)) ==
    LET hits == {i \in DOMAIN ls : Test(ls[i])}
    IN IF hits = {} THEN NoLease ELSE ls[Min(hits)]

\* lease_find_by_client: by client identifier; else by hardware address, if the
\* client or the lease is without identifier.
FindByClient(ls, m, clid) ==
    LET same == FirstOf(ls, LAMBDA l : l.clid = clid)
        mac  == FirstOf(ls, LAMBDA l : l.mac = m /\ (l.clid = NoClid \/ clid = NoClid))
    IN IF clid # NoClid /\ same # NoLease THEN same ELSE mac

FindByAddr(ls, a) == FirstOf(ls, LAMBDA l : l.addr = a)

\* lease_set_hwaddr and lease_set_expires on the lease l, or on a new one.
Granted(ls, l, a, m, clid, time) ==
    LET new == [addr |-> a, mac |-> m, left |-> time,
                clid |-> IF clid = NoClid /\ l # NoLease THEN l.clid ELSE clid]
    IN IF l = NoLease THEN <<new>> \o ls
       ELSE [i \in DOMAIN ls |-> IF ls[i] = l THEN new ELSE ls[i]]

-----------------------------------------------------------------------------
(* dhcp.c.                                                                 *)

\* address_available.
Available(a) == a # Router /\ a \in Pool

\* config_find_by_address.
ReservedFor(a) == {m \in Machines : reserved[m] = a}

\* do_icmp_ping: free if that was found out lately, or if nobody answers.
Free(a) == pinged[a] # -1 \/ ~Answers(a)
PingedNow(a) == IF pinged[a] # -1 THEN pinged ELSE [pinged EXCEPT ![a] = 0]

\* Mutant: reserved addresses are given away.
Open_Reserved(ls, a) == Available(a) /\ FindByAddr(ls, a) = NoLease

\* Nobody's, as far as the server knows.
Open(ls, a) ==
    /\ Available(a)
    /\ FindByAddr(ls, a) = NoLease
    /\ ReservedFor(a) = {}

\* address_allocate: from a place that depends on the hardware address, the
\* first address nobody has; every address that answers moves the place on.
Allocated(ls, m) ==
    LET at(k) == 1 + ((Hash[m] + epoch + k) % PoolSize)
        open  == {k \in 0 .. PoolSize - 1 : Open(ls, at(k))}
        free  == {k \in open : Free(at(k))}
        used(upto) == Cardinality({k \in open : k < upto})
    IN IF free = {} THEN [addr |-> 0, epoch |-> (epoch + used(PoolSize)) % PoolSize]
       ELSE [addr |-> at(Min(free)), epoch |-> (epoch + used(Min(free))) % PoolSize]

-----------------------------------------------------------------------------
(* rfc2131.c: what dhcp_reply answers and leaves behind.                   *)

Result(ls, answer) ==
    [leases |-> ls, answer |-> answer, epoch |-> epoch, declined |-> declined,
     pinged |-> pinged]

\* A declined address rests for a while.
BackedOff(m) == declined[m] = -1 \/ declined[m] >= Backoff

\* DHCPDISCOVER: the reserved address, the one the client has, the one it wants,
\* or any.
ReservedUsable(ls, m, lease) ==
    LET other == FindByAddr(ls, reserved[m]) IN
    /\ reserved[m] # 0
    /\ other = NoLease \/ other = lease \/ other.mac = m
    /\ BackedOff(m)

Discovered(ls, m, msg) ==
    LET lease == FindByClient(ls, m, msg.clid)
        offer(a) == [op |-> "OFFER", addr |-> a]
        any == Allocated(ls, m)
    IN IF ReservedUsable(ls, m, lease)
       THEN Result(ls, offer(reserved[m]))
       ELSE IF lease # NoLease /\ Available(lease.addr) /\ ReservedFor(lease.addr) = {}
       THEN Result(ls, offer(lease.addr))
       ELSE IF Open(ls, msg.addr) /\ Free(msg.addr)
       THEN [Result(ls, offer(msg.addr)) EXCEPT !.pinged = PingedNow(msg.addr)]
       ELSE IF any.addr # 0
       THEN [Result(ls, offer(any.addr)) EXCEPT !.pinged = PingedNow(any.addr),
                                                !.epoch = any.epoch]
       ELSE [Result(ls, None) EXCEPT !.epoch = any.epoch]

\* The client should have its reserved address instead of a.
StaticAvailable(ls, m, lease, a) ==
    /\ reserved[m] \notin {0, a}
    /\ declined[m] = -1 \/ declined[m] > Backoff
    /\ FindByAddr(ls, reserved[m]) \in {NoLease, lease}

\* Mutant: the address of another lease is given away.
InUse_Never(mine, other) == FALSE

InUse(mine, other) == mine = NoLease /\ other # NoLease

\* The part of DHCPREQUEST that all its kinds share: ACK or NAK for address a.
Committed(ls, m, msg, lease, a) ==
    LET other == FindByAddr(ls, a)
        mine  == IF lease = NoLease /\ other # NoLease /\ reserved[m] # 0
                    /\ other.mac = m
                 THEN other ELSE lease
        refused ==
            \/ a \notin Addrs                                \* wrong network
            \/ ~Available(a) /\ reserved[m] # a             \* not available
            \/ msg.kind # "selecting" /\ StaticAvailable(ls, m, lease, a)
            \/ ReservedFor(a) \notin {{}, {m}}              \* reserved
            \/ InUse(mine, other)                           \* in use
            \/ mine = NoLease /\ Len(ls) >= MaxLeases
    IN IF refused THEN Result(ls, [op |-> "NAK"])
       ELSE Result(Granted(ls, mine, a, m, msg.clid, LeaseTime),
                   [op |-> "ACK", addr |-> a])

\* DHCPREQUEST.  A client that selects gives up its lease for any other address.
Requested(ls, m, msg) ==
    LET lease == FindByClient(ls, m, msg.clid)
        other == lease # NoLease /\ lease.addr # msg.addr
        left  == IF other THEN Without(ls, lease) ELSE ls
        nak   == [op |-> "NAK"]
    IN CASE msg.kind = "selecting" /\ msg.ours ->
              Committed(left, m, msg, IF other THEN NoLease ELSE lease, msg.addr)
         [] msg.kind = "selecting" /\ ~msg.ours -> Result(left, nak)
         [] msg.kind = "reboot" /\ other -> Result(ls, nak)
         [] msg.kind = "renew" /\ other ->
              Result(ls, IF msg.unicast THEN nak ELSE None)
         [] msg.kind \in {"reboot", "renew"} /\ ~other ->
              Committed(ls, m, msg, lease, msg.addr)

\* DHCPDECLINE.
Declined(ls, m, msg) ==
    LET lease == FindByClient(ls, m, msg.clid)
        gone  == IF lease.addr = msg.addr THEN Without(ls, lease) ELSE ls
    IN IF reserved[m] = msg.addr
       THEN [Result(gone, None) EXCEPT !.declined[m] = 0]
       ELSE [Result(gone, None) EXCEPT !.epoch = (@ + 1) % PoolSize]

\* DHCPRELEASE.
Released(ls, m, msg) ==
    LET lease == FindByClient(ls, m, msg.clid)
    IN Result(IF lease.addr = msg.addr THEN Without(ls, lease) ELSE ls, None)

\* BOOTP, which only reserved addresses are for: a lease for ever.
Bootp(ls, m, msg) ==
    LET lease == FindByAddr(ls, reserved[m]) IN
    IF reserved[m] = 0 \/ (lease # NoLease /\ lease.mac # m)
       \/ (lease = NoLease /\ Len(ls) >= MaxLeases)
    THEN Result(ls, None)
    ELSE Result(Granted(ls, lease, reserved[m], m, NoClid, Forever),
                [op |-> "BOOTREPLY", addr |-> reserved[m]])

DhcpReply(m, msg) ==
    LET ls == Pruned(leases) IN
    CASE msg.op = "DISCOVER" -> Discovered(ls, m, msg)
      [] msg.op = "REQUEST"  -> Requested(ls, m, msg)
      [] msg.op = "DECLINE"  -> Declined(ls, m, msg)
      [] msg.op = "RELEASE"  -> Released(ls, m, msg)
      [] msg.op = "BOOTP"    -> Bootp(ls, m, msg)

\* file_dirty after a packet.
News(ls) == dirty \/ ls # leases

\* Mutant: a write that failed is forgotten.
UpdateFile_Forgets(ls, news) ==
    IF ~news THEN UNCHANGED <<file, dirty>>
    ELSE /\ file' = IF full THEN <<>> ELSE ls
         /\ dirty' = FALSE

\* lease_update_file: the file is truncated and written anew if there is news.
\* A full file system leaves it truncated, and the news for the next time.
UpdateFile(ls, news) ==
    IF ~news THEN UNCHANGED <<file, dirty>>
    ELSE /\ file' = IF full THEN <<>> ELSE ls
         /\ dirty' = full

\* dhcp_packet: a packet is read, answered, and the file brought up to date
\* before the answer is sent.
Handled(m) ==
    /\ up /\ req[m] # None
    /\ LET r == DhcpReply(m, req[m]) IN
       /\ leases' = r.leases
       /\ epoch' = r.epoch
       /\ declined' = r.declined
       /\ pinged' = r.pinged
       /\ UpdateFile(r.leases, News(r.leases))
       /\ rep' = IF r.answer = None THEN rep ELSE [rep EXCEPT ![m] = r.answer]
    /\ UNCHANGED <<machine, reserved, up, full, lost, static>>

DhcpPacket(m) ==
    /\ Handled(m)
    /\ req' = [req EXCEPT ![m] = None]
    /\ UNCHANGED mishaps

\* EVENT_ALARM: a lease has run out, or the file is to be tried again.
Due == dirty \/ \E i \in DOMAIN leases : leases[i].left = 0

Alarm ==
    /\ up /\ Due
    /\ leases' = Pruned(leases)
    /\ UpdateFile(Pruned(leases), TRUE)
    /\ UNCHANGED <<epoch, declined, pinged, machine, req, rep, reserved, up,
                   full, lost, static, mishaps>>

Mishap == mishaps < MaxMishaps /\ mishaps' = mishaps + 1

\* The server is killed, now or while it writes the file.
Crash ==
    /\ up /\ Mishap
    /\ up' = FALSE
    /\ \/ UNCHANGED file /\ lost' = (lost \/ dirty)
       \/ (Due \/ \E m \in Machines : req[m] # None) /\ file' = <<>> /\ lost' = TRUE
    /\ leases' = <<>> /\ dirty' = FALSE
    /\ epoch' = 0
    /\ declined' = [m \in Machines |-> -1]
    /\ pinged' = [a \in Addrs |-> -1]
    /\ UNCHANGED <<machine, req, rep, reserved, full, static>>

\* lease_init: the file is read, each lease in front of those before it.
LeaseInit ==
    /\ ~up
    /\ up' = TRUE
    /\ leases' = Pruned(Reverse(file))
    /\ dirty' = (leases' # Reverse(file))
    /\ UNCHANGED <<file, epoch, declined, pinged, machine, req, rep, reserved,
                   full, lost, static, mishaps>>

\* SIGHUP: the reservations are read again, and the file is brought up to date.
Reload ==
    /\ up /\ Mishap
    /\ reserved # Hosts /\ reserved' = Hosts
    /\ UpdateFile(leases, dirty)
    /\ UNCHANGED <<leases, epoch, declined, pinged, machine, req, rep, up, full,
                   lost, static>>

-----------------------------------------------------------------------------
(* The machines: DHCP clients as RFC 2131 wants them.  "paused" is a client *)
(* that waits for the next tick before it tries again.                      *)

Client == <<machine, req, rep>>
Elsewhere == UNCHANGED <<server, reserved, up, full, lost, static>>
Quietly == Elsewhere /\ UNCHANGED mishaps

Asks(m, mc, msg) ==
    /\ req[m] = None
    /\ req' = [req EXCEPT ![m] = msg]
    /\ rep' = [rep EXCEPT ![m] = None]
    /\ machine' = [machine EXCEPT ![m] = mc]

Hears(m, op, states) ==
    /\ ~machine[m].asleep /\ machine[m].st \in states /\ rep[m].op = op

Free4(mc) == ~mc.asleep /\ ~mc.paused

Request(m, kind, a) ==
    [op |-> "REQUEST", kind |-> kind, addr |-> a, clid |-> machine[m].clid,
     ours |-> TRUE, unicast |-> FALSE]

Discover(m) ==
    LET mc == machine[m] IN
    /\ Free4(mc) /\ mc.st = "init"
    /\ \E a \in {0, mc.addr} :
          Asks(m, [mc EXCEPT !.st = "selecting", !.addr = 0],
               [op |-> "DISCOVER", addr |-> a, clid |-> mc.clid])
    /\ Quietly

\* INIT-REBOOT: a machine that remembers its address asks for it again.
AskAgain(m) ==
    LET mc == machine[m] IN
    /\ Free4(mc) /\ mc.st = "init" /\ mc.addr # 0
    /\ Asks(m, [mc EXCEPT !.st = "requesting", !.grant = LeaseTime],
            Request(m, "reboot", mc.addr))
    /\ Quietly

\* SELECTING: the offer is taken up, or, once in a while, that of another server.
Select(m) ==
    LET mc == machine[m] IN
    /\ Hears(m, "OFFER", {"selecting"})
    /\ Asks(m, [mc EXCEPT !.st = "requesting", !.addr = rep[m].addr, !.grant = LeaseTime],
            Request(m, "selecting", rep[m].addr))
    /\ Quietly

SelectOther(m) ==
    LET mc == machine[m] IN
    /\ Hears(m, "OFFER", {"selecting"}) /\ Mishap
    /\ Asks(m, [mc EXCEPT !.st = "requesting", !.addr = rep[m].addr, !.grant = LeaseTime],
            [Request(m, "selecting", rep[m].addr) EXCEPT !.ours = FALSE])
    /\ Elsewhere

\* RENEWING is sent to the server, REBINDING to everybody.
Renew(m) ==
    LET mc == machine[m] IN
    /\ Free4(mc) /\ mc.st = "bound" /\ mc.left <= RenewAt
    /\ Asks(m, [mc EXCEPT !.st = "renewing", !.grant = LeaseTime],
            [Request(m, "renew", mc.addr) EXCEPT !.unicast = (mc.left = RenewAt)])
    /\ Quietly

BootpRequest(m) ==
    LET mc == machine[m] IN
    /\ Free4(mc) /\ mc.st = "init" /\ reserved[m] # 0 /\ Mishap
    /\ Asks(m, [mc EXCEPT !.st = "requesting", !.addr = reserved[m], !.grant = Forever],
            [op |-> "BOOTP"])
    /\ Elsewhere

\* What a machine is after an ACK: it holds the address.
Bound(mc) == [mc EXCEPT !.st = "bound", !.left = mc.grant, !.grant = 0]
Unbound(mc) == [mc EXCEPT !.st = "init", !.addr = 0, !.left = 0, !.grant = 0,
                          !.paused = TRUE]

\* ACK: before it uses a new address a client probes it, and declines one that
\* somebody else answers for.
Accept(m) ==
    LET mc == machine[m]
        taken == mc.st = "requesting" /\ Answers(mc.addr)
    IN /\ mc.grant > 0
       /\ Hears(m, "ACK", {"requesting", "renewing"}) \/ Hears(m, "BOOTREPLY", {"requesting"})
       /\ IF taken
          THEN Asks(m, Unbound(mc), [op |-> "DECLINE", addr |-> mc.addr, clid |-> mc.clid])
          ELSE /\ machine' = [machine EXCEPT ![m] = Bound(mc)]
               /\ rep' = [rep EXCEPT ![m] = None]
               /\ UNCHANGED req
       /\ Quietly

Refused(m) ==
    /\ Hears(m, "NAK", {"requesting", "renewing"})
    /\ machine' = [machine EXCEPT ![m] = Unbound(machine[m])]
    /\ rep' = [rep EXCEPT ![m] = None]
    /\ UNCHANGED req
    /\ Quietly

Waiting(m) == machine[m].st \in {"selecting", "requesting", "renewing"}

GivenUp(mc) == IF mc.st = "renewing"
               THEN [mc EXCEPT !.st = "bound", !.paused = TRUE, !.grant = 0]
               ELSE Unbound(mc)

TimedOut(m) ==
    /\ ~machine[m].asleep /\ Waiting(m) /\ req[m] = None /\ rep[m] = None
    /\ machine' = [machine EXCEPT ![m] = GivenUp(@)]
    /\ UNCHANGED <<req, rep>>
    /\ Quietly

\* An answer nobody waits for, or that comes to a machine that is off.
Expected(m) ==
    CASE rep[m].op = "OFFER" -> machine[m].st = "selecting"
      [] rep[m].op = "ACK" -> machine[m].st \in {"requesting", "renewing"} /\ machine[m].grant > 0
      [] rep[m].op = "NAK" -> machine[m].st \in {"requesting", "renewing"}
      [] rep[m].op = "BOOTREPLY" -> machine[m].st = "requesting" /\ machine[m].grant > 0
      [] OTHER -> FALSE

Discard(m) ==
    /\ rep[m] # None /\ (machine[m].asleep \/ ~Expected(m))
    /\ rep' = [rep EXCEPT ![m] = None]
    /\ UNCHANGED <<machine, req>>
    /\ Quietly

Release(m) ==
    LET mc == machine[m] IN
    /\ ~mc.asleep /\ mc.st = "bound" /\ Mishap
    /\ Asks(m, Unbound(mc), [op |-> "RELEASE", addr |-> mc.addr, clid |-> mc.clid])
    /\ Elsewhere

\* A machine is switched off and on, with or without memory of its address, and
\* another operating system or boot loader uses another client identifier.
Reboot(m) ==
    /\ machine[m] # Blank /\ Mishap
    /\ \E c \in Clids[m], keep \in BOOLEAN :
          machine' = [machine EXCEPT ![m] =
              [Blank EXCEPT !.clid = c, !.addr = IF keep THEN machine[m].addr ELSE 0]]
    /\ rep' = [rep EXCEPT ![m] = None]
    /\ UNCHANGED req
    /\ Elsewhere

\* A machine sleeps with its address, and wakes with what is left of the lease.
Sleep(m) ==
    /\ ~machine[m].asleep /\ machine[m].st = "bound" /\ Mishap
    /\ machine' = [machine EXCEPT ![m].asleep = TRUE]
    /\ UNCHANGED <<req, rep>>
    /\ Elsewhere

Wake(m) ==
    /\ machine[m].asleep
    /\ machine' = [machine EXCEPT ![m].asleep = FALSE]
    /\ UNCHANGED <<req, rep>>
    /\ Quietly

-----------------------------------------------------------------------------
(* The network, the other hosts, the storage and the clock.                *)

\* A packet is lost; a server that is down loses all.
LoseRequest(m) ==
    /\ req[m] # None
    /\ \/ ~up /\ UNCHANGED mishaps
       \/ up /\ Mishap
    /\ req' = [req EXCEPT ![m] = None]
    /\ UNCHANGED <<machine, rep>> /\ Elsewhere

LoseReply(m) ==
    /\ rep[m] # None /\ Mishap
    /\ rep' = [rep EXCEPT ![m] = None]
    /\ UNCHANGED <<machine, req>> /\ Elsewhere

\* A packet arrives twice.
TwicePacket(m) ==
    /\ Handled(m) /\ Mishap
    /\ UNCHANGED req

Intrude(a) ==
    /\ Mishap /\ static = {} /\ \A m \in Machines : ~Holds(m, a)
    /\ static' = {a}
    /\ UNCHANGED <<server, machine, req, rep, reserved, up, full, lost>>

Leave ==
    /\ static # {} /\ static' = {}
    /\ UNCHANGED <<server, machine, req, rep, reserved, up, full, lost, mishaps>>

DiskFull ==
    /\ ~full /\ Mishap /\ full' = TRUE
    /\ UNCHANGED <<server, machine, req, rep, reserved, up, lost, static>>

DiskFree ==
    /\ full /\ full' = FALSE
    /\ UNCHANGED <<server, machine, req, rep, reserved, up, lost, static, mishaps>>

Ready(m) ==
    LET mc == machine[m] IN
    \/ rep[m] # None
    \/ ~mc.asleep /\ Waiting(m)
    \/ Free4(mc) /\ (mc.st = "init" \/ (mc.st = "bound" /\ mc.left <= RenewAt))

Still == \A m \in Machines : req[m] = None /\ ~Ready(m)

Less(n) == IF n \in {0, Forever} THEN n ELSE n - 1
Elapsed(ls) == [i \in DOMAIN ls |-> [ls[i] EXCEPT !.left = Less(@)]]

Aged(mc) ==
    IF mc.st \in {"bound", "renewing"} /\ mc.left = 1
    THEN [mc EXCEPT !.st = "init", !.left = 0, !.grant = 0, !.paused = FALSE]
    ELSE [mc EXCEPT !.left = Less(@), !.grant = Less(@), !.paused = FALSE]

Older(n, max) == IF n = -1 THEN n ELSE Least(n + 1, max)

Passed ==
    [leases |-> Elapsed(leases), file |-> Elapsed(file),
     declined |-> [m \in Machines |-> Older(declined[m], Backoff + 1)],
     pinged |-> [a \in Addrs |->
                    IF pinged[a] \in {-1, PingCache} THEN -1 ELSE pinged[a] + 1],
     machine |-> [m \in Machines |-> Aged(machine[m])]]

RunOut == \E i \in DOMAIN leases : leases[i].left = 0

\* Time passes when nothing is left to do now; a slow packet, or a server that
\* stays down, counts as a mishap.
Tick ==
    /\ ~(up /\ RunOut)
    /\ IF up /\ Still THEN UNCHANGED mishaps ELSE Mishap
    /\ leases' = Passed.leases
    /\ file' = Passed.file
    /\ declined' = Passed.declined
    /\ pinged' = Passed.pinged
    /\ machine' = Passed.machine
    /\ UNCHANGED <<dirty, epoch, req, rep, reserved, up, full, lost, static>>

\* Nothing is left that could change by itself: all machines are off.
Settled ==
    /\ up /\ Still /\ ~RunOut /\ (dirty => full)
    /\ Passed = [leases |-> leases, file |-> file, declined |-> declined,
                 pinged |-> pinged, machine |-> machine]

-----------------------------------------------------------------------------
Init ==
    /\ leases = <<>> /\ dirty = FALSE /\ file = <<>> /\ epoch = 0
    /\ reserved = [m \in Machines |-> 0]
    /\ declined = [m \in Machines |-> -1]
    /\ pinged = [a \in Addrs |-> -1]
    /\ up = TRUE /\ full = FALSE /\ lost = FALSE /\ static = {}
    /\ machine \in [Machines -> {[Blank EXCEPT !.clid = c] : c \in UNION {Clids[m] : m \in Machines}}]
    /\ \A m \in Machines : machine[m].clid \in Clids[m]
    /\ req = [m \in Machines |-> None] /\ rep = [m \in Machines |-> None]
    /\ mishaps = 0

\* What goes on by itself.
GoOn ==
    \/ Alarm \/ LeaseInit \/ Tick
    \/ \E m \in Machines :
          \/ DhcpPacket(m) \/ Discover(m) \/ AskAgain(m) \/ Select(m) \/ Renew(m)
          \/ Accept(m) \/ Refused(m) \/ TimedOut(m) \/ Discard(m)

\* What may happen.
Incident ==
    \/ Crash \/ Reload \/ Leave \/ DiskFull \/ DiskFree
    \/ \E a \in Addrs : Intrude(a)
    \/ \E m \in Machines :
          \/ SelectOther(m) \/ BootpRequest(m) \/ Release(m) \/ Reboot(m) \/ Sleep(m)
          \/ Wake(m) \/ LoseRequest(m) \/ LoseReply(m) \/ TwicePacket(m)

Next == GoOn \/ Incident

Spec == Init /\ [][Next]_vars
\* What goes on by itself does, unless nothing is left that could.
FairSpec == Spec /\ ([]<>Settled \/ []<><<GoOn>>_vars)

-----------------------------------------------------------------------------
\* No two machines use one address, asleep or awake, whatever the server, the
\* network, the disk and other hosts go through, unless a crash came when the
\* lease file was not up to date.
NoTwoHolders ==
    lost \/ \A m, n \in Machines, a \in Addrs : Holds(m, a) /\ Holds(n, a) => m = n

\* What a machine holds the server knows, in memory or, when it is down, in the
\* file, and for at least as long.
Known == IF up THEN leases ELSE file
HeldIsLeased ==
    lost \/ \A m \in Machines : machine[m].st \in {"bound", "renewing"} =>
        \E i \in DOMAIN Known : Known[i].addr = machine[m].addr /\ Known[i].mac = m
                                /\ Known[i].left >= machine[m].left

\* rfc2131.c:1517: no endless protocol loop.
NaksEnd == []<>(static \cap Reservable # {}) \/
           <>[](\A m \in Machines : rep[m].op # "NAK")

\* Every machine that is awake has an address again and again.
Served == \A m \in Machines : []<>(machine[m].asleep \/ Holds(m, machine[m].addr))

\* No two machines use an address the server has given out, and the server
\* knows of it (address_available, lease_find_by_addr, lease_update_file).
LeasesSound == NoTwoHolders /\ HeldIsLeased
=============================================================================
