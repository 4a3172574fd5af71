------------------------------ MODULE Listeners ------------------------------
(***************************************************************************)
(* The sockets dnsmasq listens on (network.c, netlink.c, main): addresses  *)
(* of interfaces are read from the kernel at the start and whenever it     *)
(* tells of a change, and sockets are opened and closed to follow them.    *)
(* The kernel goes on changing addresses between any two steps, and two    *)
(* interfaces may have the same one.                                       *)
(*                                                                         *)
(* A place is an interface index with an address.  The order of the list   *)
(* of interfaces is left open, the three sockets of a listener (DNS over   *)
(* UDP and TCP, TFTP) are one, and labels, authoritative interfaces,       *)
(* --no-dhcp-interface and --tftp-interface are left out.                  *)
(***************************************************************************)
EXTENDS Naturals, FiniteSets

CONSTANTS
    Spots,      \* the places there may be, <<index, address>>
    NameOf,     \* the name of the interface with an index
    V6,         \* the addresses that are of IPv6
    Loopbacks,  \* indexes of loopback interfaces
    IfNames,    \* --interface, when it is given
    IfAddrs,    \* --listen-address, when it is given
    IfExcept,   \* --except-interface
    AnyHost,    \* addresses that can be bound though no interface has them
    Bindings,   \* of "wild", "interfaces" (--bind-interfaces) and "dynamic"
    MaxShifts   \* bound: changes of addresses

ASSUME SpotsAssumption == IsFiniteSet(Spots)

VARIABLES
    binding,    \* how the server binds, for good
    ifAddrs,      \* daemon->if_addrs, for good
    addrs,      \* the kernel: each place is "none", "tentative" or "up"
    announced,  \* the netlink socket holds news of a change
    irecs,      \* daemon->interfaces: what is known of each place on the list
    names,      \* daemon->if_names
    used,       \* the names and addresses with INAME_USED
    bound,      \* listeners that belong to an interface, by address
    fixed,      \* listeners that do not: how many an address has, up to 2
    groups,     \* the interfaces whose DHCPv6 multicast group is joined
    newAddrs,   \* EVENT_NEWADDR in the pipe
    stage,      \* where the main loop is
    resume,     \* what the enumeration is for: start, dad, event or serve
    listed,     \* enumerate_interfaces, done: once in each round of the loop
    ready,      \* what poll found readable
    shifts

listenVars == <<binding, ifAddrs, addrs, announced, irecs, names, used, bound, fixed,
                groups, newAddrs, stage, resume, listed, ready, shifts>>
settings == <<binding, ifAddrs>>
sockets == <<bound, fixed, groups>>
known == <<irecs, names, used>>
outside == <<addrs, announced, shifts>>

AddrOf(p) == p[2]
Locals == {AddrOf(p) : p \in Spots} \cup IfAddrs
Here(S, a) == {p \in S : AddrOf(p) = a}

-----------------------------------------------------------------------------
(* enumerate_interfaces                                                    *)

\* iface_check, for the names known so far: everything if nothing is named,
\* and an address that is named even on an excluded interface.
IfaceCheck(ns, p) ==
    LET name == NameOf[p[1]] IN
    /\ (ns = {} /\ ifAddrs = {}) \/ name \in ns \/ AddrOf(p) \in ifAddrs
    /\ AddrOf(p) \in ifAddrs \/ name \notin IfExcept

\* The addresses of a family that the kernel reports.
Reported(six) == {p \in Spots : addrs[p] # "none" /\ (AddrOf(p) \in V6) = six}

\* iface_allowed for all of rep.  What is on the list already is found again;
\* of the rest, a loopback interface is let in where names restrict the others,
\* and what iface_check admits joins the list.
NamesOf(S) == {NameOf[p[1]] : p \in S}
NotListed(rep) == rep \ DOMAIN irecs
NamesAfter(rep) ==
    IF names = {} THEN {}
    ELSE names \cup NamesOf({p \in NotListed(rep) : p[1] \in Loopbacks})
Admitted(rep) == {p \in NotListed(rep) : IfaceCheck(NamesAfter(rep), p)}

IfaceAllowed(rep) ==
    [p \in DOMAIN irecs \cup Admitted(rep) |->
        LET tentative == addrs[p] = "tentative" IN
        IF p \in Admitted(rep)
        THEN [dad |-> tentative, found |-> TRUE, done |-> FALSE, multi |-> FALSE]
        ELSE IF p \in rep THEN [irecs[p] EXCEPT !.found = TRUE, !.dad = tentative]
        ELSE irecs[p]]

MarkUsed(rep) ==
    /\ names' = NamesAfter(rep)
    /\ used' = used \cup (NamesAfter(rep) \cap NamesOf(NotListed(rep)))
                    \cup (ifAddrs \cap {AddrOf(p) : p \in NotListed(rep)})

\* Mutant: news that arrives with the reply is dropped.
Overheard_Lost == announced' = FALSE /\ UNCHANGED newAddrs

\* nl_async for news that waits in the netlink socket before the reply.
Overheard ==
    /\ newAddrs' = IF announced THEN newAddrs + 1 ELSE newAddrs
    /\ announced' = FALSE

NoneFound(recs) == [p \in DOMAIN recs |-> [recs[p] EXCEPT !.found = FALSE]]

\* Where the loop goes on once the addresses are known.
AfterEnum == IF resume = "serve" THEN "poll" ELSE "bind"

EnumSix ==
    /\ stage = "six"
    /\ irecs' = IfaceAllowed(Reported(TRUE)) /\ MarkUsed(Reported(TRUE)) /\ Overheard
    /\ stage' = "four"
    /\ UNCHANGED <<settings, addrs, sockets, resume, listed, ready, shifts>>

\* The netlink socket overflows under the reply, a part of which was read:
\* restart is required.
EnumAgain ==
    /\ stage \in {"six", "four"} /\ announced
    /\ \E rep \in SUBSET Reported(stage = "six") :
          irecs' = NoneFound(IfaceAllowed(rep)) /\ MarkUsed(rep)
    /\ Overheard
    /\ stage' = "six"
    /\ UNCHANGED <<settings, addrs, sockets, resume, listed, ready, shifts>>

EnumFour ==
    /\ stage = "four"
    /\ irecs' = IfaceAllowed(Reported(FALSE)) /\ MarkUsed(Reported(FALSE)) /\ Overheard
    /\ stage' = IF binding = "dynamic" THEN "collect" ELSE AfterEnum
    /\ UNCHANGED <<settings, addrs, sockets, resume, listed, ready, shifts>>

\* release_listener, for a listener whose interface was not found: the users
\* that are gone let go of it, and one that is there takes it over.
Unfound == {a \in DOMAIN bound : ~irecs[bound[a].iface].found}
Users(a) == {p \in Here(DOMAIN irecs, a) : irecs[p].done}
Dropped(a) == IF bound[a].used > 1 THEN {p \in Users(a) : ~irecs[p].found} ELSE {}
Left(a) == bound[a].used - Cardinality(Dropped(a))
Closed == {a \in Unfound : bound[a].used <= 1 \/ Left(a) = 0}

\* Mutant: the listener keeps the interface it belonged to.
Heirs_Same(a) == {bound[a].iface}

Heirs(a) == {p \in Users(a) : irecs[p].found}

LetGo == (UNION {Dropped(a) : a \in Unfound}) \cup {bound[a].iface : a \in Closed}

\* clean_interfaces, when a listener was freed.
CleanInterfaces(recs) ==
    [p \in {q \in DOMAIN recs : recs[q].found \/ recs[q].done \/ Closed = {}} |-> recs[p]]

\* Garbage-collect the listeners on addresses that are no more.
Collect ==
    /\ stage = "collect"
    /\ irecs' = CleanInterfaces([p \in DOMAIN irecs |->
           IF p \in LetGo THEN [irecs[p] EXCEPT !.done = FALSE] ELSE irecs[p]])
    /\ \E heir \in [Unfound \ Closed -> DOMAIN irecs] :
          /\ \A a \in DOMAIN heir : heir[a] \in Heirs(a)
          /\ bound' = [a \in DOMAIN bound \ Closed |->
                 IF a \in Unfound THEN [iface |-> heir[a], used |-> Left(a)] ELSE bound[a]]
    /\ stage' = AfterEnum
    /\ UNCHANGED <<settings, outside, names, used, fixed, groups, newAddrs, resume, listed, ready>>

-----------------------------------------------------------------------------
(* create_bound_listeners and join_multicast                               *)

\* make_sock: bind fails for an address the host does not have, or not yet.
Binds(a) == a \in AnyHost \/ \E p \in Here(Spots, a) : addrs[p] = "up"

\* find_listener.
FindListener(a) == a \in DOMAIN bound \/ fixed[a] > 0

ToBind(a) == {p \in Here(DOMAIN irecs, a) :
                  ~irecs[p].done /\ ~irecs[p].dad /\ irecs[p].found}
Opened == {a \in Locals : ToBind(a) # {} /\ ~FindListener(a) /\ Binds(a)}
NowDone == UNION {ToBind(a) : a \in {b \in Locals : FindListener(b) \/ b \in Opened}}

\* An address of --listen-address that no interface was seen with is bound by
\* itself, and once more on each call.
Unused == ifAddrs \ used

CreateBoundListeners ==
    /\ \E first \in [Opened -> Spots] :
          /\ \A a \in Opened : first[a] \in ToBind(a)
          /\ bound' = [a \in DOMAIN bound \cup Opened |->
                 IF a \in Opened THEN [iface |-> first[a], used |-> Cardinality(ToBind(a))]
                 ELSE [bound[a] EXCEPT !.used = @ + Cardinality(ToBind(a))]]
    /\ fixed' = [a \in Locals |->
                    IF a \in Unused /\ Binds(a) /\ fixed[a] < 2 THEN fixed[a] + 1 ELSE fixed[a]]

Done(recs) ==
    [p \in DOMAIN recs |-> IF p \in NowDone THEN [recs[p] EXCEPT !.done = TRUE] ELSE recs[p]]

\* join_multicast: once for each interface with an address of IPv6.
Joining(recs) ==
    {p \in DOMAIN recs : AddrOf(p) \in V6 /\ p[1] \notin Loopbacks /\ ~recs[p].multi}
JoinMulticast(recs) ==
    /\ irecs' = [p \in DOMAIN recs |->
                   IF p \in Joining(recs) THEN [recs[p] EXCEPT !.multi = TRUE] ELSE recs[p]]
    /\ groups' = groups \cup {p[1] : p \in Joining(recs)}

\* A socket that cannot be opened at the start is the end, except that
\* --bind-dynamic waits for the address; so is a name no interface has.
Fatal ==
    /\ binding = "interfaces"
    /\ \/ \E a \in Locals : ToBind(a) # {} /\ ~FindListener(a) /\ ~Binds(a)
       \/ \E a \in Unused : ~Binds(a)
       \/ ~(names \subseteq used)

\* create_wildcard_listeners: two for any address, of no interface, for good.
CreateWildcardListeners == UNCHANGED <<bound, fixed>>

BindStart ==
    /\ stage = "bind" /\ resume = "start"
    /\ IF binding = "wild"
       THEN JoinMulticast(irecs) /\ CreateWildcardListeners
       ELSE CreateBoundListeners /\ JoinMulticast(Done(irecs))
    /\ stage' = IF Fatal THEN "dead" ELSE "poll"
    /\ UNCHANGED <<settings, outside, names, used, newAddrs, resume, listed, ready>>

-----------------------------------------------------------------------------
(* The main loop                                                            *)

Poll ==
    /\ stage = "poll"
    /\ ready' = {s \in {"netlink", "pipe"} :
                    IF s = "netlink" THEN announced ELSE newAddrs > 0}
    /\ listed' = FALSE
    /\ stage' = "dad"
    /\ UNCHANGED <<settings, outside, known, sockets, newAddrs, resume>>

\* enumerate_interfaces(0) in a round that has not seen one.
Enumerate(why) ==
    /\ irecs' = NoneFound(irecs)
    /\ stage' = "six" /\ resume' = why /\ listed' = TRUE

\* is_dad_listeners
IsDadListeners ==
    binding = "interfaces" /\ \E p \in DOMAIN irecs : irecs[p].dad /\ ~irecs[p].done

CheckDad ==
    /\ stage = "dad"
    /\ IF IsDadListeners THEN Enumerate("dad")
       ELSE stage' = "netlink" /\ UNCHANGED <<irecs, resume, listed>>
    /\ UNCHANGED <<settings, outside, names, used, sockets, newAddrs, ready>>

BindDad ==
    /\ stage = "bind" /\ resume = "dad"
    /\ CreateBoundListeners /\ irecs' = Done(irecs)
    /\ stage' = "netlink"
    /\ UNCHANGED <<settings, outside, names, used, groups, newAddrs, resume, listed, ready>>

\* netlink_multicast
NetlinkMulticast ==
    /\ stage = "netlink"
    /\ IF "netlink" \in ready THEN Overheard ELSE UNCHANGED <<announced, newAddrs>>
    /\ stage' = "pipe"
    /\ UNCHANGED <<settings, addrs, known, sockets, resume, listed, ready, shifts>>

\* newaddress, for one event from the pipe: enumerate_interfaces does nothing
\* if this round has seen it.
AddressNews ==
    /\ stage = "pipe"
    /\ IF "pipe" \notin ready
       THEN stage' = "serve" /\ UNCHANGED <<irecs, resume, listed, newAddrs>>
       ELSE /\ newAddrs' = newAddrs - 1
            /\ IF ~listed THEN Enumerate("event")
               ELSE stage' = "bind" /\ resume' = "event" /\ UNCHANGED <<irecs, listed>>
    /\ UNCHANGED <<settings, outside, names, used, sockets, ready>>

BindEvent ==
    /\ stage = "bind" /\ resume = "event"
    /\ IF binding = "dynamic"
       THEN CreateBoundListeners /\ JoinMulticast(Done(irecs))
       ELSE JoinMulticast(irecs) /\ UNCHANGED <<bound, fixed>>
    /\ stage' = "serve"
    /\ UNCHANGED <<settings, outside, names, used, newAddrs, resume, listed, ready>>

\* A request may ask for the interfaces again, before it is served.
Serve ==
    /\ stage = "serve"
    /\ \/ stage' = "poll" /\ UNCHANGED <<irecs, resume, listed>>
       \/ ~listed /\ Enumerate("serve")
    /\ UNCHANGED <<settings, outside, names, used, sockets, newAddrs, ready>>

\* The kernel: an address comes, is found to be unique, or goes.
Moves(p) ==
    CASE addrs[p] = "none"      -> IF AddrOf(p) \in V6 THEN {"tentative", "up"} ELSE {"up"}
      [] addrs[p] = "tentative" -> {"up", "none"}
      [] OTHER                  -> {"none"}

Shift ==
    /\ shifts < MaxShifts /\ stage # "dead"
    /\ \E p \in Spots : \E s \in Moves(p) : addrs' = [addrs EXCEPT ![p] = s]
    /\ shifts' = shifts + 1 /\ announced' = TRUE
    /\ UNCHANGED <<settings, known, sockets, newAddrs, stage, resume, listed, ready>>

-----------------------------------------------------------------------------
ListenInit ==
    /\ binding \in Bindings
    /\ names \in {{}, IfNames} /\ ifAddrs \in {{}, IfAddrs}
    /\ addrs \in [Spots -> {"none", "tentative", "up"}]
    /\ \A p \in Spots : addrs[p] = "tentative" => AddrOf(p) \in V6
    /\ announced = FALSE /\ newAddrs = 0 /\ shifts = 0
    /\ irecs = [p \in {} |-> [dad |-> FALSE]] /\ used = {}
    /\ bound = [a \in {} |-> [used |-> 0]] /\ fixed = [a \in Locals |-> 0] /\ groups = {}
    /\ stage = "six" /\ resume = "start" /\ listed = TRUE /\ ready = {}

MainLoop ==
    \/ EnumSix \/ EnumFour \/ Collect
    \/ BindStart \/ Poll \/ CheckDad \/ BindDad
    \/ NetlinkMulticast \/ AddressNews \/ BindEvent \/ Serve

ListenNext == MainLoop \/ EnumAgain \/ Shift

ListenSpec == ListenInit /\ [][ListenNext]_listenVars

\* The main loop goes on: poll returns when something is readable, at the
\* latest, and nothing in the loop waits.
FairListenSpec == ListenSpec /\ WF_listenVars(MainLoop)

-----------------------------------------------------------------------------
(* Properties                                                              *)

ListenTypeOK ==
    /\ binding \in Bindings /\ ifAddrs \subseteq IfAddrs
    /\ addrs \in [Spots -> {"none", "tentative", "up"}] /\ announced \in BOOLEAN
    /\ DOMAIN irecs \subseteq Spots
    /\ \A p \in DOMAIN irecs : irecs[p] \in [dad : BOOLEAN, found : BOOLEAN,
                                            done : BOOLEAN, multi : BOOLEAN]
    /\ DOMAIN bound \subseteq Locals
    /\ \A a \in DOMAIN bound : bound[a] \in [iface : Spots, used : Nat]
    /\ fixed \in [Locals -> 0 .. 2] /\ groups \subseteq {p[1] : p \in Spots}
    /\ newAddrs \in Nat /\ listed \in BOOLEAN /\ ready \subseteq {"netlink", "pipe"}
    /\ stage \in {"six", "four", "collect", "bind", "poll", "dad", "netlink", "pipe",
                 "serve", "dead"}
    /\ resume \in {"start", "dad", "event", "serve"}

\* A listener never points to an interface that was freed, and counts exactly
\* the interfaces that share it: each of them is served by it.
OwnersThere ==
    \A a \in DOMAIN bound :
        /\ bound[a].iface \in Users(a)
        /\ bound[a].used = Cardinality(Users(a))

\* What is marked as served is: no interface is taken for one with a listener
\* when its listener has been closed.
DoneIsBound == \A p \in DOMAIN irecs : irecs[p].done => FindListener(AddrOf(p))

\* The list of interfaces and the listeners agree, however addresses went and
\* came while sockets were shared.
ListenersRight == ListenTypeOK /\ OwnersThere /\ DoneIsBound

Admissible(p) ==
    IfaceCheck(IF names = {} THEN {} ELSE names \cup {NameOf[i] : i \in Loopbacks}, p)

\* The sockets as the addresses ask for them: with --bind-dynamic exactly those
\* of the interfaces served, with --bind-interfaces at least those that were
\* still tentative when they were found, and the groups of DHCPv6 in each case.
InStep ==
    /\ binding = "dynamic" =>
          /\ \A p \in Spots : addrs[p] = "up" /\ Admissible(p) => FindListener(AddrOf(p))
          /\ \A a \in DOMAIN bound : \E p \in Here(Spots, a) : addrs[p] # "none"
    /\ binding = "interfaces" =>
          \A p \in DOMAIN irecs : irecs[p].dad /\ addrs[p] = "up" => irecs[p].done
    /\ \A p \in Spots :
          addrs[p] = "up" /\ Admissible(p) /\ AddrOf(p) \in V6 /\ p[1] \notin Loopbacks
          => p[1] \in groups

\* When the addresses have stopped changing, the sockets follow them for good:
\* no news is lost between the enumerations, the netlink socket and the pipe.
FollowsKernel == <>[](stage = "dead" \/ InStep)

=============================================================================
