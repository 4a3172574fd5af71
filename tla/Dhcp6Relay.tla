----------------------------- MODULE Dhcp6Relay -----------------------------
(***************************************************************************)
(* DHCPv6 relaying in dnsmasq: the relay agent (relay_upstream6 and          *)
(* relay_reply6 in rfc3315.c, called from dhcp6_packet) and the server's      *)
(* nested answer (dhcp6_maybe_relay).  Links carry the packets; relays may    *)
(* be chained, share a link, or be set up in a circle.                       *)
(*                                                                         *)
(* A message is a body in "wraps", the outermost first.  An address is the   *)
(* node that has it together with its link; link 0 is the unspecified one.   *)
(***************************************************************************)
EXTENDS Integers, FiniteSets, SequencesExt

CONSTANTS Clients,     \* hosts that send requests
          Light,       \* those behind a switch that wraps without a link (RFC 6221)
          Relays,      \* nodes that run dnsmasq as a relay
          Server,      \* the node that runs it as a server
          Attached,    \* the links each node is on
          Entries,     \* dhcp-relay of each relay: [iface, to, link, arrival]
          Ranges,      \* links the server has an address range for
          HopLimit,    \* HOP_COUNT_LIMIT, 32 in the code
          MaxAsks,     \* bound: requests of each client
          MaxRelayMishaps   \* bound: packets lost or repeated

AnyLink == 0
Nodes == Clients \cup Relays \cup {Server}

ASSUME RelayAssumption ==
    /\ Clients \cap (Relays \cup {Server}) = {} /\ Server \notin Relays
    /\ \A n \in Nodes : Attached[n] \subseteq Nat \ {0} /\ Attached[n] # {}
    /\ \A r \in Relays : \A e \in Range(Entries[r]) :
          /\ e.to \in Relays \cup {Server}
          /\ e.iface \in Attached[r] /\ e.link \in Attached[e.to]
          /\ e.arrival \in Attached[r] \cup {AnyLink}
    /\ {HopLimit, MaxAsks, MaxRelayMishaps} \subseteq Nat

VARIABLES
    net,       \* packets under way: [to, at, from, wraps, body]
    asked,     \* requests each client has sent
    relayMishaps

relayVars == <<net, asked, relayMishaps>>

Packet(to, at, from, wraps, body) ==
    [to |-> to, at |-> at, from |-> from, wraps |-> wraps, body |-> body]
Wrap(kind, hop, link, peer) == [kind |-> kind, hop |-> hop, link |-> link, peer |-> peer]
NoAnswer == {}

-----------------------------------------------------------------------------
(* rfc3315.c.                                                              *)

\* Mutant: the count of a relayed message is not carried on.
HopCount_Restarts(p) == 0

\* What relay_upstream6 puts in hop-count.
HopCount(p) ==
    IF p.wraps # <<>> /\ Head(p.wraps).kind = "FORW" THEN Head(p.wraps).hop + 1 ELSE 0

\* relay_upstream6: a copy to the server of every entry for the interface.
Upstream(r, p) ==
    LET es == {e \in Range(Entries[r]) : e.iface = p.at}
    IN IF HopCount(p) > HopLimit THEN NoAnswer
       ELSE {Packet(e.to, e.link, r,
                    <<Wrap("FORW", HopCount(p), e.iface, p.from)>> \o p.wraps, p.body) :
                e \in es}

\* The entry a relayed reply belongs to, by its link address and, if the entry
\* names one, the interface it arrives on.
Entry(r, p) ==
    LET hits == {i \in DOMAIN Entries[r] :
                    /\ Entries[r][i].iface = Head(p.wraps).link
                    /\ Entries[r][i].arrival \in {AnyLink, p.at}}
    IN IF p.wraps = <<>> \/ Head(p.wraps).kind # "REPL" THEN {} ELSE hits

\* relay_reply6: unwrapped, to the peer, out of the entry's interface, which is
\* the one its link address names.
Downstream(r, p) ==
    {Packet(Head(p.wraps).peer, Head(p.wraps).link, r, Tail(p.wraps), p.body)}

\* dhcp6_packet at a relay that is no server.
Relayed(r, p) == IF Entry(r, p) # {} THEN Downstream(r, p) ELSE Upstream(r, p)

\* Mutant: the link address next to the server counts.
LinkAddress_Outermost(p) ==
    LET named == {i \in DOMAIN p.wraps : p.wraps[i].link # 0}
    IN IF named = {} THEN p.at ELSE p.wraps[Min(named)].link

\* dhcp6_maybe_relay: the innermost link address that is not unspecified, or
\* else the interface of arrival.
LinkAddress(p) ==
    LET named == {i \in DOMAIN p.wraps : p.wraps[i].link # 0}
    IN IF named = {} THEN p.at ELSE p.wraps[Max(named)].link

\* dhcp6_reply: a nested request is answered with the same nest of replies; what
\* is no request inside, or comes from nowhere known, is not answered.
Replied(p) ==
    IF \/ \E i \in DOMAIN p.wraps : p.wraps[i].kind # "FORW"
       \/ p.body.op # "ask" \/ LinkAddress(p) \notin Ranges
    THEN NoAnswer
    ELSE {Packet(p.from, p.at, Server,
                 [i \in DOMAIN p.wraps |-> [p.wraps[i] EXCEPT !.kind = "REPL"]],
                 [p.body EXCEPT !.op = "answer", !.link = LinkAddress(p)])}

-----------------------------------------------------------------------------
Handle(p) ==
    CASE p.to \in Relays -> Relayed(p.to, p)
      [] p.to = Server -> Replied(p)
      [] p.to \in Clients -> NoAnswer

\* A request is multicast: all relays and servers on the link get it.
Ask(c) ==
    /\ asked[c] < MaxAsks
    /\ asked' = [asked EXCEPT ![c] = @ + 1]
    /\ net' = net \cup
          {p \in {Packet(n, l, c, IF c \in Light THEN <<Wrap("FORW", 0, 0, c)>> ELSE <<>>,
                         [op |-> "ask", client |-> c, no |-> asked[c], link |-> 0]) :
                   n \in Relays \cup {Server}, l \in Attached[c]} :
             p.at \in Attached[p.to]}
    /\ UNCHANGED relayMishaps

Deliver(p) ==
    /\ p \in net
    /\ net' = (net \ {p}) \cup Handle(p)
    /\ UNCHANGED <<asked, relayMishaps>>

Lose(p) ==
    /\ relayMishaps < MaxRelayMishaps /\ relayMishaps' = relayMishaps + 1
    /\ net' = net \ {p}
    /\ UNCHANGED asked

Twice(p) ==
    /\ relayMishaps < MaxRelayMishaps /\ relayMishaps' = relayMishaps + 1
    /\ net' = net \cup Handle(p)
    /\ UNCHANGED asked

RelayInit == net = {} /\ asked = [c \in Clients |-> 0] /\ relayMishaps = 0

RelayNext ==
    \/ \E c \in Clients : Ask(c)
    \/ \E p \in net : Deliver(p) \/ Lose(p) \/ Twice(p)

RelaySpec == RelayInit /\ [][RelayNext]_relayVars

-----------------------------------------------------------------------------
\* An answer comes to the client that asked, through however many relays, and
\* was made for the link it is on.
AnswersHome ==
    \A p \in net : p.to \in Clients =>
        /\ p.body.op = "answer" /\ p.body.client = p.to
        /\ p.body.link \in Attached[p.to] /\ p.at \in Attached[p.to]

\* However the relays are set up, a request is not wrapped again and again: once
\* in each relay up to the limit, and once before by a switch.
HopsBounded == \A p \in net : Len(p.wraps) <= HopLimit + 1 + (IF Light = {} THEN 0 ELSE 1)

\* Relays bring answers home and do not carry a request about for ever.
RelaysRight == AnswersHome /\ HopsBounded
=============================================================================
