----------------------------- MODULE Ipv6Proofs -----------------------------
(***************************************************************************)
(* DHCPv6 relays in any number, attached and configured in any way, with   *)
(* packets lost and repeated without bound: every answer comes home, and   *)
(* no packet is wrapped for ever (RelaysCorrect).                          *)
(*                                                                         *)
(* The wraps of a packet are its way back.  A request carries the trail of *)
(* the relays it came through, each with the interface it was heard on,    *)
(* the client's own link last; an answer carries what is left of that      *)
(* trail.  A relay that finds none of its entries for an answer (which     *)
(* takes entries that name the interface of arrival) sends it upstream as  *)
(* if it were a request: it goes astray, but reaches no client.            *)
(*                                                                         *)
(* And the sockets of the server: on any interfaces, with addresses shared *)
(* and changing at any time, each listener counts exactly the places it    *)
(* serves (ListenersCorrect).                                              *)
(***************************************************************************)
EXTENDS Dhcp6Relay, Listeners, FiniteSetTheorems, TLAPS

Relayer(s, l) == s \in Relays /\ \E j \in DOMAIN Entries[s] : Entries[s][j].iface = l

Trail(ws, s, c, k) ==
  /\ k \in Nat /\ Len(ws) \in {k, k + 1}
  /\ k = 0 => s = c
  /\ k > 0 => /\ Relayer(s, ws[1].link)
              /\ ws[k].peer = c /\ ws[k].link \in Attached[c]
  /\ \A i \in 2 .. k : Relayer(ws[i - 1].peer, ws[i].link)
  /\ Len(ws) = k + 1 => ws[k + 1].link = 0

Wraps == [kind : {"FORW", "REPL"}, hop : Nat, link : Nat, peer : Nodes]
Packets == [to : Nodes, at : Nat \ {0}, from : Nodes, wraps : Seq(Wraps),
            body : [op : {"ask", "answer"}, client : Clients, no : Nat, link : Nat]]

\* A packet whose trail is s has been relayed along it, k times.
Traced(p, s) ==
  \E k \in 0 .. Len(p.wraps) : /\ Trail(p.wraps, s, p.body.client, k)
                               /\ k = 0 => p.at \in Attached[p.body.client]

Asking(p) ==
  /\ p.body.op = "ask" /\ p.to \in Relays \cup {Server}
  /\ \A i \in DOMAIN p.wraps : p.wraps[i].kind = "FORW"
  /\ Traced(p, p.from)

Answering(p) ==
  /\ p.body.op = "answer" /\ p.body.link \in Attached[p.body.client]
  /\ \A i \in DOMAIN p.wraps : p.wraps[i].kind = "REPL"
  /\ Traced(p, p.to)

Astray(p) ==
  /\ p.body.op = "answer" /\ p.to \in Relays \cup {Server}
  /\ p.wraps # <<>> /\ p.wraps[1].kind = "FORW"

LightWraps == IF Light = {} THEN 0 ELSE 1

HopsCounted(p) ==
  /\ (Asking(p) /\ p.wraps # <<>>) => /\ p.wraps[1].hop <= HopLimit
                                      /\ Len(p.wraps) <= p.wraps[1].hop + 1 + LightWraps
  /\ Answering(p) => Len(p.wraps) <= HopLimit + 1 + LightWraps
  /\ Astray(p) => /\ p.wraps[1].hop <= HopLimit
                  /\ Len(p.wraps) <= HopLimit + p.wraps[1].hop + 2 + LightWraps

NoArrival == \A r \in Relays : \A e \in Range(Entries[r]) : e.arrival = AnyLink

Sound(p) == /\ Asking(p) \/ Answering(p) \/ (Astray(p) /\ ~NoArrival)
            /\ HopsCounted(p)

RelayInv == net \subseteq Packets /\ \A p \in net : Sound(p)

-----------------------------------------------------------------------------
(* Trails                                                                  *)

\* A relay has interfaces that are links, and servers that are no clients.
LEMMA RelayerLinks ==
  ASSUME NEW s, NEW l, Relayer(s, l)
  PROVE  s \in Relays /\ s \in Nodes /\ s \notin Clients /\ l \in Nat \ {0}
BY RelayAssumption DEF Relayer, Nodes, Range

\* One more relay at the front of a trail.
LEMMA TrailGrows ==
  ASSUME NEW ws \in Seq(Wraps), NEW w \in Wraps, NEW c \in Clients, NEW k \in Nat,
         NEW r, NEW s, Trail(ws, s, c, k),
         Relayer(r, w.link), w.peer = s, k = 0 => w.link \in Attached[c]
  PROVE  Trail(<<w>> \o ws, r, c, k + 1)
<1> DEFINE v == <<w>> \o ws
<1>1. /\ Len(v) = Len(ws) + 1 /\ v[1] = w
      /\ \A i \in 1 .. Len(ws) : v[i + 1] = ws[i]
  OBVIOUS
<1>2. Len(ws) \in {k, k + 1} /\ Len(v) \in {k + 1, k + 2}
  BY <1>1 DEF Trail
<1> HIDE DEF v
<1>3. v[k + 1].peer = c /\ v[k + 1].link \in Attached[c]
  BY <1>1, <1>2 DEF Trail
<1>4. ASSUME NEW i \in 2 .. k + 1 PROVE Relayer(v[i - 1].peer, v[i].link)
  <2>1. CASE i = 2
    BY <1>1, <1>2, <2>1 DEF Trail
  <2>2. CASE i > 2
    <3>1. /\ i - 1 \in 2 .. k /\ i - 1 \in 1 .. Len(ws) /\ i - 2 \in 1 .. Len(ws)
      BY <1>2, <2>2
    <3>2. v[i] = ws[i - 1] /\ v[i - 1] = ws[i - 2]
      <4>1. v[(i - 1) + 1] = ws[i - 1] /\ v[(i - 2) + 1] = ws[i - 2]
        BY <1>1, <3>1
      <4> QED
        BY <4>1
    <3>3. Relayer(ws[(i - 1) - 1].peer, ws[i - 1].link)
      BY <3>1 DEF Trail
    <3> QED
      BY <3>2, <3>3
  <2> QED
    BY <2>1, <2>2
<1>5. Len(v) = k + 2 => v[k + 2].link = 0
  BY <1>1, <1>2 DEF Trail
<1> QED
  BY <1>1, <1>2, <1>3, <1>4, <1>5 DEF Trail, v

\* What is left when the relay at its front has taken its own wrap off.
LEMMA TrailShrinks ==
  ASSUME NEW ws \in Seq(Wraps), NEW c \in Clients, NEW k \in Nat \ {0},
         NEW r, Trail(ws, r, c, k)
  PROVE  Trail(Tail(ws), ws[1].peer, c, k - 1)
<1> DEFINE v == Tail(ws)
<1>1. Len(ws) \in {k, k + 1} /\ Len(ws) > 0
  BY DEF Trail
<1>2. Len(v) = Len(ws) - 1 /\ \A i \in 1 .. Len(ws) - 1 : v[i] = ws[i + 1]
  BY <1>1
<1> HIDE DEF v
<1>3. k = 1 => ws[1].peer = c
  BY DEF Trail
<1>4. CASE k = 1
  BY <1>1, <1>2, <1>3, <1>4 DEF Trail, v
<1>5. CASE k > 1
  <2>1. Relayer(ws[1].peer, v[1].link)
    BY <1>1, <1>2, <1>5 DEF Trail
  <2>2. v[k - 1].peer = c /\ v[k - 1].link \in Attached[c]
    BY <1>1, <1>2, <1>5 DEF Trail
  <2>3. ASSUME NEW i \in 2 .. k - 1 PROVE Relayer(v[i - 1].peer, v[i].link)
    <3>1. v[i] = ws[i + 1] /\ v[i - 1] = ws[i] /\ i + 1 \in 2 .. k
      BY <1>1, <1>2
    <3>2. Relayer(ws[(i + 1) - 1].peer, ws[i + 1].link)
      BY <3>1 DEF Trail
    <3> QED
      BY <3>1, <3>2
  <2>4. Len(v) = k => v[k].link = 0
    BY <1>1, <1>2 DEF Trail
  <2> QED
    BY <1>1, <1>2, <1>5, <2>1, <2>2, <2>3, <2>4 DEF Trail, v
<1> QED
  BY <1>4, <1>5

\* The kinds of the wraps do not matter to a trail.
LEMMA TrailOfKinds ==
  ASSUME NEW ws \in Seq(Wraps), NEW vs \in Seq(Wraps), Len(vs) = Len(ws),
         \A i \in 1 .. Len(ws) : vs[i].link = ws[i].link /\ vs[i].peer = ws[i].peer,
         NEW c, NEW k, NEW s, Trail(ws, s, c, k)
  PROVE  Trail(vs, s, c, k)
<1>1. k \in Nat /\ Len(ws) \in {k, k + 1}
  BY DEF Trail
<1>2. k > 0 => Relayer(s, vs[1].link) /\ vs[k].peer = c /\ vs[k].link \in Attached[c]
  BY <1>1 DEF Trail
<1>3. ASSUME NEW i \in 2 .. k PROVE Relayer(vs[i - 1].peer, vs[i].link)
  BY <1>1 DEF Trail
<1>4. Len(vs) = k + 1 => vs[k + 1].link = 0
  BY <1>1 DEF Trail
<1> QED
  BY <1>1, <1>2, <1>3, <1>4 DEF Trail

-----------------------------------------------------------------------------
(* What the nodes send                                                     *)

\* Packet, field by field.
LEMMA PacketFields ==
  ASSUME NEW to \in Nodes, NEW at \in Nat \ {0}, NEW from \in Nodes, NEW ws \in Seq(Wraps),
         NEW body \in [op : {"ask", "answer"}, client : Clients, no : Nat, link : Nat]
  PROVE  /\ Packet(to, at, from, ws, body) \in Packets
         /\ Packet(to, at, from, ws, body).to = to
         /\ Packet(to, at, from, ws, body).at = at
         /\ Packet(to, at, from, ws, body).from = from
         /\ Packet(to, at, from, ws, body).wraps = ws
         /\ Packet(to, at, from, ws, body).body = body
BY DEF Packet, Packets

\* Only a light client's trail has a wrap no relay made; such a request has
\* been sent from the client's own link.
LEMMA AskSound ==
  ASSUME asked \in [Clients -> Nat], NEW c \in Clients,
         NEW n \in Relays \cup {Server}, NEW l \in Attached[c]
  PROVE  LET p == Packet(n, l, c, IF c \in Light THEN <<Wrap("FORW", 0, 0, c)>> ELSE <<>>,
                         [op |-> "ask", client |-> c, no |-> asked[c], link |-> 0])
         IN p \in Packets /\ Sound(p)
<1> DEFINE ws == IF c \in Light THEN <<Wrap("FORW", 0, 0, c)>> ELSE <<>>
           body == [op |-> "ask", client |-> c, no |-> asked[c], link |-> 0]
           p == Packet(n, l, c, ws, body)
<1>1. Wrap("FORW", 0, 0, c) \in Wraps /\ n \in Nodes /\ c \in Nodes /\ l \in Nat \ {0}
  BY RelayAssumption DEF Wrap, Wraps, Nodes
<1>2. /\ ws \in Seq(Wraps) /\ Len(ws) \in {0, 1}
      /\ Len(ws) = 1 => c \in Light /\ ws[1] = Wrap("FORW", 0, 0, c)
  BY <1>1
<1>3. body \in [op : {"ask", "answer"}, client : Clients, no : Nat, link : Nat]
  OBVIOUS
<1>4. /\ p \in Packets /\ p.to = n /\ p.at = l /\ p.from = c /\ p.wraps = ws
      /\ p.body.op = "ask" /\ p.body.client = c
  <2> HIDE DEF ws
  <2> QED
    BY <1>1, <1>2, <1>3, PacketFields
<1> HIDE DEF p, ws, body
<1>5. Trail(ws, c, c, 0)
  BY <1>2 DEF Trail, Wrap
<1>6. Asking(p)
  BY <1>2, <1>4, <1>5 DEF Asking, Traced, Wrap
<1>7. HopsCounted(p)
  <2>1. HopLimit \in Nat
    BY RelayAssumption
  <2>2. Len(ws) = 1 => LightWraps = 1 /\ ws[1].hop = 0
    BY <1>2 DEF LightWraps, Wrap
  <2>3. ws = <<>> \/ Len(ws) = 1
    BY <1>2
  <2>4. ~Answering(p) /\ ~Astray(p)
    BY <1>4 DEF Answering, Astray
  <2>5. p.wraps # <<>> => p.wraps[1].hop = 0 /\ Len(p.wraps) = 1 /\ LightWraps = 1
    BY <1>4, <2>2, <2>3
  <2>6. p.wraps # <<>> => /\ p.wraps[1].hop <= HopLimit
                          /\ Len(p.wraps) <= p.wraps[1].hop + 1 + LightWraps
    <3>1. 0 <= HopLimit /\ 1 <= 0 + 1 + 1
      BY <2>1
    <3> QED
      BY <2>5, <3>1, Zenon
  <2> HIDE DEF p
  <2> QED
    BY <2>4, <2>6 DEF HopsCounted
<1> QED
  BY <1>4, <1>6, <1>7 DEF Sound, p, ws, body

\* What a relay sends upstream of a request is a request of one hop more.
LEMMA UpstreamSound ==
  ASSUME NEW r \in Relays, NEW p \in Packets, p.to = r, Sound(p),
         Answering(p) => Entry(r, p) = {}, NEW q \in Upstream(r, p)
  PROVE  q \in Packets /\ Sound(q)
<1>1. PICK e \in Range(Entries[r]) :
         /\ e.iface = p.at
         /\ q = Packet(e.to, e.link, r,
                       <<Wrap("FORW", HopCount(p), e.iface, p.from)>> \o p.wraps, p.body)
  BY DEF Upstream, NoAnswer
<1> DEFINE w == Wrap("FORW", HopCount(p), p.at, p.from)
           ws == <<w>> \o p.wraps
<1>3. /\ p.at \in Nat \ {0} /\ p.from \in Nodes /\ p.wraps \in Seq(Wraps)
      /\ p.body \in [op : {"ask", "answer"}, client : Clients, no : Nat, link : Nat]
  BY DEF Packets
<1>4. p.wraps # <<>> => p.wraps[1] \in Wraps /\ p.wraps[1] = Head(p.wraps)
  BY <1>3
<1>5. HopCount(p) \in Nat
  BY <1>4 DEF HopCount, Wraps
<1>2. HopCount(p) <= HopLimit
  <2>1. HopLimit \in Nat
    BY RelayAssumption
  <2>2. ~(HopCount(p) > HopLimit)
    BY DEF Upstream, NoAnswer
  <2> QED
    BY <1>5, <2>1, <2>2
<1>6. w \in Wraps /\ w.kind = "FORW" /\ w.hop = HopCount(p) /\ w.link = p.at /\ w.peer = p.from
  BY <1>3, <1>5 DEF Wrap, Wraps
<1> HIDE DEF w
<1>7. /\ ws \in Seq(Wraps) /\ ws # <<>> /\ ws[1] = w /\ Len(ws) = Len(p.wraps) + 1
      /\ \A i \in 1 .. Len(p.wraps) : ws[i + 1] = p.wraps[i]
  BY <1>3, <1>6
<1> HIDE DEF ws
<1>8. /\ e.to \in Nodes /\ e.to \in Relays \cup {Server} /\ e.link \in Nat \ {0}
      /\ r \in Nodes
  BY RelayAssumption DEF Nodes
<1>9. /\ q \in Packets /\ q.to = e.to /\ q.at = e.link /\ q.from = r
      /\ q.wraps = ws /\ q.body = p.body
  <2>1. q = Packet(e.to, e.link, r, ws, p.body)
    BY <1>1 DEF w, ws
  <2> QED
    BY SMTT(60), <2>1, <1>3, <1>7, <1>8, PacketFields
<1>10. CASE Asking(p)
  <2>1. PICK k \in 0 .. Len(p.wraps) : /\ Trail(p.wraps, p.from, p.body.client, k)
                                       /\ k = 0 => p.at \in Attached[p.body.client]
    BY <1>10 DEF Asking, Traced
  <2>2. Relayer(r, w.link)
    BY <1>1, <1>6 DEF Relayer, Range
  <2>3. Trail(ws, r, p.body.client, k + 1)
    <3>1. k \in Nat /\ p.body.client \in Clients
      BY <1>3
    <3>2. k = 0 => w.link \in Attached[p.body.client]
      BY <1>6, <2>1
    <3> QED
      BY <1>3, <1>6, <2>1, <2>2, <3>1, <3>2, TrailGrows DEF ws
  <2>4. Traced(q, r)
    BY <1>3, <1>7, <1>9, <2>3 DEF Traced
  <2>5. \A i \in DOMAIN q.wraps : q.wraps[i].kind = "FORW"
    <3> SUFFICES ASSUME NEW i \in 1 .. Len(ws) PROVE ws[i].kind = "FORW"
      BY <1>7, <1>9
    <3>1. CASE i = 1
      BY <1>6, <1>7, <3>1
    <3>2. CASE i > 1
      <4>1. i - 1 \in 1 .. Len(p.wraps) /\ ws[(i - 1) + 1] = p.wraps[i - 1]
        BY <1>3, <1>7, <3>2
      <4> QED
        BY <1>3, <1>10, <4>1 DEF Asking
    <3> QED
      BY <3>1, <3>2
  <2>6. Asking(q)
    BY <1>8, <1>9, <1>10, <2>4, <2>5 DEF Asking
  <2>7. /\ p.wraps = <<>> => HopCount(p) = 0 /\ Len(p.wraps) = 0
        /\ p.wraps # <<>> => /\ HopCount(p) = p.wraps[1].hop + 1
                             /\ Len(p.wraps) <= p.wraps[1].hop + 1 + LightWraps
                             /\ p.wraps[1].hop \in Nat
    BY <1>3, <1>4, <1>10 DEF HopCount, Asking, Sound, HopsCounted, Wraps
  <2>8. Len(ws) <= w.hop + 1 + LightWraps
    <3>1. LightWraps \in Nat
      BY DEF LightWraps
    <3> QED
      BY <1>3, <1>6, <1>7, <2>7, <3>1
  <2>9. HopsCounted(q)
    BY <1>2, <1>6, <1>7, <1>9, <1>10, <2>8 DEF HopsCounted, Asking, Answering, Astray
  <2> QED
    BY <1>9, <2>6, <2>9 DEF Sound
<1>11. CASE Answering(p) \/ (Astray(p) /\ ~NoArrival)
  <2>1. q.body.op = "answer" /\ Astray(q) /\ ~Asking(q) /\ ~Answering(q)
    BY <1>6, <1>7, <1>8, <1>9, <1>11 DEF Asking, Answering, Astray
  <2>2. ~NoArrival /\ Len(ws) <= HopLimit + w.hop + 2 + LightWraps
    <3>0. LightWraps \in Nat /\ HopLimit \in Nat
      BY RelayAssumption DEF LightWraps
    <3>1. CASE Answering(p)
      <4>1. PICK k \in 0 .. Len(p.wraps) : Trail(p.wraps, r, p.body.client, k)
        BY <3>1 DEF Answering, Traced
      <4>2. k # 0 /\ p.wraps # <<>>
        BY <1>3, <4>1, RelayAssumption DEF Trail
      <4>3. Head(p.wraps).kind = "REPL" /\ Relayer(r, Head(p.wraps).link)
        BY <1>3, <1>4, <3>1, <4>1, <4>2 DEF Trail, Answering
      <4>4. PICK j \in DOMAIN Entries[r] : Entries[r][j].iface = Head(p.wraps).link
        BY <4>3 DEF Relayer
      <4>5. ~NoArrival
        BY <3>1, <4>2, <4>3, <4>4 DEF Entry, NoArrival, Range
      <4>6. HopCount(p) = 0 /\ Len(p.wraps) <= HopLimit + 1 + LightWraps
        BY <3>1, <4>3 DEF HopCount, Sound, HopsCounted
      <4> QED
        BY <1>3, <1>6, <1>7, <3>0, <4>5, <4>6
    <3>2. CASE Astray(p) /\ ~NoArrival
      <4>1. /\ HopCount(p) = p.wraps[1].hop + 1 /\ p.wraps[1].hop \in Nat
            /\ Len(p.wraps) <= HopLimit + p.wraps[1].hop + 2 + LightWraps
        BY <1>4, <3>2 DEF HopCount, Astray, Sound, HopsCounted, Wraps
      <4> QED
        BY SMTT(60), <1>3, <1>6, <1>7, <3>0, <3>2, <4>1
    <3> QED
      BY <1>11, <3>1, <3>2
  <2>3. HopsCounted(q)
    BY <1>2, <1>6, <1>7, <1>9, <2>1, <2>2 DEF HopsCounted
  <2> QED
    BY <1>9, <2>1, <2>2, <2>3 DEF Sound
<1> QED
  BY <1>10, <1>11 DEF Sound

\* What a relay sends on of an answer has lost the relay's own wrap.
LEMMA DownstreamSound ==
  ASSUME NEW r \in Relays, NEW p \in Packets, p.to = r, Sound(p), Entry(r, p) # {},
         NEW q \in Downstream(r, p)
  PROVE  q \in Packets /\ Sound(q)
<1>1. /\ p.wraps # <<>> /\ p.wraps \in Seq(Wraps) /\ p.wraps[1] = Head(p.wraps)
      /\ p.wraps[1] \in Wraps /\ p.wraps[1].kind = "REPL"
      /\ p.body \in [op : {"ask", "answer"}, client : Clients, no : Nat, link : Nat]
  BY DEF Packets, Entry
<1>2. Answering(p)
  BY <1>1 DEF Sound, Asking, Astray
<1>3. PICK k \in 0 .. Len(p.wraps) : Trail(p.wraps, r, p.body.client, k)
  BY <1>2 DEF Answering, Traced
<1>4. k \in Nat \ {0} /\ Relayer(r, p.wraps[1].link)
  BY <1>1, <1>3, RelayAssumption DEF Trail
<1> DEFINE ws == Tail(p.wraps)
<1>5. /\ ws \in Seq(Wraps) /\ Len(ws) = Len(p.wraps) - 1
      /\ \A i \in 1 .. Len(ws) : ws[i] = p.wraps[i + 1]
  BY <1>1
<1>6. Trail(ws, p.wraps[1].peer, p.body.client, k - 1)
  BY <1>1, <1>3, <1>4, TrailShrinks
<1> HIDE DEF ws
<1>7. /\ q \in Packets /\ q.to = p.wraps[1].peer /\ q.at = p.wraps[1].link
      /\ q.wraps = ws /\ q.body = p.body
  <2>1. q = Packet(p.wraps[1].peer, p.wraps[1].link, r, ws, p.body)
    BY <1>1 DEF Downstream, ws
  <2>2. /\ p.wraps[1].peer \in Nodes /\ p.wraps[1].link \in Nat \ {0} /\ r \in Nodes
    BY <1>1, <1>4, RelayerLinks DEF Wraps
  <2> QED
    BY <1>1, <1>5, <2>1, <2>2, PacketFields
<1>8. k - 1 = 0 => q.at \in Attached[q.body.client]
  BY <1>3, <1>4, <1>7 DEF Trail
<1>9. Traced(q, q.to)
  <2>1. k - 1 \in 0 .. Len(ws)
    BY <1>1, <1>4, <1>5
  <2> QED
    BY <1>6, <1>7, <1>8, <2>1 DEF Traced
<1>10. Answering(q)
  <2>1. \A i \in DOMAIN ws : ws[i].kind = "REPL"
    <3> SUFFICES ASSUME NEW i \in 1 .. Len(ws) PROVE ws[i].kind = "REPL"
      BY <1>5
    <3>1. ws[i] = p.wraps[i + 1] /\ i + 1 \in DOMAIN p.wraps
      BY <1>1, <1>5
    <3> QED
      BY <1>2, <3>1 DEF Answering
  <2> QED
    BY <1>2, <1>7, <1>9, <2>1 DEF Answering
<1>11. HopsCounted(q)
  <2>1. Len(ws) <= HopLimit + 1 + LightWraps
    <3>1. Len(p.wraps) <= HopLimit + 1 + LightWraps /\ Len(p.wraps) \in Nat
      BY <1>1, <1>2 DEF Sound, HopsCounted
    <3>2. HopLimit \in Nat /\ LightWraps \in Nat
      BY RelayAssumption DEF LightWraps
    <3> QED
      BY <1>5, <3>1, <3>2
  <2>2. ~Astray(q) /\ ~Asking(q)
    BY <1>5, <1>7, <1>10 DEF Astray, Asking, Answering
  <2> QED
    BY <1>7, <2>1, <2>2 DEF HopsCounted
<1> QED
  BY <1>7, <1>10, <1>11 DEF Sound

\* The link the server finds is the client's: the one named by the first relay,
\* or the one the request arrives on.
LEMMA LinkIsClients ==
  ASSUME NEW p \in Packets, Asking(p)
  PROVE  LinkAddress(p) \in Attached[p.body.client]
<1> DEFINE ws == p.wraps
           named == {i \in DOMAIN ws : ws[i].link # 0}
<1>1. PICK k \in 0 .. Len(ws) : /\ Trail(ws, p.from, p.body.client, k)
                                /\ k = 0 => p.at \in Attached[p.body.client]
  BY DEF Asking, Traced
<1>2. ws \in Seq(Wraps) /\ p.body.client \in Clients
  BY DEF Packets
<1>3. \A i \in named : i \in 1 .. k
  BY <1>1, <1>2 DEF Trail
<1>4. CASE k = 0
  <2>1. named = {}
    BY <1>3, <1>4
  <2> QED
    BY <1>1, <1>4, <2>1 DEF LinkAddress
<1>5. CASE k > 0
  <2>1. ws[k].link \in Attached[p.body.client] /\ k \in 1 .. Len(ws)
    BY <1>1, <1>5 DEF Trail
  <2>2. ws[k].link # 0
    BY <1>2, <2>1, RelayAssumption DEF Nodes
  <2>3. k \in named /\ \A i \in named : k >= i
    BY <1>2, <1>3, <2>1, <2>2
  <2>4. Max(named) \in named /\ \A i \in named : Max(named) >= i
    BY <2>3 DEF Max
  <2> DEFINE m == Max(named)
  <2>5. LinkAddress(p) = ws[m].link
    BY <2>3 DEF LinkAddress
  <2>6. m \in 1 .. k /\ m >= k
    BY <1>3, <2>3, <2>4
  <2> HIDE DEF m
  <2>7. m = k
    BY <2>6
  <2> QED
    BY <2>1, <2>5, <2>7
<1> QED
  BY <1>4, <1>5

\* The server answers requests only, and gives the trail back.
LEMMA RepliedSound ==
  ASSUME NEW p \in Packets, p.to = Server, Sound(p), NEW q \in Replied(p)
  PROVE  q \in Packets /\ Sound(q)
<1> DEFINE ws == [i \in DOMAIN p.wraps |-> [p.wraps[i] EXCEPT !.kind = "REPL"]]
           body == [p.body EXCEPT !.op = "answer", !.link = LinkAddress(p)]
<1>1. /\ p.body.op = "ask"
      /\ q = Packet(p.from, p.at, Server, ws, body)
  BY DEF Replied, NoAnswer
<1>2. Asking(p)
  BY <1>1 DEF Sound, Answering, Astray
<1>3. /\ p.wraps \in Seq(Wraps) /\ p.at \in Nat \ {0} /\ p.from \in Nodes
      /\ p.body \in [op : {"ask", "answer"}, client : Clients, no : Nat, link : Nat]
  BY DEF Packets
<1>4. LinkAddress(p) \in Attached[p.body.client] /\ LinkAddress(p) \in Nat
  <2>1. Attached[p.body.client] \subseteq Nat
    BY <1>3, RelayAssumption DEF Nodes
  <2> QED
    BY <1>2, <2>1, LinkIsClients
<1>5. /\ body \in [op : {"ask", "answer"}, client : Clients, no : Nat, link : Nat]
      /\ body.op = "answer" /\ body.client = p.body.client /\ body.link = LinkAddress(p)
  BY <1>3, <1>4
<1>6. /\ ws \in Seq(Wraps) /\ Len(ws) = Len(p.wraps)
      /\ \A i \in 1 .. Len(ws) : /\ ws[i].kind = "REPL" /\ ws[i].link = p.wraps[i].link
                                 /\ ws[i].peer = p.wraps[i].peer
  <2>1. \A i \in 1 .. Len(p.wraps) : p.wraps[i] \in Wraps
    BY <1>3
  <2>2. \A i \in 1 .. Len(p.wraps) :
          /\ [p.wraps[i] EXCEPT !.kind = "REPL"] \in Wraps
          /\ [p.wraps[i] EXCEPT !.kind = "REPL"].kind = "REPL"
          /\ [p.wraps[i] EXCEPT !.kind = "REPL"].link = p.wraps[i].link
          /\ [p.wraps[i] EXCEPT !.kind = "REPL"].peer = p.wraps[i].peer
    BY <2>1 DEF Wraps
  <2>3. ws \in [1 .. Len(p.wraps) -> Wraps] /\ Len(p.wraps) \in Nat
    BY <1>3, <2>2
  <2>4. ws \in Seq(Wraps) /\ Len(ws) = Len(p.wraps)
    BY <2>3
  <2> QED
    BY <1>3, <2>2, <2>4
<1> HIDE DEF ws, body
<1>7. /\ q \in Packets /\ q.to = p.from /\ q.at = p.at /\ q.wraps = ws /\ q.body = body
  <2>1. Server \in Nodes
    BY DEF Nodes
  <2> QED
    BY <1>1, <1>3, <1>5, <1>6, <2>1, PacketFields
<1>8. PICK k \in 0 .. Len(p.wraps) : /\ Trail(p.wraps, p.from, p.body.client, k)
                                     /\ k = 0 => p.at \in Attached[p.body.client]
  BY <1>2 DEF Asking, Traced
<1>9. Trail(ws, p.from, p.body.client, k)
  BY <1>3, <1>6, <1>8, TrailOfKinds
<1>10. Answering(q)
  BY <1>4, <1>5, <1>6, <1>7, <1>8, <1>9 DEF Answering, Traced
<1>11. HopsCounted(q)
  <2>1. Len(ws) <= HopLimit + 1 + LightWraps
    <3>1. HopLimit \in Nat /\ LightWraps \in Nat
      BY RelayAssumption DEF LightWraps
    <3>2. p.wraps # <<>> => /\ p.wraps[1].hop <= HopLimit /\ p.wraps[1].hop \in Nat
                            /\ Len(p.wraps) <= p.wraps[1].hop + 1 + LightWraps
      <4>1. p.wraps # <<>> => p.wraps[1] \in Wraps
        BY <1>3
      <4> QED
        BY <1>2, <4>1 DEF Sound, HopsCounted, Wraps
    <3>3. p.wraps = <<>> \/ p.wraps # <<>>
      OBVIOUS
    <3> QED
      BY <1>3, <1>6, <3>1, <3>2, <3>3
  <2>2. ~Astray(q) /\ ~Asking(q)
    BY <1>5, <1>6, <1>7 DEF Astray, Asking
  <2> QED
    BY <1>7, <2>1, <2>2 DEF HopsCounted
<1> QED
  BY <1>7, <1>10, <1>11 DEF Sound

\* Whatever handles a packet sends sound packets.
LEMMA HandleSound ==
  ASSUME NEW p \in Packets, Sound(p), NEW q \in Handle(p)
  PROVE  q \in Packets /\ Sound(q)
<1>1. CASE p.to \in Relays
  <2>1. q \in Relayed(p.to, p)
    BY <1>1, RelayAssumption DEF Handle
  <2>2. CASE Entry(p.to, p) # {}
    BY <1>1, <2>1, <2>2, DownstreamSound DEF Relayed
  <2>3. CASE Entry(p.to, p) = {}
    BY <1>1, <2>1, <2>3, UpstreamSound DEF Relayed
  <2> QED
    BY <2>2, <2>3
<1>2. CASE p.to = Server
  BY <1>2, RepliedSound, RelayAssumption DEF Handle
<1>3. CASE p.to \in Clients
  BY <1>3, RelayAssumption DEF Handle, NoAnswer
<1> QED
  BY <1>1, <1>2, <1>3 DEF Packets, Nodes

-----------------------------------------------------------------------------
(* Every packet, always                                                    *)

IInv == asked \in [Clients -> Nat] /\ RelayInv

\* The invariant is inductive.
LEMMA RelayStep == IInv /\ [RelayNext]_relayVars => IInv'
<1> SUFFICES ASSUME IInv, [RelayNext]_relayVars PROVE IInv'
  OBVIOUS
<1>1. ASSUME NEW c \in Clients, Ask(c) PROVE IInv'
  <2>1. asked' \in [Clients -> Nat]
    BY <1>1 DEF Ask, IInv
  <2>2. ASSUME NEW q \in net', q \notin net PROVE q \in Packets /\ Sound(q)
    <3>1. PICK n \in Relays \cup {Server}, l \in Attached[c] :
             q = Packet(n, l, c, IF c \in Light THEN <<Wrap("FORW", 0, 0, c)>> ELSE <<>>,
                        [op |-> "ask", client |-> c, no |-> asked[c], link |-> 0])
      BY <1>1, <2>2 DEF Ask
    <3> QED
      BY <3>1, AskSound DEF IInv
  <2> QED
    BY <2>1, <2>2 DEF IInv, RelayInv
<1>2. ASSUME NEW p \in net, Deliver(p) \/ Lose(p) \/ Twice(p) PROVE IInv'
  <2>1. asked' = asked /\ \A q \in net' : q \in net \/ q \in Handle(p)
    BY <1>2 DEF Deliver, Lose, Twice
  <2>2. p \in Packets /\ Sound(p)
    BY DEF IInv, RelayInv
  <2>3. \A q \in Handle(p) : q \in Packets /\ Sound(q)
    BY <2>2, HandleSound
  <2> QED
    BY <2>1, <2>3 DEF IInv, RelayInv
<1>3. CASE UNCHANGED relayVars
  BY <1>3 DEF relayVars, IInv, RelayInv
<1> QED
  BY <1>1, <1>2, <1>3 DEF RelayNext

\* The invariant, of every behaviour.
THEOREM RelayInvariant == RelaySpec => []IInv
<1>1. RelayInit => IInv
  BY DEF RelayInit, IInv, RelayInv
<1> QED
  BY <1>1, RelayStep, PTL DEF RelaySpec

\* A sound packet for a client is an answer that has come home.
LEMMA SoundComesHome ==
  ASSUME NEW p \in Packets, Sound(p), p.to \in Clients
  PROVE  /\ p.body.op = "answer" /\ p.body.client = p.to
         /\ p.body.link \in Attached[p.to] /\ p.at \in Attached[p.to]
<1>1. Answering(p)
  BY RelayAssumption DEF Sound, Asking, Astray
<1>2. PICK k \in 0 .. Len(p.wraps) : /\ Trail(p.wraps, p.to, p.body.client, k)
                                     /\ k = 0 => p.at \in Attached[p.body.client]
  BY <1>1 DEF Answering, Traced
<1>3. k = 0
  BY <1>2, RelayerLinks DEF Trail
<1> QED
  BY <1>1, <1>2, <1>3 DEF Answering, Trail

\* In every network of clients, relays and a server, whatever is lost, repeated
\* or overtaken: an answer comes to the client that asked for it, on a link of
\* that client, and was made for such a link (rfc3315.c, relay_upstream6,
\* relay_reply6 and dhcp6_maybe_relay).
THEOREM AnswersComeHome == RelaySpec => []AnswersHome
<1>1. IInv => AnswersHome
  BY SoundComesHome DEF IInv, RelayInv, AnswersHome
<1> QED
  BY <1>1, RelayInvariant, PTL

\* A sound packet has few wraps, and fewer if none can have gone astray.
LEMMA SoundIsShort ==
  ASSUME NEW p \in Packets, Sound(p)
  PROVE  /\ Len(p.wraps) <= 2 * (HopLimit + 1) + LightWraps
         /\ NoArrival => Len(p.wraps) <= HopLimit + 1 + LightWraps
<1>1. /\ p.wraps \in Seq(Wraps) /\ HopLimit \in Nat /\ LightWraps \in Nat
      /\ p.wraps # <<>> => p.wraps[1].hop \in Nat
      /\ Len(p.wraps) \in Nat /\ (p.wraps = <<>> => Len(p.wraps) = 0)
  <2>1. p.wraps \in Seq(Wraps) /\ HopLimit \in Nat /\ LightWraps \in Nat
    BY RelayAssumption DEF Packets, LightWraps
  <2>2. p.wraps # <<>> => p.wraps[1] \in Wraps
    BY <2>1
  <2> QED
    BY <2>1, <2>2 DEF Wraps
<1>2. CASE Asking(p) \/ Answering(p)
  BY <1>1, <1>2 DEF Sound, HopsCounted
<1>3. CASE Astray(p) /\ ~NoArrival
  BY <1>1, <1>3 DEF Sound, HopsCounted, Astray
<1> QED
  BY <1>2, <1>3 DEF Sound

\* However relays are chained or set up in circles, no packet is wrapped for
\* ever; and if no entry insists on the interface an answer arrives by, no more
\* often than the hop limit allows a request.
THEOREM WrapsBounded ==
  RelaySpec => [](/\ \A p \in net : Len(p.wraps) <= 2 * (HopLimit + 1) + LightWraps
                  /\ NoArrival => HopsBounded)
<1>1. IInv => /\ \A p \in net : Len(p.wraps) <= 2 * (HopLimit + 1) + LightWraps
              /\ NoArrival => HopsBounded
  BY SoundIsShort DEF IInv, RelayInv, HopsBounded, LightWraps
<1> QED
  BY <1>1, RelayInvariant, PTL

\* So relays do what is checked of them, unless an entry insists on the interface.
THEOREM RelaysCorrect == NoArrival => (RelaySpec => []RelaysRight)
<1> SUFFICES ASSUME NoArrival PROVE RelaySpec => []RelaysRight
  OBVIOUS
<1>1. IInv => RelaysRight
  BY SoundIsShort, SoundComesHome DEF IInv, RelayInv, RelaysRight, AnswersHome, HopsBounded,
     LightWraps
<1> QED
  BY <1>1, RelayInvariant, PTL

-----------------------------------------------------------------------------
(* The listeners (Listeners)                                              *)

\* An event that the loop is going to take from the pipe is in it.
EventThere ==
    /\ "pipe" \in ready
    /\ \/ stage \in {"dad", "netlink", "pipe"}
       \/ stage \in {"six", "four", "collect", "bind"} /\ resume = "dad"
    => newAddrs > 0

ListenInv == ListenersRight /\ EventThere

LEMMA UsersFinite ==
    ASSUME DOMAIN irecs \subseteq Spots, NEW a
    PROVE  /\ IsFiniteSet(Users(a)) /\ Cardinality(Users(a)) \in Nat
           /\ IsFiniteSet(ToBind(a)) /\ Cardinality(ToBind(a)) \in Nat
  <1>1. Users(a) \subseteq Spots /\ ToBind(a) \subseteq Spots
    BY DEF Users, ToBind, Here
  <1> QED BY <1>1, SpotsAssumption, FS_Subset, FS_CardinalityType

\* A step that leaves the listeners alone, and whom they serve.
LEMMA SameUsers ==
    ASSUME ListenersRight, ListenTypeOK', UNCHANGED <<bound, fixed>>,
           \A p \in DOMAIN irecs : irecs[p].done => p \in DOMAIN irecs' /\ irecs'[p].done,
           \A p \in DOMAIN irecs' : irecs'[p].done => p \in DOMAIN irecs /\ irecs[p].done
    PROVE  ListenersRight'
  <1>1. \A a : Users(a)' = Users(a)
    BY DEF Users, Here
  <1>2. OwnersThere'
    BY <1>1 DEF ListenersRight, OwnersThere
  <1>3. DoneIsBound'
    BY DEF ListenersRight, DoneIsBound, FindListener
  <1> QED BY <1>2, <1>3 DEF ListenersRight

Known == [dad : BOOLEAN, found : BOOLEAN, done : BOOLEAN, multi : BOOLEAN]

LEMMA FreshRecord ==
    ASSUME NEW b \in BOOLEAN, NEW r,
           r = [dad |-> b, found |-> TRUE, done |-> FALSE, multi |-> FALSE]
    PROVE  r \in Known /\ ~r.done
  BY Zenon DEF Known

LEMMA SeenRecord ==
    ASSUME NEW r \in Known, NEW b \in BOOLEAN, NEW s,
           s = [r EXCEPT !.found = TRUE, !.dad = b] \/ s = r
    PROVE  s \in Known /\ s.done = r.done
  BY DEF Known

\* iface_allowed: new places on the list have no listener yet.
LEMMA AllowedKeeps ==
    ASSUME ListenTypeOK, NEW rep \in SUBSET Spots
    PROVE  LET new == IfaceAllowed(rep) IN
           /\ DOMAIN new \subseteq Spots
           /\ \A p \in DOMAIN new : new[p] \in Known
           /\ \A p \in DOMAIN irecs : p \in DOMAIN new /\ new[p].done = irecs[p].done
           /\ \A p \in DOMAIN new : new[p].done => p \in DOMAIN irecs
  <1> DEFINE new == IfaceAllowed(rep)
  <1>1. DOMAIN new = DOMAIN irecs \cup Admitted(rep)
    BY DEF IfaceAllowed
  <1>2. Admitted(rep) \subseteq rep \ DOMAIN irecs
    BY DEF Admitted, NotListed
  <1>3. ASSUME NEW p \in Admitted(rep)
        PROVE  \E b \in BOOLEAN :
                  new[p] = [dad |-> b, found |-> TRUE, done |-> FALSE, multi |-> FALSE]
    <2>1. (addrs[p] = "tentative") \in BOOLEAN
      OBVIOUS
    <2> QED BY <2>1, Zenon DEF IfaceAllowed
  <1>4. ASSUME NEW p \in DOMAIN irecs
        PROVE  \E b \in BOOLEAN :
                  \/ new[p] = [irecs[p] EXCEPT !.found = TRUE, !.dad = b]
                  \/ new[p] = irecs[p]
    <2>1. (addrs[p] = "tentative") \in BOOLEAN
      OBVIOUS
    <2> QED BY <2>1, <1>2, Zenon DEF IfaceAllowed
  <1> HIDE DEF new
  <1>5. \A p \in DOMAIN irecs : irecs[p] \in Known
    BY DEF ListenTypeOK, Known
  <1>6. ASSUME NEW p \in DOMAIN irecs
        PROVE  /\ new[p] \in Known
               /\ new[p].done = irecs[p].done
    BY <1>4, <1>5, SeenRecord
  <1>7. ASSUME NEW p \in Admitted(rep)
        PROVE  /\ new[p] \in Known
               /\ ~new[p].done
    BY <1>3, FreshRecord
  <1>8. DOMAIN irecs \subseteq Spots
    BY DEF ListenTypeOK
  <1> QED BY <1>1, <1>2, <1>6, <1>7, <1>8 DEF new

Records(recs) == DOMAIN recs \subseteq Spots /\ \A p \in DOMAIN recs : recs[p] \in Known


Typed ==
    /\ binding \in Bindings /\ ifAddrs \subseteq IfAddrs
    /\ addrs \in [Spots -> {"none", "tentative", "up"}] /\ announced \in BOOLEAN
    /\ Records(irecs)
    /\ DOMAIN bound \subseteq Locals
    /\ \A a \in DOMAIN bound : bound[a] \in [iface : Spots, used : Nat]
    /\ fixed \in [Locals -> 0 .. 2] /\ groups \subseteq {p[1] : p \in Spots}
    /\ newAddrs \in Nat /\ listed \in BOOLEAN /\ ready \subseteq {"netlink", "pipe"}
    /\ stage \in {"six", "four", "collect", "bind", "poll", "dad", "netlink", "pipe",
                 "serve", "dead"}
    /\ resume \in {"start", "dad", "event", "serve"}

LEMMA Types == ListenTypeOK <=> Typed
  BY Zenon DEF ListenTypeOK, Typed, Records, Known
LEMMA TypesNext == ListenTypeOK' <=> Typed'
  BY Types, PTL

\* create_bound_listeners: a new listener has no users but those it is opened
\* for, as a place that is done has one already.
LEMMA CreateKeeps ==
    ASSUME ListenersRight, CreateBoundListeners,
           Records(irecs'), DOMAIN irecs' = DOMAIN irecs,
           \A p \in DOMAIN irecs : irecs'[p].done <=> irecs[p].done \/ p \in NowDone
    PROVE  /\ DOMAIN bound' \subseteq Locals
           /\ \A a \in DOMAIN bound' : bound'[a] \in [iface : Spots, used : Nat]
           /\ fixed' \in [Locals -> 0 .. 2]
           /\ OwnersThere' /\ DoneIsBound'
  <1>1. PICK first \in [Opened -> Spots] :
          /\ \A a \in Opened : first[a] \in ToBind(a)
          /\ bound' = [a \in DOMAIN bound \cup Opened |->
                 IF a \in Opened THEN [iface |-> first[a], used |-> Cardinality(ToBind(a))]
                 ELSE [bound[a] EXCEPT !.used = @ + Cardinality(ToBind(a))]]
    BY DEF CreateBoundListeners
  <1>2. /\ DOMAIN bound \subseteq Locals /\ fixed \in [Locals -> 0 .. 2]
        /\ \A a \in DOMAIN bound : bound[a] \in [iface : Spots, used : Nat]
        /\ DOMAIN irecs \subseteq Spots
    BY Types DEF Typed, ListenersRight, Records
  <1>3. Opened \subseteq Locals /\ \A a \in Opened : a \notin DOMAIN bound /\ ~FindListener(a)
    BY DEF Opened, FindListener
  <1>4. fixed' \in [Locals -> 0 .. 2] /\ \A a \in Locals : fixed[a] > 0 => fixed'[a] > 0
    <2>1. fixed' = [a \in Locals |->
                    IF a \in Unused /\ Binds(a) /\ fixed[a] < 2 THEN fixed[a] + 1 ELSE fixed[a]]
      BY DEF CreateBoundListeners
    <2>2. \A a \in Locals : fixed[a] \in 0 .. 2 /\ fixed'[a] \in {fixed[a], fixed[a] + 1}
                            /\ (fixed[a] = 2 => fixed'[a] = 2)
      BY <2>1, <1>2
    <2> QED BY <2>1, <2>2
  <1>5. ASSUME NEW a \in Locals, FindListener(a) \/ a \in Opened
        PROVE  Users(a)' = Users(a) \cup ToBind(a)
    <2>1. NowDone \cap Here(DOMAIN irecs, a) = ToBind(a)
      BY <1>5 DEF NowDone, ToBind, Here
    <2> QED BY <2>1 DEF Users, Here
  <1>6. ASSUME NEW a \in Opened
        PROVE  /\ bound'[a].iface \in Users(a)' /\ bound'[a].used = Cardinality(Users(a)')
               /\ bound'[a] \in [iface : Spots, used : Nat]
    <2>1. Users(a) = {}
      BY <1>3 DEF Users, Here, ListenersRight, DoneIsBound
    <2>2. Users(a)' = ToBind(a)
      BY <1>3, <1>5, <2>1
    <2>3. bound'[a] = [iface |-> first[a], used |-> Cardinality(ToBind(a))]
      BY <1>1
    <2>4. first[a] \in Spots /\ first[a] \in ToBind(a) /\ Cardinality(ToBind(a)) \in Nat
      BY <1>1, <1>2, UsersFinite
    <2> QED BY <2>2, <2>3, <2>4
  <1>7. ASSUME NEW a \in DOMAIN bound
        PROVE  /\ bound'[a].iface \in Users(a)' /\ bound'[a].used = Cardinality(Users(a)')
               /\ bound'[a] \in [iface : Spots, used : Nat]
    <2>1. Users(a)' = Users(a) \cup ToBind(a)
      BY <1>2, <1>5 DEF FindListener
    <2>2. Users(a) \cap ToBind(a) = {}
      BY DEF Users, ToBind
    <2>3. Cardinality(Users(a)') = Cardinality(Users(a)) + Cardinality(ToBind(a))
      <3>1. /\ IsFiniteSet(Users(a)) /\ IsFiniteSet(ToBind(a))
            /\ Cardinality(Users(a)) \in Nat /\ Cardinality(ToBind(a)) \in Nat
        BY <1>2, UsersFinite
      <3>2. Cardinality(Users(a) \cap ToBind(a)) = 0
        BY <2>2, FS_EmptySet, Zenon
      <3>3. Cardinality(Users(a) \cup ToBind(a))
            = Cardinality(Users(a)) + Cardinality(ToBind(a)) - Cardinality(Users(a) \cap ToBind(a))
        BY <3>1, FS_Union, Zenon
      <3> QED BY <3>1, <3>2, <3>3, <2>1
    <2>4. bound'[a] = [bound[a] EXCEPT !.used = @ + Cardinality(ToBind(a))]
      BY <1>1, <1>3
    <2>5. bound[a].iface \in Users(a) /\ bound[a].used = Cardinality(Users(a))
      BY DEF ListenersRight, OwnersThere
    <2>6. bound[a] \in [iface : Spots, used : Nat] /\ Cardinality(ToBind(a)) \in Nat
      BY <1>2, UsersFinite
    <2>7. /\ bound'[a].iface = bound[a].iface /\ bound'[a] \in [iface : Spots, used : Nat]
          /\ bound'[a].used = bound[a].used + Cardinality(ToBind(a))
      BY <2>4, <2>6
    <2> QED BY <2>1, <2>3, <2>5, <2>7
  <1>8. DOMAIN bound' = DOMAIN bound \cup Opened
    BY <1>1
  <1>9. DoneIsBound'
    <2> SUFFICES ASSUME NEW p \in DOMAIN irecs, irecs'[p].done
                 PROVE  FindListener(AddrOf(p))'
      BY DEF DoneIsBound
    <2>1. AddrOf(p) \in Locals
      BY <1>2 DEF Locals
    <2>2. FindListener(AddrOf(p)) \/ AddrOf(p) \in Opened
      <3>1. CASE irecs[p].done
        BY <3>1 DEF ListenersRight, DoneIsBound
      <3>2. CASE p \in NowDone
        BY <3>2 DEF NowDone, ToBind, Here
      <3> QED BY <3>1, <3>2
    <2> QED BY <2>1, <2>2, <1>8, <1>4 DEF FindListener
  <1>10. OwnersThere'
    BY <1>6, <1>7, <1>8 DEF OwnersThere
  <1> QED BY <1>2, <1>3, <1>4, <1>6, <1>7, <1>8, <1>9, <1>10

\* The listeners on addresses that are no more: the users that are gone let go,
\* and what is left of them is counted.
LEMMA CollectKeeps ==
    ASSUME ListenersRight, Collect
    PROVE  /\ Records(irecs')
           /\ DOMAIN bound' \subseteq Locals
           /\ \A a \in DOMAIN bound' : bound'[a] \in [iface : Spots, used : Nat]
           /\ OwnersThere' /\ DoneIsBound'
  <1>1. PICK heir \in [Unfound \ Closed -> DOMAIN irecs] :
          /\ \A a \in DOMAIN heir : heir[a] \in Heirs(a)
          /\ bound' = [a \in DOMAIN bound \ Closed |->
                 IF a \in Unfound THEN [iface |-> heir[a], used |-> Left(a)] ELSE bound[a]]
    BY DEF Collect
  <1>2. /\ Records(irecs) /\ DOMAIN bound \subseteq Locals
        /\ \A a \in DOMAIN bound : bound[a] \in [iface : Spots, used : Nat]
    BY Types DEF Typed, ListenersRight
  <1>3. \A a \in DOMAIN bound : bound[a].iface \in Users(a) /\ bound[a].used = Cardinality(Users(a))
    BY DEF ListenersRight, OwnersThere
  <1>4. /\ \A p \in DOMAIN irecs' : p \in DOMAIN irecs /\ irecs'[p] \in Known
        /\ \A p \in DOMAIN irecs : irecs[p].done /\ p \notin LetGo
                                   => p \in DOMAIN irecs' /\ irecs'[p].done
        /\ \A p \in DOMAIN irecs' : irecs'[p].done => irecs[p].done /\ p \notin LetGo
    <2> DEFINE recs == [p \in DOMAIN irecs |->
                 IF p \in LetGo THEN [irecs[p] EXCEPT !.done = FALSE] ELSE irecs[p]]
    <2>1. irecs' = CleanInterfaces(recs)
      BY DEF Collect
    <2>2. DOMAIN recs = DOMAIN irecs
      OBVIOUS
    <2>3. ASSUME NEW p \in DOMAIN irecs
          PROVE  /\ recs[p] \in Known
                 /\ p \in LetGo => ~recs[p].done
                 /\ p \notin LetGo => recs[p] = irecs[p]
      <3>1. irecs[p] \in Known
        BY <1>2 DEF Records
      <3>2. recs[p] = IF p \in LetGo THEN [irecs[p] EXCEPT !.done = FALSE] ELSE irecs[p]
        OBVIOUS
      <3> HIDE DEF recs
      <3> QED BY <3>1, <3>2 DEF Known
    <2> HIDE DEF recs
    <2>4. /\ DOMAIN irecs' = {q \in DOMAIN recs : recs[q].found \/ recs[q].done \/ Closed = {}}
          /\ \A p \in DOMAIN irecs' : irecs'[p] = recs[p]
      BY <2>1, Zenon DEF CleanInterfaces
    <2> QED BY <2>2, <2>3, <2>4
  <1>12. \A x : x \in LetGo <=> \/ \E b \in Unfound : x \in Dropped(b)
                               \/ \E b \in Closed : x = bound[b].iface
    BY DEF LetGo
  <1>13. Closed \subseteq Unfound /\ Unfound \subseteq DOMAIN bound
    BY DEF Closed, Unfound
  <1>5. \A a : Users(a)' = Users(a) \ LetGo
    BY <1>4 DEF Users, Here
  <1>6. Records(irecs')
    BY <1>2, <1>4 DEF Records
  <1>7. ASSUME NEW a \in DOMAIN bound, a \notin Closed
        PROVE  /\ bound'[a].iface \in Users(a)' /\ bound'[a].used = Cardinality(Users(a)')
               /\ bound'[a] \in [iface : Spots, used : Nat]
    <2>0. \A b \in DOMAIN bound : Dropped(b) \subseteq Users(b)
      BY DEF Dropped
    <2>1. LetGo \cap Users(a) = IF a \in Unfound THEN Dropped(a) ELSE {}
      <3>1. \A b \in DOMAIN bound : b # a => Users(b) \cap Users(a) = {}
        BY DEF Users, Here
      <3>2. ASSUME NEW x \in LetGo, x \in Users(a)
            PROVE  a \in Unfound /\ x \in Dropped(a)
        <4>1. CASE \E b \in Unfound : x \in Dropped(b)
          BY <4>1, <3>1, <3>2, <2>0, <1>13, Zenon
        <4>2. CASE \E b \in Closed : x = bound[b].iface
          BY <4>2, <3>1, <3>2, <1>3, <1>7, <1>13, Zenon
        <4> QED BY <4>1, <4>2, <3>2, <1>12
      <3>3. a \in Unfound => Dropped(a) \subseteq LetGo /\ Dropped(a) \subseteq Users(a)
        BY <1>12, <2>0, <1>7
      <3> QED BY <3>2, <3>3
    <2>2. CASE a \in Unfound
      <3>1. Users(a)' = Users(a) \ Dropped(a)
        BY <1>5, <2>1, <2>2
      <3>2. /\ IsFiniteSet(Users(a)) /\ Cardinality(Users(a)) \in Nat
        BY <1>2, UsersFinite DEF Records
      <3>3. Users(a) \cap Dropped(a) = Dropped(a)
        BY <2>0
      <3>4. /\ Cardinality(Users(a)') = Cardinality(Users(a)) - Cardinality(Dropped(a))
            /\ IsFiniteSet(Users(a)')
        BY <3>1, <3>2, <3>3, FS_Difference, Zenon
      <3>5. Left(a) = Cardinality(Users(a)')
        BY <3>4, <1>3 DEF Left
      <3>6. Left(a) \in Nat
        BY <3>4, <3>5, FS_CardinalityType, Zenon
      <3>7. bound'[a] = [iface |-> heir[a], used |-> Left(a)] /\ heir[a] \in Heirs(a)
        BY <1>1, <1>7, <2>2
      <3>8. Heirs(a) \subseteq Users(a) \ Dropped(a) /\ Heirs(a) \subseteq Spots
        BY <1>2 DEF Heirs, Dropped, Users, Here, Records
      <3> QED BY <3>1, <3>5, <3>6, <3>7, <3>8
    <2>3. CASE a \notin Unfound
      <3>1. Users(a)' = Users(a)
        BY <1>5, <2>1, <2>3
      <3>2. bound'[a] = bound[a]
        BY <1>1, <1>7, <2>3
      <3> QED BY <3>1, <3>2, <1>2, <1>3
    <2> QED BY <2>2, <2>3
  <1>8. DOMAIN bound' = DOMAIN bound \ Closed
    BY <1>1
  <1>9. ASSUME NEW a \in Closed
        PROVE  Users(a) \subseteq LetGo
    <2>1. /\ a \in Unfound /\ a \in DOMAIN bound /\ bound[a].iface \in LetGo
          /\ Dropped(a) \subseteq LetGo
      BY <1>12, <1>13
    <2>2. IsFiniteSet(Users(a)) /\ Cardinality(Users(a)) \in Nat
      BY <1>2, UsersFinite DEF Records
    <2>3. CASE bound[a].used <= 1
      <3>1. Cardinality(Users(a)) # 0
        BY <2>1, <2>2, <1>3, FS_EmptySet
      <3>2. Cardinality(Users(a)) = 1
        BY <2>1, <2>2, <2>3, <3>1, <1>3
      <3>3. PICK x : Users(a) = {x}
        BY <2>2, <3>2, FS_Singleton, Zenon
      <3> QED BY <3>3, <2>1, <1>3
    <2>4. CASE ~(bound[a].used <= 1)
      <3>1. Dropped(a) \subseteq Users(a)
        BY DEF Dropped
      <3>2. Left(a) = 0
        BY <2>4 DEF Closed
      <3>3. IsFiniteSet(Dropped(a)) /\ Cardinality(Dropped(a)) \in Nat
        BY <3>1, <2>2, FS_Subset, FS_CardinalityType, Zenon
      <3>4. Cardinality(Users(a)) = Cardinality(Dropped(a))
        BY <3>2, <3>3, <2>1, <2>2, <1>3 DEF Left
      <3>5. Users(a) = Dropped(a)
        BY <3>1, <3>4, <2>2, FS_Subset, Zenon
      <3> QED BY <3>5, <2>1
    <2> QED BY <2>3, <2>4
  <1>10. DoneIsBound'
    <2> SUFFICES ASSUME NEW p \in DOMAIN irecs', irecs'[p].done
                 PROVE  FindListener(AddrOf(p))'
      BY DEF DoneIsBound
    <2>1. p \in DOMAIN irecs /\ irecs[p].done /\ p \notin LetGo
      BY <1>4
    <2>2. FindListener(AddrOf(p)) /\ p \in Users(AddrOf(p))
      BY <2>1 DEF ListenersRight, DoneIsBound, Users, Here
    <2>3. AddrOf(p) \notin Closed
      BY <2>1, <2>2, <1>9
    <2> QED BY <2>2, <2>3, <1>8 DEF FindListener, Collect
  <1>11. OwnersThere'
    BY <1>7, <1>8 DEF OwnersThere
  <1> QED BY <1>2, <1>6, <1>7, <1>8, <1>10, <1>11

\* join_multicast changes neither the listeners nor whom they serve.
LEMMA JoinKeeps ==
    ASSUME NEW recs, Records(recs), JoinMulticast(recs), groups \subseteq {p[1] : p \in Spots}
    PROVE  /\ Records(irecs') /\ groups' \subseteq {p[1] : p \in Spots}
           /\ DOMAIN irecs' = DOMAIN recs
           /\ \A p \in DOMAIN recs : irecs'[p].done <=> recs[p].done
  <1>1. irecs' = [p \in DOMAIN recs |->
                   IF p \in Joining(recs) THEN [recs[p] EXCEPT !.multi = TRUE] ELSE recs[p]]
    BY DEF JoinMulticast
  <1>2. ASSUME NEW p \in DOMAIN recs
        PROVE  irecs'[p] \in Known /\ irecs'[p].done = recs[p].done
    <2>1. recs[p] \in Known
      BY DEF Records
    <2>2. irecs'[p] = [recs[p] EXCEPT !.multi = TRUE] \/ irecs'[p] = recs[p]
      BY <1>1
    <2> QED BY <2>1, <2>2 DEF Known
  <1>3. groups' \subseteq {p[1] : p \in Spots}
    BY DEF JoinMulticast, Joining, Records
  <1> QED BY <1>1, <1>2, <1>3 DEF Records

LEMMA DoneKeeps ==
    ASSUME Records(irecs)
    PROVE  /\ Records(Done(irecs)) /\ DOMAIN Done(irecs) = DOMAIN irecs
           /\ \A p \in DOMAIN irecs : Done(irecs)[p].done <=> irecs[p].done \/ p \in NowDone
  <1> DEFINE recs == Done(irecs)
  <1>1. recs = [p \in DOMAIN irecs |->
                  IF p \in NowDone THEN [irecs[p] EXCEPT !.done = TRUE] ELSE irecs[p]]
    BY DEF Done
  <1> HIDE DEF recs
  <1>2. ASSUME NEW p \in DOMAIN irecs
        PROVE  recs[p] \in Known /\ (recs[p].done <=> irecs[p].done \/ p \in NowDone)
    <2>1. irecs[p] \in Known
      BY DEF Records
    <2>2. recs[p] = IF p \in NowDone THEN [irecs[p] EXCEPT !.done = TRUE] ELSE irecs[p]
      BY <1>1
    <2> QED BY <2>1, <2>2 DEF Known
  <1> QED BY <1>1, <1>2 DEF Records, recs

LEMMA NoneKeeps ==
    ASSUME NEW recs, Records(recs)
    PROVE  /\ Records(NoneFound(recs)) /\ DOMAIN NoneFound(recs) = DOMAIN recs
           /\ \A p \in DOMAIN recs : NoneFound(recs)[p].done <=> recs[p].done
  <1> DEFINE new == NoneFound(recs)
  <1>1. new = [p \in DOMAIN recs |-> [recs[p] EXCEPT !.found = FALSE]]
    BY DEF NoneFound
  <1> HIDE DEF new
  <1>2. ASSUME NEW p \in DOMAIN recs
        PROVE  new[p] \in Known /\ (new[p].done <=> recs[p].done)
    <2>1. recs[p] \in Known /\ new[p] = [recs[p] EXCEPT !.found = FALSE]
      BY <1>1 DEF Records
    <2> QED BY <2>1 DEF Known
  <1> QED BY <1>1, <1>2 DEF Records, new

LEMMA ListenersStart == ASSUME ListenInit PROVE ListenInv
  <1>1. ListenTypeOK
    <2>1. Records(irecs) /\ DOMAIN bound = {}
      BY DEF ListenInit, Records
    <2>2. ifAddrs \subseteq IfAddrs
      BY DEF ListenInit
    <2>3. addrs \in [Spots -> {"none", "tentative", "up"}] /\ fixed \in [Locals -> 0 .. 2]
      BY DEF ListenInit
    <2>4. /\ announced \in BOOLEAN /\ listed \in BOOLEAN
          /\ \A a \in DOMAIN bound : bound[a] \in [iface : Spots, used : Nat]
      BY <2>1, Zenon DEF ListenInit
    <2> QED BY <2>1, <2>2, <2>3, <2>4, Types DEF Typed, ListenInit
  <1>2. DOMAIN irecs = {} /\ DOMAIN bound = {} /\ ready = {}
    BY DEF ListenInit
  <1> QED BY <1>1, <1>2 DEF ListenInv, ListenersRight, OwnersThere, DoneIsBound, EventThere

LEMMA OverheardKeeps ==
    ASSUME newAddrs \in Nat, Overheard
    PROVE  newAddrs' \in Nat /\ newAddrs' >= newAddrs /\ announced' \in BOOLEAN
  <1>1. newAddrs' = newAddrs + 1 \/ newAddrs' = newAddrs
    BY Zenon DEF Overheard
  <1>2. announced' = FALSE
    BY Zenon DEF Overheard
  <1>3. announced' \in BOOLEAN
    BY <1>2, Zenon
  <1> QED BY <1>1, <1>3, SMT

LEMMA ListenersStep == ASSUME ListenInv, [ListenNext]_listenVars PROVE ListenInv'
  <1> USE DEF settings, sockets, outside, known
  <1>0. ListenersRight /\ ListenTypeOK /\ EventThere /\ Records(irecs)
    BY Types DEF Typed, ListenInv, ListenersRight
  <1>1. CASE EnumSix \/ EnumFour
    <2>1. PICK rep \in SUBSET Spots : irecs' = IfaceAllowed(rep)
      BY <1>1 DEF EnumSix, EnumFour, Reported
    <2>2. /\ Records(irecs')
          /\ \A p \in DOMAIN irecs : p \in DOMAIN irecs' /\ irecs'[p].done = irecs[p].done
          /\ \A p \in DOMAIN irecs' : irecs'[p].done => p \in DOMAIN irecs
      BY <2>1, <1>0, AllowedKeeps DEF Records
    <2>3. newAddrs' \in Nat /\ newAddrs' >= newAddrs /\ announced' \in BOOLEAN
      BY <1>0, <1>1, OverheardKeeps, Types DEF Typed, EnumSix, EnumFour
    <2>4. stage' \in {"four", "collect", "bind", "poll"} /\ stage \in {"six", "four"}
          /\ (stage' = "poll" => resume = "serve") /\ UNCHANGED <<resume, ready>>
      BY <1>1 DEF EnumSix, EnumFour, AfterEnum
    <2>5. UNCHANGED <<binding, ifAddrs, addrs, bound, fixed, groups, resume, listed, ready>>
      BY <1>1 DEF EnumSix, EnumFour
    <2>6. ListenTypeOK'
      BY <1>0, <2>2, <2>3, <2>4, <2>5, Types, TypesNext DEF Typed
    <2>7. ListenersRight'
      BY <1>0, <2>2, <2>5, <2>6, SameUsers
    <2>8. EventThere'
      BY <1>0, <2>3, <2>4, Types DEF EventThere, Typed
    <2> QED BY <2>7, <2>8 DEF ListenInv
  <1>2. CASE EnumAgain
    <2>1. PICK rep \in SUBSET Spots : irecs' = NoneFound(IfaceAllowed(rep))
      BY <1>2 DEF EnumAgain, Reported
    <2> DEFINE recs == IfaceAllowed(rep)
    <2>2. /\ Records(recs)
          /\ \A p \in DOMAIN irecs : p \in DOMAIN recs /\ recs[p].done = irecs[p].done
          /\ \A p \in DOMAIN recs : recs[p].done => p \in DOMAIN irecs
      BY <2>1, <1>0, AllowedKeeps DEF Records
    <2> HIDE DEF recs
    <2>3. /\ Records(irecs')
          /\ \A p \in DOMAIN irecs : irecs[p].done => p \in DOMAIN irecs' /\ irecs'[p].done
          /\ \A p \in DOMAIN irecs' : irecs'[p].done => p \in DOMAIN irecs /\ irecs[p].done
      <3>1. irecs' = NoneFound(recs)
        BY <2>1 DEF recs
      <3> QED BY <3>1, <2>2, NoneKeeps
    <2>4. newAddrs' \in Nat /\ newAddrs' >= newAddrs /\ announced' \in BOOLEAN
      BY <1>0, <1>2, OverheardKeeps, Types DEF Typed, EnumAgain
    <2>5. /\ stage' = "six" /\ stage \in {"six", "four"}
          /\ UNCHANGED <<binding, ifAddrs, addrs, bound, fixed, groups, resume, listed, ready>>
      BY <1>2 DEF EnumAgain
    <2>6. ListenTypeOK'
      BY <1>0, <2>3, <2>4, <2>5, Types, TypesNext DEF Typed
    <2>7. ListenersRight'
      BY <1>0, <2>3, <2>5, <2>6, SameUsers
    <2>8. EventThere'
      BY <1>0, <2>4, <2>5, Types DEF EventThere, Typed
    <2> QED BY <2>7, <2>8 DEF ListenInv
  <1>3. CASE Collect
    <2>1. /\ stage = "collect" /\ stage' \in {"bind", "poll"} /\ (stage' = "poll" => resume = "serve")
          /\ UNCHANGED <<binding, ifAddrs, addrs, announced, fixed, groups, newAddrs, resume,
                         listed, ready>>
      BY <1>3 DEF Collect, AfterEnum
    <2>2. /\ Records(irecs') /\ DOMAIN bound' \subseteq Locals
          /\ \A a \in DOMAIN bound' : bound'[a] \in [iface : Spots, used : Nat]
          /\ OwnersThere' /\ DoneIsBound'
      BY <1>0, <1>3, CollectKeeps
    <2>3. ListenTypeOK'
      BY <1>0, <2>1, <2>2, Types, TypesNext DEF Typed
    <2>4. EventThere'
      BY <1>0, <2>1 DEF EventThere
    <2> QED BY <2>2, <2>3, <2>4 DEF ListenInv, ListenersRight
  <1>4. CASE BindStart \/ BindDad \/ BindEvent
    <2>1. /\ stage = "bind" /\ stage' \in {"poll", "dead", "netlink", "serve"}
          /\ (stage' = "netlink" => resume = "dad")
          /\ UNCHANGED <<binding, ifAddrs, addrs, announced, newAddrs, resume, listed, ready>>
      BY <1>4 DEF BindStart, BindDad, BindEvent
    <2>2. EventThere'
      BY <1>0, <2>1 DEF EventThere
    <2>3. CASE \/ CreateBoundListeners /\ JoinMulticast(Done(irecs))
               \/ CreateBoundListeners /\ irecs' = Done(irecs) /\ UNCHANGED groups
      <3>1. /\ Records(irecs') /\ groups' \subseteq {p[1] : p \in Spots}
            /\ DOMAIN irecs' = DOMAIN irecs
            /\ \A p \in DOMAIN irecs : irecs'[p].done <=> irecs[p].done \/ p \in NowDone
        BY <1>0, <2>3, DoneKeeps, JoinKeeps, Types DEF Typed
      <3>2. /\ DOMAIN bound' \subseteq Locals
            /\ \A a \in DOMAIN bound' : bound'[a] \in [iface : Spots, used : Nat]
            /\ fixed' \in [Locals -> 0 .. 2]
            /\ OwnersThere' /\ DoneIsBound'
        BY <1>0, <2>3, <3>1, CreateKeeps
      <3>3. ListenTypeOK'
        BY <1>0, <2>1, <3>1, <3>2, Types, TypesNext DEF Typed
      <3> QED BY <2>2, <3>2, <3>3 DEF ListenInv, ListenersRight
    <2>4. CASE JoinMulticast(irecs) /\ UNCHANGED <<bound, fixed>>
      <3>1. /\ Records(irecs') /\ groups' \subseteq {p[1] : p \in Spots}
            /\ DOMAIN irecs' = DOMAIN irecs
            /\ \A p \in DOMAIN irecs : irecs'[p].done <=> irecs[p].done
        BY <1>0, <2>4, JoinKeeps, Types DEF Typed
      <3>2. ListenTypeOK'
        BY <1>0, <2>1, <2>4, <3>1, Types, TypesNext DEF Typed
      <3>3. ListenersRight'
        BY <1>0, <2>4, <3>1, <3>2, SameUsers
      <3> QED BY <2>2, <3>3 DEF ListenInv
    <2> QED
      BY <1>4, <2>3, <2>4 DEF BindStart, BindDad, BindEvent, CreateWildcardListeners
  <1>5. CASE Poll \/ CheckDad \/ NetlinkMulticast \/ AddressNews \/ Serve
    <2>1. /\ UNCHANGED <<binding, ifAddrs, addrs, bound, fixed, groups>>
          /\ irecs' = irecs \/ irecs' = NoneFound(irecs)
      BY <1>5 DEF Poll, CheckDad, NetlinkMulticast, AddressNews, Serve, Enumerate
    <2>2. /\ Records(irecs') /\ DOMAIN irecs' = DOMAIN irecs
          /\ \A p \in DOMAIN irecs : irecs'[p].done <=> irecs[p].done
      BY <1>0, <2>1, NoneKeeps
    <2>0. announced \in BOOLEAN /\ newAddrs \in Nat /\ listed \in BOOLEAN
          /\ ready \subseteq {"netlink", "pipe"} /\ resume \in {"start", "dad", "event", "serve"}
      BY <1>0, Types DEF Typed
    <2>3. newAddrs' \in Nat /\ announced' \in BOOLEAN /\ (~AddressNews => newAddrs' >= newAddrs)
      <3>1. CASE AddressNews
        <4>1. announced' = announced /\ stage = "pipe"
          BY <3>1 DEF AddressNews
        <4>2. CASE "pipe" \in ready
          <5>1. newAddrs' = newAddrs - 1 /\ newAddrs > 0
            BY <3>1, <4>1, <4>2, <1>0, Zenon DEF AddressNews, EventThere
          <5> QED BY <5>1, <4>1, <3>1, <2>0
        <4>3. CASE "pipe" \notin ready
          BY <4>1, <4>3, <3>1, <2>0 DEF AddressNews
        <4> QED BY <4>2, <4>3
      <3>2. CASE NetlinkMulticast
        BY <3>2, <2>0, OverheardKeeps DEF NetlinkMulticast
      <3>3. CASE Poll \/ CheckDad \/ Serve
        BY <3>3, <2>0 DEF Poll, CheckDad, Serve
      <3> QED BY <1>5, <3>1, <3>2, <3>3
    <2>4. listed' \in BOOLEAN /\ ready' \subseteq {"netlink", "pipe"}
      <3>1. CASE Poll
        BY <3>1 DEF Poll
      <3>2. CASE CheckDad \/ NetlinkMulticast \/ AddressNews \/ Serve
        <4>1. ready' = ready
          BY <3>2 DEF CheckDad, NetlinkMulticast, AddressNews, Serve
        <4>2. listed' = listed \/ listed' = TRUE
          BY <3>2, Zenon DEF CheckDad, NetlinkMulticast, AddressNews, Serve, Enumerate
        <4> QED BY <4>1, <4>2, <2>0
      <3> QED BY <1>5, <3>1, <3>2
    <2>5. /\ stage' \in {"six", "bind", "poll", "dad", "netlink", "pipe", "serve"}
          /\ resume' \in {"start", "dad", "event", "serve"}
      BY <1>5, <2>0, Zenon DEF Poll, CheckDad, NetlinkMulticast, AddressNews, Serve, Enumerate
    <2>6. ListenTypeOK'
      BY <1>0, <2>1, <2>2, <2>3, <2>4, <2>5, Types, TypesNext DEF Typed
    <2>7. ListenersRight'
      BY <1>0, <2>1, <2>2, <2>6, SameUsers
    <2>8. EventThere'
      <3>1. CASE Poll
        <4>1. "pipe" \in ready' => newAddrs > 0
          BY <3>1 DEF Poll
        <4>2. newAddrs' = newAddrs
          BY <3>1 DEF Poll
        <4> QED BY <4>1, <4>2 DEF EventThere
      <3>2. CASE CheckDad
        <4>1. /\ stage = "dad" /\ UNCHANGED <<newAddrs, ready>>
          BY <3>2 DEF CheckDad
        <4> QED BY <4>1, <1>0 DEF EventThere
      <3>3. CASE NetlinkMulticast
        <4>1. stage = "netlink" /\ ready' = ready
          BY <3>3 DEF NetlinkMulticast
        <4>2. newAddrs' >= newAddrs /\ newAddrs' \in Nat
          BY <3>3, <2>0, OverheardKeeps DEF NetlinkMulticast
        <4> QED BY <4>1, <4>2, <1>0, <2>0 DEF EventThere
      <3>4. CASE AddressNews \/ Serve
        <4>1. \/ stage' \in {"serve", "poll"}
              \/ /\ stage' \in {"six", "bind"}
                 /\ resume' \in {"event", "serve"}
          BY <3>4, Zenon DEF AddressNews, Serve, Enumerate
        <4> QED BY <4>1 DEF EventThere
      <3> QED BY <1>5, <3>1, <3>2, <3>3, <3>4
    <2> QED BY <2>7, <2>8 DEF ListenInv
  <1>6. CASE Shift
    <2>1. addrs' \in [Spots -> {"none", "tentative", "up"}]
      BY <1>0, <1>6, Types DEF Typed, Shift, Moves
    <2>2. UNCHANGED <<binding, ifAddrs, irecs, names, used, bound, fixed, groups, newAddrs, stage,
                      resume, listed, ready>>
      BY <1>6 DEF Shift
    <2>3. announced' \in BOOLEAN
      BY <1>6, Zenon DEF Shift
    <2>4. ListenTypeOK'
      BY <1>0, <2>1, <2>2, <2>3, Types, TypesNext DEF Typed
    <2>5. ListenersRight'
      BY <1>0, <2>2, <2>4, SameUsers
    <2>6. EventThere'
      BY <1>0, <2>2 DEF EventThere
    <2> QED BY <2>5, <2>6 DEF ListenInv
  <1>7. CASE UNCHANGED listenVars
    <2>1. UNCHANGED <<binding, ifAddrs, addrs, announced, irecs, names, used, bound, fixed, groups,
                      newAddrs, stage, resume, listed, ready>>
      BY <1>7 DEF listenVars
    <2>2. ListenTypeOK'
      BY <1>0, <2>1, Types, TypesNext DEF Typed
    <2>3. ListenersRight'
      BY <1>0, <2>1, <2>2, SameUsers
    <2>4. EventThere'
      BY <1>0, <2>1 DEF EventThere
    <2> QED BY <2>3, <2>4 DEF ListenInv
  <1> QED BY <1>1, <1>2, <1>3, <1>4, <1>5, <1>6, <1>7 DEF ListenNext, MainLoop

\* The list of interfaces and the listeners agree (ListenersRight): any number
\* of interfaces and shared addresses, any names and addresses configured, any
\* changes between any two steps of an enumeration.
THEOREM ListenersCorrect == ListenSpec => []ListenersRight
  <1>1. ListenInv => ListenersRight
    BY DEF ListenInv
  <1> QED BY <1>1, ListenersStart, ListenersStep, PTL DEF ListenSpec
=============================================================================
