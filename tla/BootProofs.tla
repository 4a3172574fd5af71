----------------------------- MODULE BootProofs -----------------------------
(***************************************************************************)
(* What is proved of DhcpServer: whatever happens to the server, its lease *)
(* file, the network and the machines, no two machines use one address,    *)
(* and what a machine uses the server knows, unless a crash came when the  *)
(* file was not up to date.                                                *)
(*                                                                         *)
(* A list of leases is looked at as the set of its entries; the lemmas     *)
(* about Only say that leaving entries out of the list leaves them out of  *)
(* the set.  They need induction, which is had from the least element of a *)
(* set of numbers.                                                         *)
(***************************************************************************)
EXTENDS DhcpServer, WellFoundedInduction, FiniteSetTheorems, TLAPS

-----------------------------------------------------------------------------
(* The inductive invariant.                                                *)

\* Entries of the lease list and of the file.
ClidsOf(m) == Clids[m] \cup {NoClid}
Lease ==
    {l \in [addr : Nat \ {0}, mac : Machines, clid : UNION {ClidsOf(m) : m \in Machines},
            left : 0 .. Forever] : l.clid \in ClidsOf(l.mac)}

States == {"init", "selecting", "requesting", "bound", "renewing"}
ClientsOf(m) ==
    [st : States, addr : Nat, clid : Clids[m], left : 0 .. Forever, grant : 0 .. Forever,
     asleep : BOOLEAN, paused : BOOLEAN]

Messages(m) ==
    [op : {"DISCOVER", "DECLINE", "RELEASE"}, addr : Nat, clid : Clids[m]]
      \cup [op : {"REQUEST"}, kind : {"selecting", "reboot", "renew"}, addr : Nat,
            clid : Clids[m], ours : BOOLEAN, unicast : BOOLEAN]
      \cup [op : {"BOOTP", "none"}]

Replies == [op : {"OFFER", "ACK", "BOOTREPLY"}, addr : Nat] \cup [op : {"NAK", "none"}]

DhcpTypes ==
    /\ leases \in Seq(Lease) /\ file \in Seq(Lease)
    /\ {dirty, up, full, lost} \subseteq BOOLEAN
    /\ epoch \in Nat
    /\ reserved \in {Hosts, [m \in Machines |-> 0]}
    /\ machine \in [Machines -> UNION {ClientsOf(m) : m \in Machines}]
    /\ \A m \in Machines : machine[m] \in ClientsOf(m)
    /\ req \in [Machines -> UNION {Messages(m) : m \in Machines}]
    /\ \A m \in Machines : req[m] \in Messages(m)
    /\ rep \in [Machines -> Replies]

\* While a message is under way its machine waits for the answer, has had it,
\* or has begun anew.
Asked(m) ==
    /\ req[m].op = "DISCOVER" => machine[m].st \in {"init", "selecting"}
    /\ req[m].op \in {"DECLINE", "RELEASE"} => machine[m].st = "init"
    /\ req[m].op = "REQUEST" =>
          \/ machine[m].st = "init"
          \/ /\ machine[m].st \in {"requesting", "bound", "renewing"}
             /\ machine[m].addr = req[m].addr
             /\ machine[m].grant <= LeaseTime
             /\ machine[m].st # "requesting" => machine[m].left <= LeaseTime
    /\ req[m].op = "BOOTP" =>
          /\ reserved = Hosts
          /\ \/ machine[m].st = "init"
             \/ machine[m].st \in {"requesting", "bound"} /\ machine[m].addr = Hosts[m]

\* The leases ls give m address a for the time t at least.
Leased(ls, m, a, t) == \E l \in ToSet(ls) : l.addr = a /\ l.mac = m /\ l.left >= t

OneEach(ls) == \A k, l \in ToSet(ls) : k.addr = l.addr => k = l

\* What a machine has been granted, by the leases ls.
Kept(ls, m) ==
    /\ machine[m].st \in {"bound", "renewing"} =>
          machine[m].left > 0 /\ Leased(ls, m, machine[m].addr, machine[m].left)
    /\ /\ rep[m].op \in {"ACK", "BOOTREPLY"}
       /\ machine[m].st \in {"requesting", "renewing"}
       /\ machine[m].grant > 0
       => Leased(ls, m, machine[m].addr, machine[m].grant)

Synced == up /\ ~dirty => ToSet(file) = ToSet(leases)

Faithful ==
    /\ Synced
    /\ OneEach(Known)
    /\ \A m \in Machines : Kept(Known, m)

DhcpInv == DhcpTypes /\ (\A m \in Machines : Asked(m)) /\ (lost \/ Faithful)

-----------------------------------------------------------------------------
(* Numbers and lists.                                                      *)

\* Every set of numbers that is not empty has a least one.
LEMMA LeastNat ==
  ASSUME NEW T \in SUBSET Nat, T # {}
  PROVE  \E n \in T : \A k \in T : n <= k
<1> DEFINE R == {ss \in Nat \X Nat : ss[1] < ss[2]}
<1>1. IsWellFoundedOn(R, Nat)
  BY NatLessThanWellFounded, Zenon DEF OpToRel
<1>2. \E n \in T : \A k \in T : ~ (<<k, n>> \in R)
  <2> HIDE DEF R
  <2> QED BY <1>1, WFMin
<1>3. \A k, n \in Nat : <<k, n>> \in R <=> k < n
  OBVIOUS
<1> HIDE DEF R
<1>4. PICK n \in T : \A k \in T : ~ (<<k, n>> \in R)
  BY <1>2
<1>5. ASSUME NEW k \in T PROVE n <= k
  <2>1. ~ (k < n) /\ k \in Nat /\ n \in Nat
    BY <1>3, <1>4, Zenon
  <2> QED
    BY <2>1
<1> QED
  BY <1>5

\* Induction, for a set of numbers.
LEMMA AllNats ==
  ASSUME NEW T, 0 \in T, \A n \in Nat : n \in T => n + 1 \in T
  PROVE  Nat \subseteq T
<1> SUFFICES ASSUME Nat \ T # {} PROVE FALSE
  OBVIOUS
<1>1. PICK n \in Nat \ T : \A k \in Nat \ T : n <= k
  BY LeastNat
<1>2. n - 1 \in Nat /\ ~ (n <= n - 1)
  BY <1>1
<1> QED
  BY <1>1, <1>2

\* Min of a set of numbers is in it.
LEMMA MinIn ==
  ASSUME NEW T \in SUBSET Nat, T # {}
  PROVE  Min(T) \in T /\ \A k \in T : Min(T) <= k
BY LeastNat DEF Min

\* There is a function as Only wants it.
LEMMA KeptDefined ==
  ASSUME NEW D, NEW ls \in Seq(D), NEW S
  PROVE  \E kept : kept = [i \in 0 .. Len(ls) |->
                IF i = 0 THEN <<>>
                ELSE IF ls[i] \in S THEN Append(kept[i - 1], ls[i]) ELSE kept[i - 1]]
<1> DEFINE Turn(f, i) == IF i = 0 THEN <<>>
                         ELSE IF ls[i] \in S THEN Append(f[i - 1], ls[i]) ELSE f[i - 1]
           T == {n \in Nat : \E f : f = [i \in 0 .. n |-> Turn(f, i)]}
<1>1. 0 \in T
  <2> DEFINE f == [i \in 0 .. 0 |-> <<>>]
  <2>1. f = [i \in 0 .. 0 |-> Turn(f, i)]
    OBVIOUS
  <2> QED
    BY <2>1
<1>2. ASSUME NEW n \in Nat, n \in T PROVE n + 1 \in T
  <2>1. PICK f : f = [i \in 0 .. n |-> Turn(f, i)]
    BY <1>2
  <2> DEFINE g == [i \in 0 .. n + 1 |-> IF i = n + 1 THEN Turn(f, n + 1) ELSE f[i]]
  <2>2. ASSUME NEW i \in 0 .. n + 1 PROVE g[i] = Turn(g, i)
    <3>1. CASE i = 0
      BY <2>1, <3>1
    <3>2. CASE i \in 1 .. n
      <4>1. i - 1 \in 0 .. n /\ i \in 0 .. n /\ i # n + 1 /\ i - 1 # n + 1
        BY <3>2
      <4>2. g[i] = f[i] /\ g[i - 1] = f[i - 1]
        BY <4>1
      <4>3. f[i] = Turn(f, i)
        <5> HIDE DEF Turn
        <5> QED BY <2>1, <4>1
      <4> QED
        BY <4>2, <4>3
    <3>3. CASE i = n + 1
      <4>1. g[n] = f[n] /\ i - 1 = n
        BY <3>3
      <4> QED
        BY <3>3, <4>1
    <3> QED
      BY <3>1, <3>2, <3>3
  <2>3. g = [i \in 0 .. n + 1 |-> Turn(g, i)]
    BY <2>2
  <2>4. \E h : h = [i \in 0 .. n + 1 |-> Turn(h, i)]
    BY <2>3, Zenon
  <2> QED
    BY <2>4
<1>3. Len(ls) \in T
  <2> HIDE DEF T
  <2> QED
    BY <1>1, <1>2, AllNats
<1> QED
  BY <1>3

\* What is appended is one element more.
LEMMA AppendSet ==
  ASSUME NEW D, NEW ls \in Seq(D), NEW x \in D
  PROVE  Append(ls, x) \in Seq(D) /\ ToSet(Append(ls, x)) = ToSet(ls) \cup {x}
<1>1. /\ Append(ls, x) \in Seq(D) /\ Len(Append(ls, x)) = Len(ls) + 1
      /\ DOMAIN Append(ls, x) = 1 .. Len(ls) + 1 /\ DOMAIN ls = 1 .. Len(ls)
      /\ \A i \in 1 .. Len(ls) : Append(ls, x)[i] = ls[i]
      /\ Append(ls, x)[Len(ls) + 1] = x
  OBVIOUS
<1> QED
  BY <1>1 DEF ToSet

\* Only leaves of a list the entries that are in S.
LEMMA OnlySet ==
  ASSUME NEW D, NEW ls \in Seq(D), NEW S
  PROVE  Only(ls, S) \in Seq(D) /\ ToSet(Only(ls, S)) = ToSet(ls) \cap S
<1> DEFINE kept[i \in 0 .. Len(ls)] ==
               IF i = 0 THEN <<>>
               ELSE IF ls[i] \in S THEN Append(kept[i - 1], ls[i]) ELSE kept[i - 1]
           Upto(n) == {ls[i] : i \in 1 .. n} \cap S
           T == {n \in Nat : n <= Len(ls) => /\ kept[n] \in Seq(D)
                                             /\ ToSet(kept[n]) = Upto(n)}
<1>1. kept = [i \in 0 .. Len(ls) |->
                IF i = 0 THEN <<>>
                ELSE IF ls[i] \in S THEN Append(kept[i - 1], ls[i]) ELSE kept[i - 1]]
  <2>1. \E f : f = [i \in 0 .. Len(ls) |->
                IF i = 0 THEN <<>>
                ELSE IF ls[i] \in S THEN Append(f[i - 1], ls[i]) ELSE f[i - 1]]
    BY KeptDefined, ZenonT(60)
  <2> QED
    BY <2>1, Zenon
<1>2. Only(ls, S) = kept[Len(ls)]
  BY Zenon DEF Only
<1>3. Len(ls) \in Nat /\ DOMAIN ls = 1 .. Len(ls) /\ \A i \in 1 .. Len(ls) : ls[i] \in D
  OBVIOUS
<1> HIDE DEF kept
<1>4. 0 \in T
  <2>1. kept[0] = <<>>
    BY <1>1, <1>3
  <2>2. Upto(0) = {} /\ ToSet(<<>>) = {} /\ <<>> \in Seq(D)
    BY DEF ToSet
  <2> QED
    BY <2>1, <2>2
<1>5. ASSUME NEW n \in Nat, n \in T PROVE n + 1 \in T
  <2>1. SUFFICES ASSUME n + 1 <= Len(ls)
                 PROVE  kept[n + 1] \in Seq(D) /\ ToSet(kept[n + 1]) = Upto(n + 1)
    BY <1>3
  <2>2. n + 1 \in 0 .. Len(ls) /\ n + 1 # 0 /\ n + 1 - 1 = n /\ n + 1 \in 1 .. Len(ls)
    BY <2>1, <1>3
  <2>3. kept[n + 1] = IF ls[n + 1] \in S THEN Append(kept[n], ls[n + 1]) ELSE kept[n]
    <3> DEFINE k == n + 1
    <3>1. k \in 0 .. Len(ls) /\ k # 0 /\ k - 1 = n
      BY <2>2
    <3> HIDE DEF k
    <3>2. kept[k] = IF k = 0 THEN <<>>
                    ELSE IF ls[k] \in S THEN Append(kept[k - 1], ls[k]) ELSE kept[k - 1]
      BY <1>1, <3>1
    <3>3. kept[k] = IF ls[k] \in S THEN Append(kept[n], ls[k]) ELSE kept[n]
      BY <3>1, <3>2
    <3> QED
      BY <3>3 DEF k
  <2>4. kept[n] \in Seq(D) /\ ToSet(kept[n]) = Upto(n)
    BY <1>5, <2>1, <1>3
  <2>5. Upto(n + 1) = IF ls[n + 1] \in S THEN Upto(n) \cup {ls[n + 1]} ELSE Upto(n)
    <3>1. 1 .. n + 1 = (1 .. n) \cup {n + 1}
      OBVIOUS
    <3> QED
      BY <3>1
  <2>6. ls[n + 1] \in D
    BY <1>3, <2>2
  <2> QED
    BY <2>3, <2>4, <2>5, <2>6, AppendSet
<1>6. Len(ls) \in T
  <2> HIDE DEF T
  <2> QED
    BY <1>3, <1>4, <1>5, AllNats
<1>7. kept[Len(ls)] \in Seq(D) /\ ToSet(kept[Len(ls)]) = Upto(Len(ls))
  BY <1>6, <1>3
<1>8. Upto(Len(ls)) = ToSet(ls) \cap S
  BY <1>3 DEF ToSet
<1> QED
  BY <1>2, <1>7, <1>8

\* What is left of a list in the cases the server has.
LEMMA ListFacts ==
  ASSUME NEW D, NEW ls \in Seq(D)
  PROVE  /\ Pruned(ls) \in Seq(D)
         /\ ToSet(Pruned(ls)) = {l \in ToSet(ls) : l.left # 0}
         /\ \A l : Without(ls, l) \in Seq(D) /\ ToSet(Without(ls, l)) = ToSet(ls) \ {l}
         /\ Reverse(ls) \in Seq(D) /\ ToSet(Reverse(ls)) = ToSet(ls)
         /\ ToSet(ls) \subseteq D
<1>1. \A S : Only(ls, S) \in Seq(D) /\ ToSet(Only(ls, S)) = ToSet(ls) \cap S
  BY OnlySet
<1>2. Pruned(ls) \in Seq(D) /\ ToSet(Pruned(ls)) = {l \in ToSet(ls) : l.left # 0}
  BY <1>1 DEF Pruned
<1>3. \A l : Without(ls, l) \in Seq(D) /\ ToSet(Without(ls, l)) = ToSet(ls) \ {l}
  BY <1>1 DEF Without
<1>4. /\ Len(ls) \in Nat /\ DOMAIN ls = 1 .. Len(ls)
      /\ \A i \in 1 .. Len(ls) : ls[i] \in D /\ Len(ls) - i + 1 \in 1 .. Len(ls)
  OBVIOUS
<1>5. Reverse(ls) \in Seq(D) /\ DOMAIN Reverse(ls) = 1 .. Len(ls)
  BY <1>4 DEF Reverse
<1>6. ToSet(Reverse(ls)) = ToSet(ls)
  <2>1. \A i \in 1 .. Len(ls) : Reverse(ls)[i] = ls[Len(ls) - i + 1]
    BY <1>4 DEF Reverse
  <2>2. ASSUME NEW i \in 1 .. Len(ls) PROVE ls[i] = Reverse(ls)[Len(ls) - i + 1]
    <3>1. Len(ls) - (Len(ls) - i + 1) + 1 = i
      BY <1>4
    <3> QED
      BY <1>4, <2>1, <3>1
  <2> QED
    BY <1>4, <1>5, <2>1, <2>2 DEF ToSet
<1>7. ToSet(ls) \subseteq D
  BY <1>4 DEF ToSet
<1> QED
  BY <1>2, <1>3, <1>5, <1>6, <1>7

-----------------------------------------------------------------------------
(* What is found in the list, and what a grant makes of it.                *)

\* No entry of a list is the one that stands for none.
LEMMA EntryTypes ==
  ASSUME NEW ls \in Seq(Lease), NEW l \in ToSet(ls)
  PROVE  /\ l \in Lease /\ l # NoLease
         /\ l.addr \in Nat \ {0} /\ l.mac \in Machines /\ l.clid \in ClidsOf(l.mac)
         /\ l.left \in 0 .. Forever
<1>1. l \in Lease
  BY ListFacts
<1>2. /\ l.addr \in Nat \ {0} /\ l.mac \in Machines /\ l.clid \in ClidsOf(l.mac)
      /\ l.left \in 0 .. Forever
  BY <1>1 DEF Lease
<1>3. l # NoLease
  BY <1>2 DEF NoLease
<1> QED
  BY <1>1, <1>2, <1>3

\* lease_find_by_addr.
LEMMA FoundByAddr ==
  ASSUME NEW ls \in Seq(Lease), NEW a
  PROVE  \/ FindByAddr(ls, a) = NoLease /\ \A l \in ToSet(ls) : l.addr # a
         \/ FindByAddr(ls, a) \in ToSet(ls) /\ FindByAddr(ls, a).addr = a
<1> DEFINE hits == {i \in DOMAIN ls : ls[i].addr = a}
<1>1. FindByAddr(ls, a) = IF hits = {} THEN NoLease ELSE ls[Min(hits)]
  BY DEF FindByAddr, FirstOf
<1>2. hits \in SUBSET Nat
  OBVIOUS
<1>3. CASE hits = {}
  <2>1. \A l \in ToSet(ls) : l.addr # a
    BY <1>3 DEF ToSet
  <2> QED
    BY <1>1, <1>3, <2>1
<1>4. CASE hits # {}
  <2>1. Min(hits) \in hits
    <3> HIDE DEF hits
    <3> QED BY <1>2, <1>4, MinIn
  <2> QED
    BY <1>1, <1>4, <2>1 DEF ToSet
<1> QED
  BY <1>3, <1>4

\* lease_find_by_client: what is found is the client's, for no other machine
\* uses its identifiers.
LEMMA FoundByClient ==
  ASSUME NEW ls \in Seq(Lease), NEW m \in Machines, NEW clid \in Clids[m]
  PROVE  \/ FindByClient(ls, m, clid) = NoLease
         \/ FindByClient(ls, m, clid) \in ToSet(ls) /\ FindByClient(ls, m, clid).mac = m
<1> DEFINE Same == {i \in DOMAIN ls : ls[i].clid = clid}
           Mac  == {i \in DOMAIN ls : /\ ls[i].mac = m
                                      /\ ls[i].clid = NoClid \/ clid = NoClid}
           same == IF Same = {} THEN NoLease ELSE ls[Min(Same)]
           mac  == IF Mac = {} THEN NoLease ELSE ls[Min(Mac)]
<1>1. FindByClient(ls, m, clid) = IF clid # NoClid /\ same # NoLease THEN same ELSE mac
  BY DEF FindByClient, FirstOf
<1>2. Same \in SUBSET Nat /\ Mac \in SUBSET Nat
  OBVIOUS
<1>3. Same # {} => Min(Same) \in Same
  <2> HIDE DEF Same
  <2> QED BY <1>2, MinIn
<1>4. Mac # {} => Min(Mac) \in Mac
  <2> HIDE DEF Mac
  <2> QED BY <1>2, MinIn
<1>5. mac = NoLease \/ (mac \in ToSet(ls) /\ mac.mac = m)
  BY <1>4 DEF ToSet
<1>6. same = NoLease \/ (same \in ToSet(ls) /\ same.clid = clid)
  BY <1>3 DEF ToSet
<1>7. ASSUME clid # NoClid, same # NoLease PROVE same.mac = m
  <2>1. same \in ToSet(ls) /\ same.clid = clid
    BY <1>6, <1>7
  <2>2. same.mac \in Machines /\ same.clid \in ClidsOf(same.mac)
    <3> HIDE DEF same
    <3> QED BY <2>1, EntryTypes
  <2>3. clid \in Clids[same.mac]
    BY <2>1, <2>2, <1>7 DEF ClidsOf
  <2>4. same.mac # m => Clids[same.mac] \cap Clids[m] \subseteq {NoClid}
    BY <2>2, DhcpAssumption
  <2> QED
    BY <2>3, <2>4, <1>7
<1> HIDE DEF same, mac
<1> QED
  BY <1>1, <1>5, <1>6, <1>7

\* lease_set_hwaddr and lease_set_expires put one entry in the place of another,
\* or in front of all.
LEMMA GrantedSet ==
  ASSUME NEW ls \in Seq(Lease), NEW m \in Machines, NEW clid \in ClidsOf(m),
         NEW a \in Nat \ {0}, NEW t \in 0 .. Forever, NEW l,
         l = NoLease \/ (l \in ToSet(ls) /\ l.mac = m)
  PROVE  /\ Granted(ls, l, a, m, clid, t) \in Seq(Lease)
         /\ \E new \in Lease :
               /\ new.addr = a /\ new.mac = m /\ new.left = t
               /\ ToSet(Granted(ls, l, a, m, clid, t)) = (ToSet(ls) \ {l}) \cup {new}
<1> DEFINE new == [addr |-> a, mac |-> m, left |-> t,
                   clid |-> IF clid = NoClid /\ l # NoLease THEN l.clid ELSE clid]
           put == [i \in DOMAIN ls |-> IF ls[i] = l THEN new ELSE ls[i]]
<1>1. Granted(ls, l, a, m, clid, t) = IF l = NoLease THEN <<new>> \o ls ELSE put
  BY DEF Granted
<1>2. new.clid \in ClidsOf(m)
  BY EntryTypes
<1>3. new \in Lease /\ new.addr = a /\ new.mac = m /\ new.left = t
  BY <1>2 DEF Lease
<1>4. \A k \in ToSet(ls) : k \in Lease /\ k # NoLease
  BY EntryTypes
<1>5. Len(ls) \in Nat /\ DOMAIN ls = 1 .. Len(ls) /\ \A i \in 1 .. Len(ls) : ls[i] \in ToSet(ls)
  BY DEF ToSet
<1> HIDE DEF new
<1>6. CASE l = NoLease
  <2>1. /\ <<new>> \o ls \in Seq(Lease) /\ Len(<<new>> \o ls) = Len(ls) + 1
        /\ DOMAIN (<<new>> \o ls) = 1 .. Len(ls) + 1
        /\ (<<new>> \o ls)[1] = new
        /\ \A i \in 1 .. Len(ls) : (<<new>> \o ls)[i + 1] = ls[i]
        /\ \A i \in 2 .. Len(ls) + 1 : (<<new>> \o ls)[i] = ls[i - 1]
    BY <1>3, <1>5
  <2>2. ToSet(<<new>> \o ls) = ToSet(ls) \cup {new}
    <3>1. ASSUME NEW k \in ToSet(<<new>> \o ls) PROVE k \in ToSet(ls) \cup {new}
      <4>1. PICK i \in 1 .. Len(ls) + 1 : k = (<<new>> \o ls)[i]
        BY <2>1 DEF ToSet
      <4>2. i = 1 \/ (i \in 2 .. Len(ls) + 1 /\ i - 1 \in 1 .. Len(ls))
        BY <1>5
      <4> QED
        BY <4>1, <4>2, <2>1, <1>5
    <3>2. ASSUME NEW k \in ToSet(ls) PROVE k \in ToSet(<<new>> \o ls)
      <4>1. PICK i \in 1 .. Len(ls) : k = ls[i]
        BY <1>5 DEF ToSet
      <4>2. i + 1 \in 1 .. Len(ls) + 1 /\ k = (<<new>> \o ls)[i + 1]
        BY <4>1, <2>1, <1>5
      <4> QED
        BY <4>2, <2>1 DEF ToSet
    <3>3. new \in ToSet(<<new>> \o ls)
      <4>1. 1 \in 1 .. Len(ls) + 1
        BY <1>5
      <4> QED
        BY <4>1, <2>1 DEF ToSet
    <3> QED
      BY <3>1, <3>2, <3>3
  <2>3. ToSet(ls) \ {l} = ToSet(ls)
    BY <1>4, <1>6
  <2> QED
    BY <1>1, <1>3, <1>6, <2>1, <2>2, <2>3
<1>7. CASE l # NoLease
  <2>1. PICK j \in 1 .. Len(ls) : ls[j] = l
    BY <1>5, <1>7 DEF ToSet
  <2>2. \A i \in 1 .. Len(ls) : put[i] = IF ls[i] = l THEN new ELSE ls[i]
    BY <1>5
  <2>3. DOMAIN put = 1 .. Len(ls)
    BY <1>5
  <2>4. put \in Seq(Lease)
    BY <1>3, <1>4, <1>5
  <2> HIDE DEF put
  <2>5. ToSet(put) = (ToSet(ls) \ {l}) \cup {new}
    BY <1>5, <2>1, <2>2, <2>3 DEF ToSet
  <2> QED
    BY <1>1, <1>3, <1>7, <2>4, <2>5
<1> QED
  BY <1>6, <1>7

-----------------------------------------------------------------------------
(* What dhcp_reply makes of the leases.                                    *)

\* Other machines keep their leases, one entry to an address.
Spared(ls, new, m) ==
    /\ new \in Seq(Lease)
    /\ OneEach(ls) => OneEach(new)
    /\ \A k \in ToSet(ls) : k.mac # m => k \in ToSet(new)

\* The machine m keeps its lease of the address a or has it anew for the time t,
\* and anew if that is what it is told.
Given(ls, new, m, a, t, answer) ==
    /\ \A k \in ToSet(ls) : k.mac = m /\ k.addr = a =>
          k \in ToSet(new) \/ Leased(new, m, a, t)
    /\ answer.op \in {"ACK", "BOOTREPLY"} => Leased(new, m, a, t)

\* Leases for as long as a grant says are times.
LEMMA TimesAreTimes == LeaseTime \in 0 .. Forever /\ Forever \in 0 .. Forever /\ 1 <= LeaseTime
BY DhcpAssumption DEF Forever

\* A machine's own entry, or a new one, is granted for an address that no other
\* entry has.
LEMMA GrantSpares ==
  ASSUME NEW ls \in Seq(Lease), NEW m \in Machines, NEW clid \in ClidsOf(m),
         NEW a \in Nat \ {0}, NEW t \in 0 .. Forever, NEW l,
         \/ l = NoLease /\ \A k \in ToSet(ls) : k.addr # a
         \/ l \in ToSet(ls) /\ l.mac = m /\ l.addr = a
  PROVE  LET new == Granted(ls, l, a, m, clid, t)
         IN Spared(ls, new, m) /\ Leased(new, m, a, t)
            /\ \A k \in ToSet(ls) : k.addr # a => k \in ToSet(new)
<1> DEFINE made == Granted(ls, l, a, m, clid, t)
<1>1. /\ made \in Seq(Lease)
      /\ \E new \in Lease : /\ new.addr = a /\ new.mac = m /\ new.left = t
                            /\ ToSet(made) = (ToSet(ls) \ {l}) \cup {new}
  BY GrantedSet
<1>2. PICK new \in Lease : /\ new.addr = a /\ new.mac = m /\ new.left = t
                           /\ ToSet(made) = (ToSet(ls) \ {l}) \cup {new}
  BY <1>1
<1>3. \A k \in ToSet(ls) : k # NoLease
  BY EntryTypes
<1> HIDE DEF made
<1>4. ASSUME OneEach(ls), NEW j \in ToSet(made), NEW k \in ToSet(made), j.addr = k.addr
      PROVE  j = k
  BY <1>2, <1>3, <1>4 DEF OneEach
<1>5. OneEach(ls) => OneEach(made)
  BY <1>4 DEF OneEach
<1>6. \A k \in ToSet(ls) : k.mac # m \/ k.addr # a => k \in ToSet(made)
  BY <1>2, <1>3
<1>7. Leased(made, m, a, t)
  <2>1. new \in ToSet(made) /\ new.left >= t
    BY <1>2
  <2> QED
    BY <1>2, <2>1 DEF Leased
<1>8. Spared(ls, made, m) /\ Leased(made, m, a, t)
      /\ \A k \in ToSet(ls) : k.addr # a => k \in ToSet(made)
  BY <1>1, <1>5, <1>6, <1>7 DEF Spared
<1> QED
  BY <1>8 DEF made

\* Leaving out an entry of the machine's own.
LEMMA LeaveSpares ==
  ASSUME NEW ls \in Seq(Lease), NEW m \in Machines, NEW l,
         l = NoLease \/ (l \in ToSet(ls) /\ l.mac = m)
  PROVE  Spared(ls, Without(ls, l), m)
         /\ \A k \in ToSet(ls) : k # l => k \in ToSet(Without(ls, l))
<1>1. Without(ls, l) \in Seq(Lease) /\ ToSet(Without(ls, l)) = ToSet(ls) \ {l}
  BY OnlySet DEF Without
<1>2. \A k \in ToSet(ls) : k # NoLease
  BY EntryTypes
<1> QED
  BY <1>1, <1>2 DEF Spared, OneEach

\* Nothing is changed.
LEMMA NothingSpares ==
  ASSUME NEW ls \in Seq(Lease), NEW m
  PROVE  Spared(ls, ls, m)
BY DEF Spared

\* The part that all kinds of DHCPREQUEST share.
LEMMA CommittedGives ==
  ASSUME NEW ls \in Seq(Lease), NEW m \in Machines, NEW msg, msg.clid \in Clids[m],
         NEW a \in Nat, NEW lease,
         lease = NoLease \/ (lease \in ToSet(ls) /\ lease.mac = m /\ lease.addr = a)
  PROVE  LET r == Committed(ls, m, msg, lease, a)
         IN /\ Spared(ls, r.leases, m)
            /\ Given(ls, r.leases, m, a, LeaseTime, r.answer)
            /\ r.answer \in Replies \ {None} /\ r.epoch = epoch
<1> DEFINE other == FindByAddr(ls, a)
           mine  == IF lease = NoLease /\ other # NoLease /\ reserved[m] # 0
                       /\ other.mac = m
                    THEN other ELSE lease
           ok == [op |-> "ACK", addr |-> a]
           new == Granted(ls, mine, a, m, msg.clid, LeaseTime)
           r == Committed(ls, m, msg, lease, a)
           Fine(x) == /\ Spared(ls, x.leases, m)
                      /\ Given(ls, x.leases, m, a, LeaseTime, x.answer)
                      /\ x.answer \in Replies \ {None} /\ x.epoch = epoch
<1> SUFFICES Fine(r)
  OBVIOUS
<1>1. \/ r = Result(ls, [op |-> "NAK"])
      \/ r = Result(new, ok) /\ a \in Addrs /\ ~InUse(mine, other)
  BY Zenon DEF Committed
<1>2. CASE r = Result(ls, [op |-> "NAK"])
  <2>1. r.leases = ls /\ r.answer = [op |-> "NAK"] /\ r.epoch = epoch
    BY <1>2 DEF Result
  <2>2. [op |-> "NAK"] \in Replies \ {None} /\ [op |-> "NAK"].op = "NAK"
    BY DEF Replies, None
  <2>3. Spared(ls, ls, m) /\ Given(ls, ls, m, a, LeaseTime, [op |-> "NAK"])
    BY NothingSpares, <2>2 DEF Given
  <2> QED
    BY <2>1, <2>2, <2>3
<1>3. CASE r = Result(new, ok) /\ a \in Addrs /\ ~InUse(mine, other)
  <2>1. r.leases = new /\ r.answer = ok /\ r.epoch = epoch
    BY <1>3 DEF Result
  <2>2. a \in Nat \ {0}
    BY <1>3, DhcpAssumption DEF Addrs, Pool, Reservable
  <2>3. ok \in Replies \ {None}
    BY DEF Replies, None
  <2>4. \/ other = NoLease /\ \A l \in ToSet(ls) : l.addr # a
        \/ other \in ToSet(ls) /\ other.addr = a
    BY FoundByAddr
  <2>5. \/ mine = NoLease /\ \A k \in ToSet(ls) : k.addr # a
        \/ mine \in ToSet(ls) /\ mine.mac = m /\ mine.addr = a
    <3>1. mine = NoLease => other = NoLease
      BY <1>3 DEF InUse
    <3>2. \/ mine = lease
          \/ mine = other /\ other # NoLease /\ other.mac = m
      OBVIOUS
    <3> HIDE DEF other, mine
    <3>3. CASE mine = NoLease
      BY <2>4, <3>1, <3>3, EntryTypes
    <3>4. CASE mine # NoLease /\ mine = lease
      BY <3>4
    <3>5. CASE mine # NoLease /\ mine = other /\ other.mac = m
      BY <2>4, <3>5
    <3> QED
      BY <3>2, <3>3, <3>4, <3>5
  <2>6. msg.clid \in ClidsOf(m) /\ LeaseTime \in 0 .. Forever
    BY TimesAreTimes DEF ClidsOf
  <2>7. Spared(ls, new, m) /\ Leased(new, m, a, LeaseTime)
    <3> HIDE DEF mine
    <3> QED BY <2>2, <2>5, <2>6, GrantSpares
  <2>8. Given(ls, new, m, a, LeaseTime, ok)
    BY <2>7 DEF Given
  <2> HIDE DEF new, ok
  <2> QED
    BY <2>1, <2>3, <2>7, <2>8
<1> QED
  BY <1>1, <1>2, <1>3

\* DHCPREQUEST.
LEMMA RequestedGives ==
  ASSUME NEW ls \in Seq(Lease), NEW m \in Machines, NEW msg,
         msg.clid \in Clids[m], msg.addr \in Nat,
         msg.kind \in {"selecting", "reboot", "renew"}, msg.ours \in BOOLEAN
  PROVE  LET r == Requested(ls, m, msg)
         IN /\ Spared(ls, r.leases, m)
            /\ Given(ls, r.leases, m, msg.addr, LeaseTime, r.answer)
            /\ r.answer \in Replies /\ r.epoch = epoch
<1> DEFINE lease == FindByClient(ls, m, msg.clid)
           other == lease # NoLease /\ lease.addr # msg.addr
           left  == IF other THEN Without(ls, lease) ELSE ls
           nak   == [op |-> "NAK"]
           mine  == IF other THEN NoLease ELSE lease
           r     == Requested(ls, m, msg)
           Fine(x) == /\ Spared(ls, x.leases, m)
                      /\ Given(ls, x.leases, m, msg.addr, LeaseTime, x.answer)
                      /\ x.answer \in Replies /\ x.epoch = epoch
<1> SUFFICES Fine(r)
  OBVIOUS
<1>1. \/ msg.kind = "selecting" /\ r = Committed(left, m, msg, mine, msg.addr)
      \/ msg.kind = "selecting" /\ r = Result(left, nak)
      \/ other /\ r = Result(ls, nak)
      \/ other /\ r = Result(ls, None)
      \/ ~other /\ r = Committed(ls, m, msg, lease, msg.addr)
  <2>1. msg.kind = "selecting" \/ msg.kind = "reboot" \/ msg.kind = "renew"
    OBVIOUS
  <2>2. msg.kind = "selecting" =>
           r = IF msg.ours THEN Committed(left, m, msg, mine, msg.addr) ELSE Result(left, nak)
    BY DEF Requested
  <2>3. msg.kind = "reboot" =>
           r = IF other THEN Result(ls, nak) ELSE Committed(ls, m, msg, lease, msg.addr)
    BY DEF Requested
  <2>4. msg.kind = "renew" =>
           r = IF other THEN Result(ls, IF msg.unicast THEN nak ELSE None)
               ELSE Committed(ls, m, msg, lease, msg.addr)
    BY DEF Requested
  <2> HIDE DEF r, lease, other, left, nak, mine
  <2> QED
    BY <2>1, <2>2, <2>3, <2>4
<1>2. lease = NoLease \/ (lease \in ToSet(ls) /\ lease.mac = m)
  BY FoundByClient
<1> HIDE DEF lease
<1>3. /\ Spared(ls, left, m) /\ left \in Seq(Lease)
      /\ \A k \in ToSet(ls) : k.addr = msg.addr => k \in ToSet(left)
  <2>1. CASE other
    <3>1. Spared(ls, Without(ls, lease), m)
          /\ \A k \in ToSet(ls) : k # lease => k \in ToSet(Without(ls, lease))
      BY <1>2, LeaveSpares
    <3> QED
      BY <2>1, <3>1 DEF Spared
  <2>2. CASE ~other
    BY <2>2, NothingSpares
  <2> QED
    BY <2>1, <2>2
<1>4. mine = NoLease \/ (mine \in ToSet(left) /\ mine.mac = m /\ mine.addr = msg.addr)
  BY <1>2
<1>5. ~other => lease = NoLease \/ (lease \in ToSet(ls) /\ lease.mac = m /\ lease.addr = msg.addr)
  BY <1>2
<1>6. nak \in Replies /\ None \in Replies /\ nak.op = "NAK" /\ None.op = "none"
  BY DEF Replies, None
<1> HIDE DEF other, left, mine, nak, r
<1>7. \A l, x : Result(l, x).leases = l /\ Result(l, x).answer = x
                               /\ Result(l, x).epoch = epoch
  BY DEF Result
<1>8. CASE r = Committed(left, m, msg, mine, msg.addr)
  <2>1. /\ Spared(left, r.leases, m)
        /\ Given(left, r.leases, m, msg.addr, LeaseTime, r.answer)
        /\ r.answer \in Replies /\ r.epoch = epoch
    BY <1>3, <1>4, <1>8, CommittedGives
  <2>2. Spared(ls, r.leases, m)
    BY <1>3, <2>1 DEF Spared
  <2>3. Given(ls, r.leases, m, msg.addr, LeaseTime, r.answer)
    BY <1>3, <2>1 DEF Given
  <2> QED
    BY <2>1, <2>2, <2>3
<1>9. CASE r = Result(left, nak)
  <2>1. r.leases = left /\ r.answer = nak /\ r.epoch = epoch
    BY <1>3, <1>7, <1>9
  <2>2. Given(ls, left, m, msg.addr, LeaseTime, nak)
    BY <1>3, <1>6 DEF Given
  <2> QED
    BY <1>3, <1>6, <2>1, <2>2
<1>10. CASE r = Result(ls, nak) \/ r = Result(ls, None)
  <2>1. r.leases = ls /\ r.answer \in {nak, None} /\ r.epoch = epoch
    BY <1>7, <1>10
  <2>2. Given(ls, ls, m, msg.addr, LeaseTime, r.answer) /\ Spared(ls, ls, m)
    BY <1>6, <2>1, NothingSpares DEF Given
  <2> QED
    BY <1>6, <2>1, <2>2
<1>11. CASE ~other /\ r = Committed(ls, m, msg, lease, msg.addr)
  BY <1>5, <1>11, CommittedGives
<1> QED
  BY <1>1, <1>8, <1>9, <1>10, <1>11

\* The address that address_allocate finds is a number, and so is the place.
LEMMA AllocatedTypes ==
  ASSUME epoch \in Nat, NEW ls, NEW m \in Machines
  PROVE  Allocated(ls, m).addr \in Nat /\ Allocated(ls, m).epoch \in Nat
<1> DEFINE at(k) == 1 + ((Hash[m] + epoch + k) % PoolSize)
           open  == {k \in 0 .. PoolSize - 1 : Open(ls, at(k))}
           free  == {k \in open : Free(at(k))}
           used(upto) == Cardinality({k \in open : k < upto})
           none == [addr |-> 0, epoch |-> (epoch + used(PoolSize)) % PoolSize]
           some == [addr |-> at(Min(free)), epoch |-> (epoch + used(Min(free))) % PoolSize]
<1>1. Allocated(ls, m) = IF free = {} THEN none ELSE some
  BY DEF Allocated
<1>2. PoolSize \in Nat \ {0} /\ Hash[m] \in Nat
  BY DhcpAssumption
<1>3. \A x \in Nat : x % PoolSize \in Nat
  BY <1>2
<1>4. ASSUME NEW x PROVE used(x) \in Nat
  <2>1. IsFiniteSet(0 .. PoolSize - 1)
    BY <1>2, FS_Interval
  <2>2. {k \in open : k < x} \subseteq 0 .. PoolSize - 1
    OBVIOUS
  <2> HIDE DEF open
  <2> QED
    BY <2>1, <2>2, FS_Subset, FS_CardinalityType
<1>5. free # {} => Min(free) \in Nat
  <2>1. free \in SUBSET Nat
    OBVIOUS
  <2> HIDE DEF free
  <2> QED
    BY <2>1, MinIn
<1> HIDE DEF open, free, used
<1>6. none.addr = 0 /\ none.epoch \in Nat
  <2>1. epoch + used(PoolSize) \in Nat
    BY <1>4
  <2> QED
    BY <2>1, <1>3
<1>7. free # {} => some.addr \in Nat /\ some.epoch \in Nat
  <2>1. ASSUME free # {}
        PROVE  epoch + used(Min(free)) \in Nat /\ Hash[m] + epoch + Min(free) \in Nat
    BY <1>2, <1>4, <1>5, <2>1
  <2>2. ASSUME free # {}
        PROVE  /\ (epoch + used(Min(free))) % PoolSize \in Nat
               /\ 1 + ((Hash[m] + epoch + Min(free)) % PoolSize) \in Nat
    BY <2>1, <2>2, <1>3
  <2> QED
    BY <2>2
<1> HIDE DEF none, some
<1> QED
  BY <1>1, <1>6, <1>7

\* DHCPDISCOVER takes nothing from anybody.
LEMMA DiscoveredKeeps ==
  ASSUME epoch \in Nat, reserved \in [Machines -> Nat], NEW ls \in Seq(Lease),
         NEW m \in Machines, NEW msg, msg.clid \in Clids[m], msg.addr \in Nat
  PROVE  LET r == Discovered(ls, m, msg)
         IN /\ r.leases = ls /\ r.epoch \in Nat
            /\ r.answer \in [op : {"OFFER"}, addr : Nat] \cup {None}
<1> DEFINE lease == FindByClient(ls, m, msg.clid)
           offer(a) == [op |-> "OFFER", addr |-> a]
           any == Allocated(ls, m)
           r == Discovered(ls, m, msg)
           asked == [Result(ls, offer(msg.addr)) EXCEPT !.pinged = PingedNow(msg.addr)]
           found == [Result(ls, offer(any.addr)) EXCEPT !.pinged = PingedNow(any.addr),
                                                        !.epoch = any.epoch]
           nothing == [Result(ls, None) EXCEPT !.epoch = any.epoch]
           Fine(x) == /\ x.leases = ls /\ x.epoch \in Nat
                      /\ x.answer \in [op : {"OFFER"}, addr : Nat] \cup {None}
<1>1. \/ r = Result(ls, offer(reserved[m]))
      \/ lease # NoLease /\ r = Result(ls, offer(lease.addr))
      \/ r = asked \/ r = found \/ r = nothing
  BY Zenon DEF Discovered
<1>2. lease # NoLease => lease.addr \in Nat
  BY FoundByClient, EntryTypes
<1>3. any.addr \in Nat /\ any.epoch \in Nat
  BY AllocatedTypes
<1>4. \A a \in Nat : Fine(Result(ls, offer(a)))
  BY DEF Result
<1> HIDE DEF lease, any
<1>5. Fine(asked)
  BY DEF Result
<1>6. Fine(found)
  BY <1>3 DEF Result
<1>7. Fine(nothing)
  BY <1>3 DEF Result
<1> HIDE DEF r, asked, found, nothing, Fine
<1>8. Fine(r)
  BY <1>1, <1>2, <1>4, <1>5, <1>6, <1>7
<1> QED
  BY <1>8 DEF Fine, r

\* DHCPDECLINE and DHCPRELEASE take a lease from the machine that sends them only.
LEMMA GivenBack ==
  ASSUME epoch \in Nat, NEW ls \in Seq(Lease), NEW m \in Machines, NEW msg,
         msg.clid \in Clids[m], NEW r, r \in {Declined(ls, m, msg), Released(ls, m, msg)}
  PROVE  Spared(ls, r.leases, m) /\ r.answer = None /\ r.epoch \in Nat
<1> DEFINE lease == FindByClient(ls, m, msg.clid)
           gone == IF lease.addr = msg.addr THEN Without(ls, lease) ELSE ls
           Fine(x) == x.leases = gone /\ x.answer = None /\ x.epoch \in Nat
<1>1. lease = NoLease \/ (lease \in ToSet(ls) /\ lease.mac = m)
  BY FoundByClient
<1>2. Spared(ls, gone, m)
  <2> HIDE DEF lease
  <2> QED BY <1>1, LeaveSpares, NothingSpares
<1>3. (epoch + 1) % PoolSize \in Nat
  <2>1. PoolSize \in Nat \ {0}
    BY DhcpAssumption
  <2> QED
    BY <2>1
<1>4. \/ r = [Result(gone, None) EXCEPT !.declined[m] = 0]
      \/ r = [Result(gone, None) EXCEPT !.epoch = (@ + 1) % PoolSize]
      \/ r = Result(gone, None)
  BY Zenon DEF Declined, Released
<1> HIDE DEF gone
<1>5. r.leases = gone /\ r.answer = None /\ r.epoch \in Nat
  BY <1>3, <1>4 DEF Result
<1> QED
  BY <1>2, <1>5

\* BOOTP: the reserved address for ever, if it is free or the machine's already.
LEMMA BootpGives ==
  ASSUME reserved \in [Machines -> Nat], NEW ls \in Seq(Lease), NEW m \in Machines, NEW msg
  PROVE  LET r == Bootp(ls, m, msg)
         IN /\ Spared(ls, r.leases, m)
            /\ Given(ls, r.leases, m, reserved[m], Forever, r.answer)
            /\ r.answer \in Replies /\ r.epoch = epoch
<1> DEFINE lease == FindByAddr(ls, reserved[m])
           a == reserved[m]
           ok == [op |-> "BOOTREPLY", addr |-> a]
           new == Granted(ls, lease, a, m, NoClid, Forever)
           r == Bootp(ls, m, msg)
           Fine(x) == /\ Spared(ls, x.leases, m)
                      /\ Given(ls, x.leases, m, reserved[m], Forever, x.answer)
                      /\ x.answer \in Replies /\ x.epoch = epoch
<1> SUFFICES Fine(r)
  OBVIOUS
<1>1. \/ r = Result(ls, None)
      \/ r = Result(new, ok) /\ a # 0 /\ ~ (lease # NoLease /\ lease.mac # m)
  BY Zenon DEF Bootp
<1>2. CASE r = Result(ls, None)
  <2>1. r.leases = ls /\ r.answer = None /\ r.epoch = epoch
    BY <1>2 DEF Result
  <2>2. None \in Replies /\ None.op = "none"
    BY DEF Replies, None
  <2>3. Spared(ls, ls, m) /\ Given(ls, ls, m, reserved[m], Forever, None)
    BY NothingSpares, <2>2 DEF Given
  <2> QED
    BY <2>1, <2>2, <2>3
<1>3. CASE r = Result(new, ok) /\ a # 0 /\ ~ (lease # NoLease /\ lease.mac # m)
  <2>1. r.leases = new /\ r.answer = ok /\ r.epoch = epoch
    BY <1>3 DEF Result
  <2>2. ok \in Replies /\ a \in Nat \ {0}
    BY <1>3 DEF Replies
  <2>3. \/ lease = NoLease /\ \A k \in ToSet(ls) : k.addr # a
        \/ lease \in ToSet(ls) /\ lease.addr = a
    BY FoundByAddr
  <2>4. \/ lease = NoLease /\ \A k \in ToSet(ls) : k.addr # a
        \/ lease \in ToSet(ls) /\ lease.mac = m /\ lease.addr = a
    BY <1>3, <2>3, EntryTypes
  <2>5. NoClid \in ClidsOf(m) /\ Forever \in 0 .. Forever
    BY TimesAreTimes DEF ClidsOf
  <2>6. Spared(ls, new, m) /\ Leased(new, m, a, Forever)
    <3> HIDE DEF lease, a
    <3> QED BY <2>2, <2>4, <2>5, GrantSpares
  <2>7. Given(ls, new, m, a, Forever, ok)
    BY <2>6 DEF Given
  <2> HIDE DEF new, ok
  <2> QED
    BY <2>1, <2>2, <2>6, <2>7
<1> QED
  BY <1>1, <1>2, <1>3

\* What the answer to any message does.
Settled4(ls, r, m, msg) ==
    /\ Spared(ls, r.leases, m) /\ r.answer \in Replies /\ r.epoch \in Nat
    /\ msg.op = "DISCOVER" => r.leases = ls
    /\ msg.op \in {"DISCOVER", "DECLINE", "RELEASE"} =>
          r.answer.op \notin {"ACK", "BOOTREPLY"}
    /\ msg.op = "REQUEST" => Given(ls, r.leases, m, msg.addr, LeaseTime, r.answer)
    /\ msg.op = "BOOTP" => Given(ls, r.leases, m, reserved[m], Forever, r.answer)

LEMMA ReplySettles ==
  ASSUME DhcpTypes, NEW m \in Machines, req[m] # None
  PROVE  Settled4(Pruned(leases), DhcpReply(m, req[m]), m, req[m])
<1> DEFINE ls == Pruned(leases)
           msg == req[m]
           r == DhcpReply(m, msg)
<1>1. ls \in Seq(Lease) /\ epoch \in Nat
  BY ListFacts DEF DhcpTypes
<1>2. reserved \in [Machines -> Nat]
  <2>1. Hosts \in [Machines -> Nat] /\ [n \in Machines |-> 0] \in [Machines -> Nat]
    BY DhcpAssumption
  <2>2. reserved \in {Hosts, [n \in Machines |-> 0]}
    BY DEF DhcpTypes
  <2> QED
    BY <2>1, <2>2
<1>3. msg \in Messages(m)
  BY DEF DhcpTypes
<1>4. r = CASE msg.op = "DISCOVER" -> Discovered(ls, m, msg)
            [] msg.op = "REQUEST"  -> Requested(ls, m, msg)
            [] msg.op = "DECLINE"  -> Declined(ls, m, msg)
            [] msg.op = "RELEASE"  -> Released(ls, m, msg)
            [] msg.op = "BOOTP"    -> Bootp(ls, m, msg)
  BY Zenon DEF DhcpReply
<1>5. msg # None
  OBVIOUS
<1> HIDE DEF ls, msg, r
<1> SUFFICES Settled4(ls, r, m, msg)
  BY DEF ls, msg, r
<1>6. CASE msg.op = "DISCOVER"
  <2>1. msg.clid \in Clids[m] /\ msg.addr \in Nat
    BY <1>3, <1>6 DEF Messages
  <2>2. r = Discovered(ls, m, msg)
    BY <1>4, <1>6
  <2>3. /\ r.leases = ls /\ r.epoch \in Nat
        /\ r.answer \in [op : {"OFFER"}, addr : Nat] \cup {None}
    BY <1>1, <1>2, <2>1, <2>2, DiscoveredKeeps
  <2>4. r.answer \in Replies /\ r.answer.op \in {"OFFER", "none"}
    BY <2>3 DEF Replies, None
  <2> QED
    BY <1>1, <1>6, <2>3, <2>4, NothingSpares DEF Settled4
<1>7. CASE msg.op = "REQUEST"
  <2>1. /\ msg.clid \in Clids[m] /\ msg.addr \in Nat
        /\ msg.kind \in {"selecting", "reboot", "renew"} /\ msg.ours \in BOOLEAN
    BY <1>3, <1>7 DEF Messages
  <2>2. r = Requested(ls, m, msg)
    BY <1>4, <1>7
  <2>3. /\ Spared(ls, r.leases, m)
        /\ Given(ls, r.leases, m, msg.addr, LeaseTime, r.answer)
        /\ r.answer \in Replies /\ r.epoch = epoch
    BY <1>1, <2>1, <2>2, RequestedGives
  <2> QED
    BY <1>1, <1>7, <2>3 DEF Settled4
<1>8. CASE msg.op \in {"DECLINE", "RELEASE"}
  <2>1. msg.clid \in Clids[m]
    BY <1>3, <1>8 DEF Messages
  <2>2. r \in {Declined(ls, m, msg), Released(ls, m, msg)}
    BY <1>4, <1>8
  <2>3. Spared(ls, r.leases, m) /\ r.answer = None /\ r.epoch \in Nat
    BY <1>1, <2>1, <2>2, GivenBack
  <2>4. None \in Replies /\ None.op = "none"
    BY DEF Replies, None
  <2> QED
    BY <1>8, <2>3, <2>4 DEF Settled4
<1>9. CASE msg.op = "BOOTP"
  <2>1. r = Bootp(ls, m, msg)
    BY <1>4, <1>9
  <2>2. /\ Spared(ls, r.leases, m)
        /\ Given(ls, r.leases, m, reserved[m], Forever, r.answer)
        /\ r.answer \in Replies /\ r.epoch = epoch
    BY <1>1, <1>2, <2>1, BootpGives
  <2> QED
    BY <1>1, <1>9, <2>2 DEF Settled4
<1>10. msg.op \in {"DISCOVER", "REQUEST", "DECLINE", "RELEASE", "BOOTP"}
  <2>1. msg.op # "none"
    BY <1>3, <1>5 DEF Messages, None
  <2> QED
    BY <1>3, <2>1 DEF Messages
<1> QED
  BY <1>6, <1>7, <1>8, <1>9, <1>10

-----------------------------------------------------------------------------
(* The invariant: each step.                                               *)

\* Pruning takes nothing that still runs.
LEMMA PruneKeeps ==
  ASSUME NEW ls \in Seq(Lease)
  PROVE  /\ OneEach(ls) => OneEach(Pruned(ls))
         /\ \A m, a, t : t \in Nat \ {0} /\ Leased(ls, m, a, t) =>
               Leased(Pruned(ls), m, a, t)
<1>1. ToSet(Pruned(ls)) = {l \in ToSet(ls) : l.left # 0}
  BY ListFacts
<1>2. OneEach(ls) => OneEach(Pruned(ls))
  BY <1>1 DEF OneEach
<1>3. ASSUME NEW m, NEW a, NEW t \in Nat \ {0}, Leased(ls, m, a, t)
      PROVE  Leased(Pruned(ls), m, a, t)
  <2>1. PICK l \in ToSet(ls) : l.addr = a /\ l.mac = m /\ l.left >= t
    BY <1>3 DEF Leased
  <2>2. l.left \in Nat
    BY EntryTypes DEF Forever
  <2>3. l.left # 0
    BY <1>3, <2>1, <2>2
  <2> QED
    BY <1>1, <2>1, <2>3 DEF Leased
<1> QED
  BY <1>2, <1>3

\* What a machine has been granted depends on the entries only.
LEMMA KeptBySet ==
  ASSUME NEW ls, NEW new, ToSet(new) = ToSet(ls)
  PROVE  /\ OneEach(ls) => OneEach(new)
         /\ \A m : Kept(ls, m) => Kept(new, m)
BY DEF OneEach, Kept, Leased

\* Pruned entries were no machine's.
LEMMA KeptByPruning ==
  ASSUME DhcpTypes, NEW ls \in Seq(Lease), NEW m \in Machines, Kept(ls, m)
  PROVE  Kept(Pruned(ls), m)
<1>1. machine[m].left \in 0 .. Forever /\ machine[m].grant \in 0 .. Forever
  BY DEF DhcpTypes, ClientsOf
<1>2. machine[m].left \in Nat /\ machine[m].grant \in Nat
  BY <1>1
<1>3. ASSUME machine[m].st \in {"bound", "renewing"}
      PROVE  machine[m].left > 0 /\ Leased(Pruned(ls), m, machine[m].addr, machine[m].left)
  <2>1. machine[m].left > 0 /\ Leased(ls, m, machine[m].addr, machine[m].left)
    BY <1>3 DEF Kept
  <2>2. machine[m].left \in Nat \ {0}
    BY <1>2, <2>1
  <2> QED
    BY <2>1, <2>2, PruneKeeps
<1>4. ASSUME /\ rep[m].op \in {"ACK", "BOOTREPLY"}
             /\ machine[m].st \in {"requesting", "renewing"}
             /\ machine[m].grant > 0
      PROVE  Leased(Pruned(ls), m, machine[m].addr, machine[m].grant)
  <2>1. Leased(ls, m, machine[m].addr, machine[m].grant)
    BY <1>4 DEF Kept
  <2>2. machine[m].grant \in Nat \ {0}
    BY <1>2, <1>4
  <2> QED
    BY <2>1, <2>2, PruneKeeps
<1> QED
  BY <1>3, <1>4 DEF Kept

\* The lease file is as the list, or is dirty.
LEMMA FileSynced ==
  ASSUME NEW ls \in Seq(Lease), NEW news \in BOOLEAN, DhcpTypes,
         ls \in Seq(Lease), leases' = ls, UpdateFile(ls, news)
  PROVE  file' \in Seq(Lease) /\ dirty' \in BOOLEAN
         /\ (news \/ (Synced /\ up /\ ~dirty /\ ls = leases) => Synced')
<1>1. /\ leases \in Seq(Lease) /\ file \in Seq(Lease) /\ <<>> \in Seq(Lease)
      /\ dirty \in BOOLEAN /\ full \in BOOLEAN
  BY DEF DhcpTypes
<1>2. CASE news
  <2>1. file' = (IF full THEN <<>> ELSE ls) /\ dirty' = full
    BY <1>2 DEF UpdateFile
  <2> QED
    BY <1>1, <2>1 DEF Synced
<1>3. CASE ~news
  <2>1. file' = file /\ dirty' = dirty
    BY <1>3 DEF UpdateFile
  <2> QED
    BY <1>1, <1>3, <2>1 DEF Synced
<1> QED
  BY <1>2, <1>3

\* A packet that is answered.
LEMMA HandledKeeps ==
  ASSUME DhcpInv, NEW m \in Machines, Handled(m)
  PROVE  /\ leases' \in Seq(Lease) /\ file' \in Seq(Lease) /\ dirty' \in BOOLEAN
         /\ epoch' \in Nat
         /\ rep' \in [Machines -> Replies]
         /\ lost \/ (Synced' /\ OneEach(Known') /\ \A n \in Machines : Kept(Known, n)')
<1> DEFINE ls == Pruned(leases)
           r == DhcpReply(m, req[m])
<1>1. DhcpTypes /\ Asked(m) /\ (lost \/ Faithful)
  BY DEF DhcpInv
<1>2. leases \in Seq(Lease) /\ ls \in Seq(Lease) /\ rep \in [Machines -> Replies]
  BY <1>1, ListFacts DEF DhcpTypes
<1>3. /\ up /\ req[m] # None
      /\ leases' = r.leases /\ epoch' = r.epoch
      /\ UpdateFile(r.leases, News(r.leases))
      /\ rep' = IF r.answer = None THEN rep ELSE [rep EXCEPT ![m] = r.answer]
      /\ machine' = machine /\ up' = up
  BY DEF Handled
<1>4. Settled4(ls, r, m, req[m])
  BY <1>1, <1>3, ReplySettles
<1> HIDE DEF ls, r
<1>5. Spared(ls, r.leases, m) /\ r.answer \in Replies /\ r.epoch \in Nat
  BY <1>4 DEF Settled4
<1>6. leases' \in Seq(Lease) /\ epoch' \in Nat /\ rep' \in [Machines -> Replies]
  BY <1>2, <1>3, <1>5 DEF Spared
<1>7. /\ file' \in Seq(Lease) /\ dirty' \in BOOLEAN
      /\ News(r.leases) \/ (Synced /\ up /\ ~dirty /\ r.leases = leases) => Synced'
  <2>1. News(r.leases) \in BOOLEAN
    BY <1>1 DEF News, DhcpTypes
  <2> QED
    BY <2>1, <1>1, <1>3, <1>6, FileSynced
<1>8. ASSUME Faithful
      PROVE  Synced' /\ OneEach(Known') /\ \A n \in Machines : Kept(Known, n)'
  <2>1. Known = leases /\ Known' = leases'
    BY <1>3 DEF Known
  <2>2. Synced'
    <3>2. News(r.leases) \/ (Synced /\ up /\ ~dirty /\ r.leases = leases)
      BY <1>3, <1>8, <1>1 DEF News, Faithful, DhcpTypes
    <3> QED
      BY <3>2, <1>7
  <2>3. OneEach(ls) /\ \A n \in Machines : Kept(ls, n)
    <3>1. OneEach(leases) /\ \A n \in Machines : Kept(leases, n)
      BY <1>8, <2>1 DEF Faithful
    <3> QED
      BY <3>1, <1>1, <1>2, PruneKeeps, KeptByPruning DEF ls
  <2>4. OneEach(leases')
    BY <1>3, <1>5, <2>3 DEF Spared
  <2>5. ASSUME NEW n \in Machines PROVE Kept(Known, n)'
    <3>1. CASE n # m
      <4>1. \A a, t : Leased(ls, n, a, t) => Leased(leases', n, a, t)
        BY <1>3, <1>5, <3>1 DEF Spared, Leased
      <4>2. rep'[n] = rep[n] /\ machine'[n] = machine[n]
        BY <1>2, <1>3, <3>1
      <4>3. Kept(ls, n)
        BY <2>3
      <4> QED
        BY <2>1, <4>1, <4>2, <4>3 DEF Kept
    <3>2. CASE n = m
      <4> DEFINE mc == machine[m]
                 msg == req[m]
      <4>1. /\ mc \in ClientsOf(m) /\ msg \in Messages(m)
            /\ Kept(ls, m) /\ machine'[m] = mc
        BY <1>1, <1>3, <2>3 DEF DhcpTypes
      <4>2. mc.left \in 0 .. Forever /\ mc.grant \in 0 .. Forever
        BY <4>1 DEF ClientsOf
      <4>3. \/ rep'[m] = rep[m]
            \/ rep'[m] = r.answer
        BY <1>2, <1>3
      <4>4. SUFFICES
              /\ mc.st \in {"bound", "renewing"} => Leased(leases', m, mc.addr, mc.left)
              /\ /\ rep'[m].op \in {"ACK", "BOOTREPLY"}
                 /\ mc.st \in {"requesting", "renewing"} /\ mc.grant > 0
                 => Leased(leases', m, mc.addr, mc.grant)
        <5>1. mc.st \in {"bound", "renewing"} => mc.left > 0
          BY <4>1 DEF Kept
        <5> QED
          BY <2>1, <3>2, <4>1, <5>1 DEF Kept
      <4>5. ASSUME NEW t \in 0 .. Forever, Given(ls, r.leases, m, mc.addr, t, r.answer),
                   mc.grant <= t, mc.st \in {"bound", "renewing"} => mc.left <= t
            PROVE  /\ mc.st \in {"bound", "renewing"} => Leased(leases', m, mc.addr, mc.left)
                   /\ /\ rep'[m].op \in {"ACK", "BOOTREPLY"}
                      /\ mc.st \in {"requesting", "renewing"} /\ mc.grant > 0
                      => Leased(leases', m, mc.addr, mc.grant)
        <5>1. ASSUME NEW u \in 0 .. Forever, u <= t, Leased(ls, m, mc.addr, u)
              PROVE  Leased(leases', m, mc.addr, u)
          <6>1. PICK k \in ToSet(ls) : k.addr = mc.addr /\ k.mac = m /\ k.left >= u
            BY <5>1 DEF Leased
          <6>2. k \in ToSet(leases') \/ Leased(leases', m, mc.addr, t)
            BY <1>3, <4>5, <6>1 DEF Given
          <6>3. ASSUME Leased(leases', m, mc.addr, t) PROVE Leased(leases', m, mc.addr, u)
            <7>1. PICK j \in ToSet(leases') : j.addr = mc.addr /\ j.mac = m /\ j.left >= t
              BY <6>3 DEF Leased
            <7>2. j.left \in 0 .. Forever
              BY <1>6, EntryTypes
            <7>3. j.left >= u
              BY <5>1, <7>1, <7>2 DEF Forever
            <7> QED
              BY <7>1, <7>3 DEF Leased
          <6> QED
            BY <6>1, <6>2, <6>3 DEF Leased
        <5>2. r.answer.op \in {"ACK", "BOOTREPLY"} => Leased(leases', m, mc.addr, t)
          BY <1>3, <4>5 DEF Given
        <5>3. Leased(leases', m, mc.addr, t) => \A u \in 0 .. t : Leased(leases', m, mc.addr, u)
          <6>1. \A j \in ToSet(leases') : j.left \in 0 .. Forever
            BY <1>6, EntryTypes
          <6>2. \A x \in 0 .. Forever, u \in 0 .. t : x >= t => x >= u
            BY DEF Forever
          <6> QED
            BY <6>1, <6>2 DEF Leased
        <5>4. mc.st \in {"bound", "renewing"} => Leased(leases', m, mc.addr, mc.left)
          BY <4>1, <4>2, <4>5, <5>1 DEF Kept
        <5>5. ASSUME rep'[m].op \in {"ACK", "BOOTREPLY"},
                     mc.st \in {"requesting", "renewing"}, mc.grant > 0
              PROVE  Leased(leases', m, mc.addr, mc.grant)
          <6>1. CASE rep'[m] = rep[m]
            <7>1. Leased(ls, m, mc.addr, mc.grant)
              BY <4>1, <5>5, <6>1 DEF Kept
            <7> QED
              BY <4>2, <4>5, <5>1, <7>1
          <6>2. CASE rep'[m] = r.answer
            <7>1. Leased(leases', m, mc.addr, t) /\ mc.grant \in 0 .. t
              BY <4>2, <4>5, <5>2, <5>5, <6>2
            <7> QED
              BY <5>3, <7>1
          <6> QED
            BY <4>3, <6>1, <6>2
        <5> QED
          BY <5>4, <5>5
      <4>6. CASE msg.op = "REQUEST" /\ mc.st # "init"
        <5>1. Given(ls, r.leases, m, msg.addr, LeaseTime, r.answer)
          BY <1>4, <4>6 DEF Settled4
        <5>2. /\ mc.addr = msg.addr /\ mc.grant <= LeaseTime
              /\ mc.st \in {"bound", "renewing"} => mc.left <= LeaseTime
          BY <1>1, <4>6 DEF Asked
        <5> QED
          BY <4>5, <5>1, <5>2, TimesAreTimes
      <4>7. CASE msg.op = "BOOTP" /\ mc.st # "init"
        <5>1. Given(ls, r.leases, m, reserved[m], Forever, r.answer)
          BY <1>4, <4>7 DEF Settled4
        <5>2. reserved = Hosts /\ mc.addr = Hosts[m]
          BY <1>1, <4>7 DEF Asked
        <5>3. mc.grant <= Forever /\ mc.left <= Forever
          BY <4>2 DEF Forever
        <5> QED
          BY <4>5, <5>1, <5>2, <5>3, TimesAreTimes
      <4>8. CASE mc.st \notin {"bound", "renewing", "requesting"}
        BY <4>8
      <4>9. \/ msg.op = "REQUEST" /\ mc.st # "init"
            \/ msg.op = "BOOTP" /\ mc.st # "init"
            \/ mc.st \notin {"bound", "renewing", "requesting"}
        <5>1. msg.op \in {"DISCOVER", "DECLINE", "RELEASE", "REQUEST", "BOOTP", "none"}
          BY <4>1 DEF Messages
        <5>2. msg.op = "none" => msg = None
          BY <4>1 DEF Messages, None
        <5>3. msg.op # "none"
          BY <1>3, <5>2
        <5>4. msg.op \in {"DISCOVER", "DECLINE", "RELEASE"} => mc.st \in {"init", "selecting"}
          BY <1>1 DEF Asked
        <5> HIDE DEF msg, mc
        <5> QED
          BY <5>1, <5>3, <5>4
      <4> QED
        BY <4>6, <4>7, <4>8, <4>9
    <3> QED
      BY <3>1, <3>2
  <2> QED
    BY <2>1, <2>2, <2>4, <2>5
<1> QED
  BY <1>1, <1>6, <1>7, <1>8

\* The packet itself goes, or arrives again.
LEMMA PacketInv ==
  ASSUME DhcpInv, NEW m \in Machines, Handled(m),
         req' = req \/ req' = [req EXCEPT ![m] = None]
  PROVE  DhcpInv'
<1>1. /\ leases' \in Seq(Lease) /\ file' \in Seq(Lease) /\ dirty' \in BOOLEAN
      /\ epoch' \in Nat
      /\ rep' \in [Machines -> Replies]
      /\ lost \/ (Synced' /\ OneEach(Known') /\ \A n \in Machines : Kept(Known, n)')
  BY HandledKeeps
<1>2. /\ machine' = machine /\ reserved' = reserved /\ up' = up /\ full' = full
      /\ lost' = lost
  BY DEF Handled
<1>3. DhcpTypes /\ \A n \in Machines : Asked(n)
  BY DEF DhcpInv
<1>4. ASSUME NEW n \in Machines PROVE req'[n] = req[n] \/ req'[n] = None
  BY <1>3 DEF DhcpTypes
<1>5. None \in Messages(m) /\ None.op = "none" /\ \A n \in Machines : None \in Messages(n)
  BY DEF None, Messages
<1>6. /\ req' \in [Machines -> UNION {Messages(n) : n \in Machines}]
      /\ \A n \in Machines : req'[n] \in Messages(n)
  <2>1. /\ req \in [Machines -> UNION {Messages(n) : n \in Machines}]
        /\ \A n \in Machines : req[n] \in Messages(n)
    BY <1>3 DEF DhcpTypes
  <2> QED
    BY <1>4, <1>5, <2>1
<1>7. DhcpTypes'
  BY <1>1, <1>2, <1>3, <1>6 DEF DhcpTypes
<1>8. ASSUME NEW n \in Machines PROVE Asked(n)'
  <2>1. Asked(n) /\ machine'[n] = machine[n] /\ (req'[n] = req[n] \/ req'[n].op = "none")
    BY <1>2, <1>3, <1>4, <1>5
  <2> QED
    BY <1>2, <2>1 DEF Asked
<1> QED
  BY <1>1, <1>2, <1>7, <1>8 DEF DhcpInv, Faithful

\* A step of one machine, its client or its packets: the server is as before.
LEMMA ClientInv ==
  ASSUME DhcpInv, NEW m \in Machines, Elsewhere,
         NEW mc \in ClientsOf(m), machine' = [machine EXCEPT ![m] = mc],
         NEW q \in Messages(m), req' = [req EXCEPT ![m] = q],
         NEW p \in Replies, rep' = [rep EXCEPT ![m] = p],
         Asked(m)', Kept(Known, m) => Kept(Known, m)'
  PROVE  DhcpInv'
<1>1. DhcpTypes /\ \A n \in Machines : Asked(n)
  BY DEF DhcpInv
<1>2. /\ leases' = leases /\ dirty' = dirty /\ file' = file /\ epoch' = epoch
      /\ reserved' = reserved /\ up' = up /\ full' = full /\ lost' = lost
  BY DEF Elsewhere, server
<1>3. /\ machine \in [Machines -> UNION {ClientsOf(n) : n \in Machines}]
      /\ \A n \in Machines : machine[n] \in ClientsOf(n)
      /\ req \in [Machines -> UNION {Messages(n) : n \in Machines}]
      /\ \A n \in Machines : req[n] \in Messages(n)
      /\ rep \in [Machines -> Replies]
  BY <1>1 DEF DhcpTypes
<1>4. /\ machine' \in [Machines -> UNION {ClientsOf(n) : n \in Machines}]
      /\ \A n \in Machines : machine'[n] \in ClientsOf(n)
  BY <1>3
<1>5. /\ req' \in [Machines -> UNION {Messages(n) : n \in Machines}]
      /\ \A n \in Machines : req'[n] \in Messages(n)
  BY <1>3
<1>6. DhcpTypes'
  BY <1>1, <1>2, <1>3, <1>4, <1>5 DEF DhcpTypes
<1>7. \A n \in Machines : n # m =>
         machine'[n] = machine[n] /\ req'[n] = req[n] /\ rep'[n] = rep[n]
  BY <1>3
<1>8. ASSUME NEW n \in Machines PROVE Asked(n)'
  <2>1. CASE n # m
    BY <1>1, <1>2, <1>7, <2>1 DEF Asked
  <2> QED
    BY <2>1
<1>9. ASSUME Faithful PROVE Faithful'
  <2>1. Known' = Known
    BY <1>2 DEF Known
  <2>2. Synced' /\ OneEach(Known')
    BY <1>2, <1>9, <2>1 DEF Faithful, Synced
  <2>3. ASSUME NEW n \in Machines PROVE Kept(Known, n)'
    <3>1. CASE n = m
      BY <1>9, <3>1 DEF Faithful
    <3>2. CASE n # m
      BY <1>7, <1>9, <2>1, <3>2 DEF Faithful, Kept
    <3> QED
      BY <3>1, <3>2
  <2> QED
    BY <2>2, <2>3 DEF Faithful
<1> QED
  BY <1>2, <1>6, <1>8, <1>9 DEF DhcpInv

\* What a client is in any state.
LEMMA ClientTypes ==
  ASSUME DhcpTypes, NEW m \in Machines
  PROVE  /\ machine[m] \in ClientsOf(m) /\ req[m] \in Messages(m) /\ rep[m] \in Replies
         /\ machine = [machine EXCEPT ![m] = machine[m]]
         /\ req = [req EXCEPT ![m] = req[m]] /\ rep = [rep EXCEPT ![m] = rep[m]]
         /\ None \in Messages(m) /\ None \in Replies /\ None.op = "none"
<1>1. None \in Messages(m) /\ None \in Replies /\ None.op = "none"
  BY DEF None, Messages, Replies
<1> QED
  BY <1>1 DEF DhcpTypes

\* A machine that asks and has no answer yet, and holds what it held.
LEMMA AskInv ==
  ASSUME DhcpInv, NEW m \in Machines, Elsewhere,
         NEW mc \in ClientsOf(m), NEW q \in Messages(m), Asks(m, mc, q),
         mc.st \in {"bound", "renewing"} =>
            /\ machine[m].st \in {"bound", "renewing"}
            /\ mc.addr = machine[m].addr /\ mc.left = machine[m].left,
         q.op = "DISCOVER" => mc.st \in {"init", "selecting"},
         q.op \in {"DECLINE", "RELEASE"} => mc.st = "init",
         q.op = "REQUEST" =>
            /\ mc.st \in {"requesting", "renewing"} /\ mc.addr = q.addr
            /\ mc.grant <= LeaseTime
            /\ mc.st = "renewing" => mc.left <= LeaseTime,
         q.op = "BOOTP" =>
            reserved = Hosts /\ mc.st = "requesting" /\ mc.addr = Hosts[m]
  PROVE  DhcpInv'
<1>1. DhcpTypes
  BY DEF DhcpInv
<1>2. /\ machine' = [machine EXCEPT ![m] = mc] /\ req' = [req EXCEPT ![m] = q]
      /\ rep' = [rep EXCEPT ![m] = None]
  BY DEF Asks
<1>3. machine'[m] = mc /\ req'[m] = q /\ rep'[m] = None /\ reserved' = reserved
  BY <1>1, <1>2 DEF DhcpTypes, Elsewhere
<1>4. Asked(m)'
  BY <1>3 DEF Asked
<1>5. Known' = Known
  BY DEF Elsewhere, server, Known
<1>6. None \in Replies /\ None.op = "none"
  BY <1>1, ClientTypes
<1>7. Kept(Known, m) => Kept(Known, m)'
  BY <1>3, <1>5, <1>6 DEF Kept
<1> QED
  BY <1>2, <1>4, <1>6, <1>7, ClientInv

\* A machine that comes to another state, or not, by an answer or without.
LEMMA TurnInv ==
  ASSUME DhcpInv, NEW m \in Machines, Elsewhere,
         NEW mc \in ClientsOf(m), machine' = [machine EXCEPT ![m] = mc],
         req' = req \/ req' = [req EXCEPT ![m] = None],
         NEW p \in Replies, rep' = [rep EXCEPT ![m] = p],
         p = None \/ (p = rep[m] /\ mc.st = machine[m].st /\ mc.addr = machine[m].addr
                      /\ mc.grant = machine[m].grant),
         \/ mc.st = "init"
         \/ /\ mc.st = machine[m].st
            /\ mc.addr = machine[m].addr /\ mc.left = machine[m].left
            /\ mc.grant = machine[m].grant
         \/ /\ mc.st = "bound" /\ machine[m].st = "renewing" /\ req[m] = None
            /\ mc.addr = machine[m].addr /\ mc.left = machine[m].left
  PROVE  DhcpInv'
<1>1. DhcpTypes /\ Asked(m)
  BY DEF DhcpInv
<1>2. /\ machine[m] \in ClientsOf(m) /\ req[m] \in Messages(m)
      /\ req = [req EXCEPT ![m] = req[m]]
      /\ None \in Messages(m) /\ None \in Replies /\ None.op = "none"
  BY <1>1, ClientTypes
<1>3. /\ machine'[m] = mc /\ rep'[m] = p /\ reserved' = reserved
      /\ req'[m] = req[m] \/ req'[m] = None
  BY <1>1 DEF DhcpTypes, Elsewhere
<1>4. Asked(m)'
  BY <1>1, <1>2, <1>3 DEF Asked
<1>5. Known' = Known
  BY DEF Elsewhere, server, Known
<1>6. Kept(Known, m) => Kept(Known, m)'
  BY <1>2, <1>3, <1>5 DEF Kept
<1>7. req' = [req EXCEPT ![m] = req[m]] \/ req' = [req EXCEPT ![m] = None]
  BY <1>2
<1> QED
  BY <1>2, <1>4, <1>6, <1>7, ClientInv

\* What a client becomes when it loses its address or has one granted.
LEMMA ClientForms ==
  ASSUME NEW m \in Machines, NEW mc \in ClientsOf(m)
  PROVE  /\ Unbound(mc) \in ClientsOf(m) /\ Unbound(mc).st = "init"
         /\ Bound(mc) \in ClientsOf(m) /\ Bound(mc).st = "bound"
         /\ Bound(mc).addr = mc.addr /\ Bound(mc).left = mc.grant /\ Bound(mc).grant = 0
         /\ 0 \in 0 .. Forever
<1>1. 0 \in 0 .. Forever /\ 0 \in Nat
  BY DhcpAssumption DEF Forever
<1>2. mc.grant \in 0 .. Forever
  BY DEF ClientsOf
<1>3. "init" \in States /\ "bound" \in States
  BY DEF States
<1>4. Unbound(mc) \in ClientsOf(m) /\ Unbound(mc).st = "init"
  BY <1>1, <1>3 DEF ClientsOf, Unbound
<1>5. /\ Bound(mc) \in ClientsOf(m) /\ Bound(mc).st = "bound"
      /\ Bound(mc).addr = mc.addr /\ Bound(mc).left = mc.grant /\ Bound(mc).grant = 0
  BY <1>1, <1>2, <1>3 DEF ClientsOf, Bound
<1> QED
  BY <1>1, <1>4, <1>5

\* The clients' requests.
LEMMA AskingInv ==
  ASSUME DhcpInv, NEW m \in Machines,
         \/ Discover(m) \/ AskAgain(m) \/ Select(m) \/ SelectOther(m) \/ Renew(m)
         \/ BootpRequest(m) \/ Release(m)
  PROVE  DhcpInv'
<1> DEFINE mc == machine[m]
<1>1. DhcpTypes /\ Asked(m)
  BY DEF DhcpInv
<1>2. mc \in ClientsOf(m) /\ rep[m] \in Replies
  BY <1>1, ClientTypes
<1>3. /\ mc.st \in States /\ mc.addr \in Nat /\ mc.clid \in Clids[m]
      /\ mc.left \in 0 .. Forever /\ mc.grant \in 0 .. Forever
      /\ mc.asleep \in BOOLEAN /\ mc.paused \in BOOLEAN
  BY <1>2 DEF ClientsOf
<1>4. LeaseTime \in 0 .. Forever /\ Forever \in 0 .. Forever /\ RenewAt <= LeaseTime
      /\ RenewAt \in Nat /\ LeaseTime \in Nat
  BY TimesAreTimes, DhcpAssumption
<1>5. CASE Discover(m)
  <2>1. PICK a \in {0, mc.addr} :
           Asks(m, [mc EXCEPT !.st = "selecting", !.addr = 0],
                [op |-> "DISCOVER", addr |-> a, clid |-> mc.clid])
    BY <1>5 DEF Discover
  <2> DEFINE new == [mc EXCEPT !.st = "selecting", !.addr = 0]
             q == [op |-> "DISCOVER", addr |-> a, clid |-> mc.clid]
  <2>2. new \in ClientsOf(m) /\ new.st = "selecting"
    BY <1>2 DEF ClientsOf, States
  <2>3. q \in Messages(m) /\ q.op = "DISCOVER"
    BY <1>3 DEF Messages
  <2>4. Elsewhere
    BY <1>5 DEF Discover, Quietly
  <2> HIDE DEF new, q
  <2> QED
    BY <2>1, <2>2, <2>3, <2>4, AskInv DEF new, q
<1>6. CASE AskAgain(m)
  <2> DEFINE new == [mc EXCEPT !.st = "requesting", !.grant = LeaseTime]
             q == Request(m, "reboot", mc.addr)
  <2>1. Asks(m, new, q) /\ Elsewhere
    BY <1>6 DEF AskAgain, Quietly
  <2>2. /\ new \in ClientsOf(m) /\ new.st = "requesting" /\ new.grant = LeaseTime
        /\ new.addr = mc.addr
    BY <1>2, <1>4 DEF ClientsOf, States
  <2>3. q \in Messages(m) /\ q.op = "REQUEST" /\ q.addr = mc.addr
    BY <1>3 DEF Messages, Request
  <2> HIDE DEF new, q
  <2> QED
    BY <1>4, <2>1, <2>2, <2>3, AskInv
<1>7. CASE Select(m) \/ SelectOther(m)
  <2> DEFINE new == [mc EXCEPT !.st = "requesting", !.addr = rep[m].addr,
                               !.grant = LeaseTime]
             p == Request(m, "selecting", rep[m].addr)
             q == [p EXCEPT !.ours = FALSE]
  <2>1. (Asks(m, new, p) \/ Asks(m, new, q)) /\ Elsewhere /\ rep[m].op = "OFFER"
    BY <1>7 DEF Select, SelectOther, Hears, Quietly
  <2>2. rep[m].addr \in Nat
    BY <1>2, <2>1 DEF Replies
  <2>3. /\ new \in ClientsOf(m) /\ new.st = "requesting" /\ new.grant = LeaseTime
        /\ new.addr = rep[m].addr
    BY <1>2, <1>4, <2>2 DEF ClientsOf, States
  <2>4. p \in Messages(m) /\ p.op = "REQUEST" /\ p.addr = rep[m].addr
    BY <1>3, <2>2 DEF Messages, Request
  <2>5. q \in Messages(m) /\ q.op = "REQUEST" /\ q.addr = rep[m].addr
    BY <1>3, <2>2 DEF Messages, Request
  <2> HIDE DEF new, p, q
  <2>6. CASE Asks(m, new, p)
    BY <1>4, <2>1, <2>3, <2>4, <2>6, AskInv
  <2>7. CASE Asks(m, new, q)
    BY <1>4, <2>1, <2>3, <2>5, <2>7, AskInv
  <2> QED
    BY <2>1, <2>6, <2>7
<1>8. CASE Renew(m)
  <2> DEFINE new == [mc EXCEPT !.st = "renewing", !.grant = LeaseTime]
             q == [Request(m, "renew", mc.addr) EXCEPT !.unicast = (mc.left = RenewAt)]
  <2>1. Asks(m, new, q) /\ Elsewhere /\ mc.st = "bound" /\ mc.left <= RenewAt
    BY <1>8 DEF Renew, Quietly
  <2>2. /\ new \in ClientsOf(m) /\ new.st = "renewing" /\ new.grant = LeaseTime
        /\ new.addr = mc.addr /\ new.left = mc.left
    BY <1>2, <1>4 DEF ClientsOf, States
  <2>3. q \in Messages(m) /\ q.op = "REQUEST" /\ q.addr = mc.addr
    BY <1>3 DEF Messages, Request
  <2>4. new.left <= LeaseTime
    BY <1>3, <1>4, <2>1, <2>2 DEF Forever
  <2> HIDE DEF new, q
  <2> QED
    BY <1>4, <2>1, <2>2, <2>3, <2>4, AskInv
<1>9. CASE BootpRequest(m)
  <2> DEFINE new == [mc EXCEPT !.st = "requesting", !.addr = reserved[m], !.grant = Forever]
             q == [op |-> "BOOTP"]
  <2>1. Asks(m, new, q) /\ Elsewhere /\ reserved[m] # 0
    BY <1>9 DEF BootpRequest
  <2>2. reserved = Hosts
    <3>1. reserved \in {Hosts, [n \in Machines |-> 0]}
      BY <1>1 DEF DhcpTypes
    <3> QED
      BY <2>1, <3>1
  <2>3. reserved[m] \in Nat
    BY <2>2, DhcpAssumption
  <2>4. new \in ClientsOf(m) /\ new.st = "requesting" /\ new.addr = Hosts[m]
    BY <1>2, <1>4, <2>2, <2>3 DEF ClientsOf, States
  <2>5. q \in Messages(m) /\ q.op = "BOOTP"
    BY DEF Messages
  <2> HIDE DEF new, q
  <2> QED
    BY <2>1, <2>2, <2>4, <2>5, AskInv
<1>10. CASE Release(m)
  <2> DEFINE new == Unbound(mc)
             q == [op |-> "RELEASE", addr |-> mc.addr, clid |-> mc.clid]
  <2>1. Asks(m, new, q) /\ Elsewhere
    BY <1>10 DEF Release
  <2>2. new \in ClientsOf(m) /\ new.st = "init"
    BY <1>2, ClientForms
  <2>3. q \in Messages(m) /\ q.op = "RELEASE"
    BY <1>3 DEF Messages
  <2> HIDE DEF new, q
  <2> QED
    BY <2>1, <2>2, <2>3, AskInv
<1> QED
  BY <1>5, <1>6, <1>7, <1>8, <1>9, <1>10

\* The address is probed and declined, or it is used from now on.
LEMMA AcceptInv ==
  ASSUME DhcpInv, NEW m \in Machines, Accept(m)
  PROVE  DhcpInv'
<1> DEFINE mc == machine[m]
           decline == [op |-> "DECLINE", addr |-> mc.addr, clid |-> mc.clid]
<1>1. DhcpTypes /\ Asked(m)
  BY DEF DhcpInv
<1>2. /\ mc \in ClientsOf(m) /\ rep[m] \in Replies /\ req[m] \in Messages(m)
      /\ req = [req EXCEPT ![m] = req[m]] /\ None \in Replies /\ None.op = "none"
  BY <1>1, ClientTypes
<1>3. /\ mc.st \in States /\ mc.addr \in Nat /\ mc.clid \in Clids[m]
      /\ mc.left \in 0 .. Forever /\ mc.grant \in 0 .. Forever
  BY <1>2 DEF ClientsOf
<1>4. /\ Elsewhere /\ mc.grant > 0
      /\ \/ rep[m].op = "ACK" /\ mc.st \in {"requesting", "renewing"}
         \/ rep[m].op = "BOOTREPLY" /\ mc.st = "requesting"
      /\ \/ Asks(m, Unbound(mc), decline)
         \/ /\ machine' = [machine EXCEPT ![m] = Bound(mc)]
            /\ rep' = [rep EXCEPT ![m] = None] /\ UNCHANGED req
  BY DEF Accept, Hears, Quietly
<1>5. CASE Asks(m, Unbound(mc), decline)
  <2>1. Unbound(mc) \in ClientsOf(m) /\ Unbound(mc).st = "init"
    BY <1>2, ClientForms
  <2>2. decline \in Messages(m) /\ decline.op = "DECLINE"
    BY <1>3 DEF Messages
  <2> HIDE DEF decline
  <2> QED
    BY <1>4, <1>5, <2>1, <2>2, AskInv
<1>6. CASE /\ machine' = [machine EXCEPT ![m] = Bound(mc)]
           /\ rep' = [rep EXCEPT ![m] = None] /\ UNCHANGED req
  <2>1. /\ Bound(mc) \in ClientsOf(m) /\ Bound(mc).st = "bound"
        /\ Bound(mc).addr = mc.addr /\ Bound(mc).left = mc.grant /\ Bound(mc).grant = 0
    BY <1>2, ClientForms
  <2>2. /\ machine'[m] = Bound(mc) /\ rep'[m] = None /\ req'[m] = req[m]
        /\ reserved' = reserved /\ Known' = Known
    BY <1>1, <1>4, <1>6 DEF DhcpTypes, Elsewhere, server, Known
  <2>3. Kept(Known, m) => Kept(Known, m)'
    <3>1. Kept(Known, m) => Leased(Known, m, mc.addr, mc.grant)
      BY <1>4 DEF Kept
    <3> HIDE DEF mc
    <3> QED
      BY <1>2, <1>4, <2>1, <2>2, <3>1 DEF Kept
  <2>4. Asked(m)'
    <3>1. 0 <= LeaseTime
      BY TimesAreTimes DEF Forever
    <3> QED
      BY <1>1, <1>4, <2>1, <2>2, <3>1 DEF Asked
  <2> QED
    BY <1>2, <1>4, <1>6, <2>1, <2>3, <2>4, ClientInv
<1> QED
  BY <1>4, <1>5, <1>6

\* What else happens to one machine and its packets.
LEMMA TurningInv ==
  ASSUME DhcpInv, NEW m \in Machines,
         \/ Refused(m) \/ TimedOut(m) \/ Discard(m) \/ Reboot(m) \/ Sleep(m) \/ Wake(m)
         \/ LoseRequest(m) \/ LoseReply(m)
  PROVE  DhcpInv'
<1> DEFINE mc == machine[m]
<1>1. DhcpTypes
  BY DEF DhcpInv
<1>2. /\ mc \in ClientsOf(m) /\ rep[m] \in Replies /\ None \in Replies
      /\ machine = [machine EXCEPT ![m] = machine[m]]
      /\ rep = [rep EXCEPT ![m] = rep[m]]
  BY <1>1, ClientTypes
<1>3. /\ mc.st \in States /\ mc.addr \in Nat /\ mc.clid \in Clids[m]
      /\ mc.left \in 0 .. Forever /\ mc.grant \in 0 .. Forever /\ 0 \in 0 .. Forever
  BY <1>2, ClientForms DEF ClientsOf
<1>4. Unbound(mc) \in ClientsOf(m) /\ Unbound(mc).st = "init"
  BY <1>2, ClientForms
<1>5. CASE Refused(m)
  <2>1. /\ machine' = [machine EXCEPT ![m] = Unbound(mc)]
        /\ rep' = [rep EXCEPT ![m] = None] /\ req' = req /\ Elsewhere
    BY <1>5 DEF Refused, Quietly
  <2> QED
    BY <1>2, <1>4, <2>1, TurnInv
<1>6. CASE TimedOut(m)
  <2>1. /\ machine' = [machine EXCEPT ![m] = GivenUp(mc)]
        /\ rep' = rep /\ req' = req /\ Elsewhere /\ req[m] = None /\ rep[m] = None
    BY <1>6 DEF TimedOut, Quietly
  <2>2. rep' = [rep EXCEPT ![m] = None]
    BY <1>2, <2>1
  <2>3. CASE mc.st = "renewing"
    <3> DEFINE new == [mc EXCEPT !.st = "bound", !.paused = TRUE, !.grant = 0]
    <3>1. /\ new \in ClientsOf(m) /\ new.st = "bound" /\ new.addr = mc.addr
          /\ new.left = mc.left /\ GivenUp(mc) = new
      BY <1>2, <1>3, <2>3 DEF ClientsOf, States, GivenUp
    <3> HIDE DEF new
    <3> QED
      BY <1>2, <2>1, <2>2, <2>3, <3>1, TurnInv, ZenonT(60)
  <2>4. CASE mc.st # "renewing"
    <3>1. GivenUp(mc) = Unbound(mc)
      BY <2>4 DEF GivenUp
    <3> QED
      BY <1>2, <1>4, <2>1, <2>2, <3>1, TurnInv
  <2> QED
    BY <2>3, <2>4
<1>7. CASE Discard(m)
  <2>1. machine' = machine /\ rep' = [rep EXCEPT ![m] = None] /\ req' = req /\ Elsewhere
    BY <1>7 DEF Discard, Quietly
  <2> QED
    BY <1>2, <2>1, TurnInv
<1>8. CASE Reboot(m)
  <2>1. PICK c \in Clids[m], keep \in BOOLEAN :
           machine' = [machine EXCEPT ![m] =
              [Blank EXCEPT !.clid = c, !.addr = IF keep THEN machine[m].addr ELSE 0]]
    BY <1>8 DEF Reboot
  <2> DEFINE new == [Blank EXCEPT !.clid = c, !.addr = IF keep THEN mc.addr ELSE 0]
  <2>2. new \in ClientsOf(m) /\ new.st = "init"
    BY <1>3 DEF Blank, ClientsOf, States
  <2>3. rep' = [rep EXCEPT ![m] = None] /\ req' = req /\ Elsewhere
    BY <1>8 DEF Reboot
  <2>4. machine' = [machine EXCEPT ![m] = new]
    BY <2>1
  <2> HIDE DEF new
  <2> QED
    BY <1>2, <2>2, <2>3, <2>4, TurnInv
<1>9. CASE Sleep(m) \/ Wake(m)
  <2>1. PICK b \in BOOLEAN : machine' = [machine EXCEPT ![m].asleep = b]
    BY <1>9 DEF Sleep, Wake
  <2> DEFINE new == [mc EXCEPT !.asleep = b]
  <2>2. /\ new \in ClientsOf(m) /\ new.st = mc.st /\ new.addr = mc.addr
        /\ new.left = mc.left /\ new.grant = mc.grant
    BY <1>2 DEF ClientsOf
  <2>3. rep' = rep /\ req' = req /\ Elsewhere
    BY <1>9 DEF Sleep, Wake, Quietly
  <2>4. machine' = [machine EXCEPT ![m] = new]
    BY <2>1
  <2> HIDE DEF new
  <2> QED
    BY <1>2, <2>2, <2>3, <2>4, TurnInv
<1>10. CASE LoseRequest(m)
  <2>1. machine' = machine /\ rep' = rep /\ req' = [req EXCEPT ![m] = None] /\ Elsewhere
    BY <1>10 DEF LoseRequest
  <2> QED
    BY <1>2, <2>1, TurnInv
<1>11. CASE LoseReply(m)
  <2>1. machine' = machine /\ rep' = [rep EXCEPT ![m] = None] /\ req' = req /\ Elsewhere
    BY <1>11 DEF LoseReply
  <2> QED
    BY <1>2, <2>1, TurnInv
<1> QED
  BY <1>5, <1>6, <1>7, <1>8, <1>9, <1>10, <1>11

\* A grant for less is as good after a tick as before.
LEMMA LessTypes ==
  ASSUME NEW x \in 0 .. Forever, NEW y \in 0 .. Forever
  PROVE  /\ Less(x) \in 0 .. Forever /\ Less(x) <= x
         /\ x >= y => Less(x) >= Less(y)
         /\ Less(x) > 0 => x > 0
         /\ x > 0 /\ x # 1 => Less(x) > 0
<1>1. Forever \in Nat /\ Forever # 1
  BY DhcpAssumption DEF Forever
<1> QED
  BY <1>1 DEF Less

\* All entries of a list get older.
LEMMA ElapsedSet ==
  ASSUME NEW ls \in Seq(Lease)
  PROVE  /\ Elapsed(ls) \in Seq(Lease)
         /\ ToSet(Elapsed(ls)) = {[l EXCEPT !.left = Less(@)] : l \in ToSet(ls)}
<1>1. Len(ls) \in Nat /\ DOMAIN ls = 1 .. Len(ls) /\ \A i \in 1 .. Len(ls) : ls[i] \in Lease
  OBVIOUS
<1>2. ASSUME NEW l \in Lease PROVE [l EXCEPT !.left = Less(@)] \in Lease
  <2>1. l.left \in 0 .. Forever
    BY DEF Lease
  <2>2. Less(l.left) \in 0 .. Forever
    BY <2>1, LessTypes
  <2> QED
    BY <2>2 DEF Lease
<1>3. /\ DOMAIN Elapsed(ls) = 1 .. Len(ls)
      /\ \A i \in 1 .. Len(ls) : Elapsed(ls)[i] = [ls[i] EXCEPT !.left = Less(@)]
      /\ Elapsed(ls) = [i \in 1 .. Len(ls) |-> Elapsed(ls)[i]]
  BY <1>1 DEF Elapsed
<1>4. \A i \in 1 .. Len(ls) : Elapsed(ls)[i] \in Lease
  BY <1>1, <1>2, <1>3
<1>5. Elapsed(ls) \in Seq(Lease)
  BY <1>1, <1>3, <1>4
<1>6. ToSet(Elapsed(ls)) = {[l EXCEPT !.left = Less(@)] : l \in ToSet(ls)}
  BY SMTT(60), <1>1, <1>3 DEF ToSet
<1> QED
  BY <1>5, <1>6

\* The clock.
LEMMA TickInv ==
  ASSUME DhcpInv, Tick
  PROVE  DhcpInv'
<1>1. DhcpTypes /\ \A m \in Machines : Asked(m)
  BY DEF DhcpInv
<1>2. /\ leases' = Elapsed(leases) /\ file' = Elapsed(file)
      /\ machine' = [m \in Machines |-> Aged(machine[m])]
      /\ dirty' = dirty /\ epoch' = epoch /\ req' = req /\ rep' = rep
      /\ reserved' = reserved /\ up' = up /\ full' = full /\ lost' = lost
  BY DEF Tick, Passed
<1>3. leases \in Seq(Lease) /\ file \in Seq(Lease)
  BY <1>1 DEF DhcpTypes
<1>4. /\ leases' \in Seq(Lease) /\ file' \in Seq(Lease)
      /\ ToSet(leases') = {[l EXCEPT !.left = Less(@)] : l \in ToSet(leases)}
      /\ ToSet(file') = {[l EXCEPT !.left = Less(@)] : l \in ToSet(file)}
  BY <1>2, <1>3, ElapsedSet
<1>5. ASSUME NEW m \in Machines
      PROVE  /\ machine'[m] = Aged(machine[m]) /\ machine'[m] \in ClientsOf(m)
             /\ machine[m].left \in 0 .. Forever /\ machine[m].grant \in 0 .. Forever
             /\ \/ machine'[m].st = "init"
                \/ /\ machine'[m].st = machine[m].st /\ machine'[m].addr = machine[m].addr
                   /\ machine'[m].left = Less(machine[m].left)
                   /\ machine'[m].grant = Less(machine[m].grant)
                   /\ machine[m].st \in {"bound", "renewing"} => machine[m].left # 1
             /\ machine[m].st \in {"init", "selecting", "requesting"} =>
                   machine'[m].st = machine[m].st
  <2> DEFINE mc == machine[m]
             ended == [mc EXCEPT !.st = "init", !.left = 0, !.grant = 0, !.paused = FALSE]
             goes == [mc EXCEPT !.left = Less(@), !.grant = Less(@), !.paused = FALSE]
  <2>1. mc \in ClientsOf(m)
    BY <1>1 DEF DhcpTypes
  <2>2. mc.left \in 0 .. Forever /\ mc.grant \in 0 .. Forever /\ 0 \in 0 .. Forever
    BY <2>1, ClientForms DEF ClientsOf
  <2>3. Less(mc.left) \in 0 .. Forever /\ Less(mc.grant) \in 0 .. Forever
    BY <2>2, LessTypes
  <2>4. ended \in ClientsOf(m) /\ ended.st = "init"
    BY <2>1, <2>2 DEF ClientsOf, States
  <2>5. /\ goes \in ClientsOf(m) /\ goes.st = mc.st /\ goes.addr = mc.addr
        /\ goes.left = Less(mc.left) /\ goes.grant = Less(mc.grant)
    BY <2>1, <2>3 DEF ClientsOf
  <2>6. machine'[m] = Aged(mc)
    BY <1>2
  <2>7. Aged(mc) = IF mc.st \in {"bound", "renewing"} /\ mc.left = 1 THEN ended ELSE goes
    BY DEF Aged
  <2> HIDE DEF mc, ended, goes
  <2>8. \/ machine'[m] = ended /\ mc.st \in {"bound", "renewing"}
        \/ machine'[m] = goes /\ ~ (mc.st \in {"bound", "renewing"} /\ mc.left = 1)
    BY <2>6, <2>7
  <2>9. \/ machine'[m] \in ClientsOf(m) /\ machine'[m].st = "init"
           /\ mc.st \in {"bound", "renewing"}
        \/ /\ machine'[m] \in ClientsOf(m) /\ machine'[m].st = mc.st
           /\ machine'[m].addr = mc.addr /\ machine'[m].left = Less(mc.left)
           /\ machine'[m].grant = Less(mc.grant)
           /\ mc.st \in {"bound", "renewing"} => mc.left # 1
    BY <2>4, <2>5, <2>8
  <2> QED
    BY <2>2, <2>6, <2>9 DEF mc
<1>6. machine' \in [Machines -> UNION {ClientsOf(m) : m \in Machines}]
  <2>1. \A m \in Machines : machine'[m] \in UNION {ClientsOf(n) : n \in Machines}
    BY <1>5
  <2> QED
    BY <1>2, <2>1
<1>7. DhcpTypes'
  BY <1>1, <1>2, <1>4, <1>5, <1>6 DEF DhcpTypes
<1>8. ASSUME NEW m \in Machines PROVE Asked(m)'
  <2> DEFINE mc == machine[m]
             new == machine'[m]
  <2>1. /\ new.st = "init" \/ (new.st = mc.st /\ new.addr = mc.addr
                               /\ new.left = Less(mc.left) /\ new.grant = Less(mc.grant))
        /\ mc.st \in {"init", "selecting", "requesting"} => new.st = mc.st
        /\ Less(mc.left) <= mc.left /\ Less(mc.grant) <= mc.grant
        /\ Less(mc.left) \in Int /\ Less(mc.grant) \in Int /\ mc.left \in Int /\ mc.grant \in Int
    <3>1. mc.left \in 0 .. Forever /\ mc.grant \in 0 .. Forever
      BY <1>5
    <3>2. /\ Less(mc.left) <= mc.left /\ Less(mc.grant) <= mc.grant
          /\ Less(mc.left) \in 0 .. Forever /\ Less(mc.grant) \in 0 .. Forever
      BY <3>1, LessTypes
    <3> QED
      BY <1>5, <3>1, <3>2
  <2>2. LeaseTime \in Int
    BY DhcpAssumption
  <2>3. Asked(m) /\ req'[m] = req[m] /\ reserved' = reserved
    BY <1>1, <1>2
  <2>4. req[m].op = "DISCOVER" => new.st \in {"init", "selecting"}
    BY <2>1, <2>3 DEF Asked
  <2>5. req[m].op \in {"DECLINE", "RELEASE"} => new.st = "init"
    BY <2>1, <2>3 DEF Asked
  <2>6. req[m].op = "REQUEST" =>
          \/ new.st = "init"
          \/ /\ new.st \in {"requesting", "bound", "renewing"}
             /\ new.addr = req[m].addr
             /\ new.grant <= LeaseTime
             /\ new.st # "requesting" => new.left <= LeaseTime
    <3>1. ASSUME req[m].op = "REQUEST", new.st # "init"
          PROVE  /\ mc.st \in {"requesting", "bound", "renewing"}
                 /\ mc.addr = req[m].addr /\ mc.grant <= LeaseTime
                 /\ mc.st # "requesting" => mc.left <= LeaseTime
      BY <2>1, <2>3, <3>1 DEF Asked
    <3> HIDE DEF mc, new
    <3> QED
      BY <2>1, <2>2, <3>1
  <2>7. req[m].op = "BOOTP" =>
          /\ reserved = Hosts
          /\ \/ new.st = "init"
             \/ new.st \in {"requesting", "bound"} /\ new.addr = Hosts[m]
    BY <2>1, <2>3 DEF Asked
  <2> QED
    BY <2>3, <2>4, <2>5, <2>6, <2>7 DEF Asked
<1>9. ASSUME Faithful PROVE Faithful'
  <2>1. Known' = Elapsed(Known) /\ Known \in Seq(Lease)
    BY <1>2, <1>3 DEF Known
  <2>2. ToSet(Known') = {[l EXCEPT !.left = Less(@)] : l \in ToSet(Known)}
    BY <2>1, ElapsedSet
  <2>3. Synced'
    BY <1>2, <1>4, <1>9 DEF Faithful, Synced
  <2>4. \A l \in ToSet(Known) :
           /\ [l EXCEPT !.left = Less(@)].addr = l.addr
           /\ [l EXCEPT !.left = Less(@)].mac = l.mac
           /\ [l EXCEPT !.left = Less(@)].left = Less(l.left)
           /\ l.left \in 0 .. Forever
    <3>1. \A l \in ToSet(Known) : l \in Lease
      BY <2>1, EntryTypes
    <3> QED
      BY <3>1 DEF Lease
  <2>5. OneEach(Known')
    <3>1. OneEach(Known)
      BY <1>9 DEF Faithful
    <3>2. ASSUME NEW j \in ToSet(Known'), NEW k \in ToSet(Known'), j.addr = k.addr
          PROVE  j = k
      <4>1. PICK u \in ToSet(Known) : j = [u EXCEPT !.left = Less(@)]
        BY <2>2
      <4>2. PICK v \in ToSet(Known) : k = [v EXCEPT !.left = Less(@)]
        BY <2>2
      <4>3. u.addr = v.addr
        BY <2>4, <3>2, <4>1, <4>2
      <4> QED
        BY <3>1, <4>1, <4>2, <4>3 DEF OneEach
    <3> QED
      BY <3>2 DEF OneEach
  <2>6. ASSUME NEW m, NEW a, NEW t \in 0 .. Forever, Leased(Known, m, a, t)
        PROVE  Leased(Known', m, a, Less(t))
    <3>1. PICK l \in ToSet(Known) : l.addr = a /\ l.mac = m /\ l.left >= t
      BY <2>6 DEF Leased
    <3>2. Less(l.left) >= Less(t)
      BY <2>4, <3>1, LessTypes
    <3>3. [l EXCEPT !.left = Less(@)] \in ToSet(Known')
      BY <2>2
    <3> QED
      BY <2>4, <3>1, <3>2, <3>3 DEF Leased
  <2>7. ASSUME NEW m \in Machines PROVE Kept(Known, m)'
    <3> DEFINE mc == machine[m]
               new == machine'[m]
    <3>1. /\ mc.left \in 0 .. Forever /\ mc.grant \in 0 .. Forever
          /\ \/ new.st = "init"
             \/ /\ new.st = mc.st /\ new.addr = mc.addr
                /\ new.left = Less(mc.left) /\ new.grant = Less(mc.grant)
                /\ mc.st \in {"bound", "renewing"} => mc.left # 1
      BY <1>5
    <3>2. Kept(Known, m) /\ rep'[m] = rep[m]
      BY <1>2, <1>9 DEF Faithful
    <3>3. ASSUME new.st \in {"bound", "renewing"}
          PROVE  new.left > 0 /\ Leased(Known', m, new.addr, new.left)
      <4>1. mc.left > 0 /\ mc.left # 1 /\ Leased(Known, m, mc.addr, mc.left)
        BY <3>1, <3>2, <3>3 DEF Kept
      <4>2. Less(mc.left) > 0 /\ Leased(Known', m, mc.addr, Less(mc.left))
        BY <2>6, <3>1, <4>1, LessTypes
      <4> QED
        BY <3>1, <3>3, <4>2
    <3>4. ASSUME rep'[m].op \in {"ACK", "BOOTREPLY"},
                 new.st \in {"requesting", "renewing"}, new.grant > 0
          PROVE  Leased(Known', m, new.addr, new.grant)
      <4>1. /\ new.st = mc.st /\ new.addr = mc.addr /\ new.grant = Less(mc.grant)
            /\ Less(mc.grant) > 0
        BY <3>1, <3>4
      <4>2. mc.grant > 0
        BY <3>1, <4>1, LessTypes
      <4>3. Leased(Known, m, mc.addr, mc.grant)
        BY <3>2, <3>4, <4>1, <4>2 DEF Kept
      <4>4. Leased(Known', m, mc.addr, Less(mc.grant))
        BY <2>6, <3>1, <4>3
      <4> QED
        BY <4>1, <4>4
    <3> QED
      BY <3>3, <3>4 DEF Kept
  <2> QED
    BY <2>3, <2>5, <2>7 DEF Faithful
<1> QED
  BY <1>2, <1>7, <1>8, <1>9 DEF DhcpInv

\* The server's own steps, and what happens to it.
LEMMA ServerInv ==
  ASSUME DhcpInv, Alarm \/ Crash \/ LeaseInit \/ Reload
  PROVE  DhcpInv'
<1>1. DhcpTypes /\ \A m \in Machines : Asked(m)
  BY DEF DhcpInv
<1>2. leases \in Seq(Lease) /\ file \in Seq(Lease) /\ <<>> \in Seq(Lease)
  BY <1>1 DEF DhcpTypes
<1>3. machine' = machine /\ req' = req /\ rep' = rep
  BY DEF Alarm, Crash, LeaseInit, Reload
<1>4. (\A m \in Machines : Asked(m)') /\ reserved' \in {reserved, Hosts}
  <2>1. reserved' = reserved \/ reserved' = Hosts
    BY DEF Alarm, Crash, LeaseInit, Reload
  <2> QED
    BY <1>1, <1>3, <2>1 DEF Asked
<1>6. ASSUME /\ leases' \in Seq(Lease) /\ file' \in Seq(Lease)
             /\ {dirty', up', full', lost'} \subseteq BOOLEAN /\ epoch' \in Nat,
             lost' \/ Faithful'
      PROVE  DhcpInv'
  <2>1. DhcpTypes'
    BY <1>1, <1>3, <1>4, <1>6 DEF DhcpTypes
  <2> QED
    BY <1>4, <1>6, <2>1 DEF DhcpInv
<1>7. CASE Alarm
  <2>1. /\ leases' = Pruned(leases) /\ UpdateFile(Pruned(leases), TRUE)
        /\ up /\ up' = up /\ full' = full /\ lost' = lost /\ epoch' = epoch
    BY <1>7 DEF Alarm
  <2>2. Pruned(leases) \in Seq(Lease)
    BY <1>2, ListFacts
  <2>3. file' \in Seq(Lease) /\ dirty' \in BOOLEAN /\ Synced'
    BY <1>1, <2>1, <2>2, FileSynced
  <2>4. ASSUME Faithful PROVE Faithful'
    <3>1. Known = leases /\ Known' = leases'
      BY <2>1 DEF Known
    <3>2. OneEach(Known) /\ \A m \in Machines : Kept(Known, m)
      BY <2>4 DEF Faithful
    <3>3. OneEach(Known') /\ \A m \in Machines : Kept(leases', m)
      BY <1>1, <1>2, <2>1, <3>1, <3>2, PruneKeeps, KeptByPruning
    <3> QED
      BY <1>3, <2>3, <3>1, <3>3 DEF Faithful, Kept
  <2> QED
    BY <1>1, <1>6, <2>1, <2>2, <2>3, <2>4 DEF DhcpInv, DhcpTypes
<1>8. CASE Crash
  <2>1. /\ up /\ up' = FALSE /\ leases' = <<>> /\ dirty' = FALSE /\ epoch' = 0 /\ full' = full
        /\ \/ file' = file /\ lost' = (lost \/ dirty)
           \/ file' = <<>> /\ lost' = TRUE
    BY <1>8 DEF Crash
  <2>2. ASSUME Faithful, ~dirty, file' = file PROVE Faithful'
    <3>1. Known = leases /\ Known' = file
      BY <2>1, <2>2 DEF Known
    <3>2. ToSet(file) = ToSet(leases)
      BY <2>1, <2>2 DEF Faithful, Synced
    <3>3. OneEach(Known) /\ \A m \in Machines : Kept(Known, m)
      BY <2>2 DEF Faithful
    <3>4. OneEach(file) /\ \A m \in Machines : Kept(file, m)
      BY <3>1, <3>2, <3>3, KeptBySet
    <3>5. Synced'
      BY <2>1 DEF Synced
    <3> QED
      BY <1>3, <3>1, <3>4, <3>5 DEF Faithful, Kept
  <2>3. lost' \/ Faithful'
    BY <1>1, <2>1, <2>2 DEF DhcpInv
  <2>4. {dirty', up', full', lost'} \subseteq BOOLEAN /\ epoch' \in Nat
    BY <1>1, <2>1 DEF DhcpTypes
  <2> QED
    BY <1>2, <1>6, <2>1, <2>3, <2>4
<1>9. CASE LeaseInit
  <2>1. /\ ~up /\ up' = TRUE /\ leases' = Pruned(Reverse(file))
        /\ dirty' = (leases' # Reverse(file))
        /\ file' = file /\ epoch' = epoch /\ full' = full /\ lost' = lost
    BY <1>9 DEF LeaseInit
  <2>2. Reverse(file) \in Seq(Lease) /\ ToSet(Reverse(file)) = ToSet(file)
    BY <1>2, ListFacts
  <2>3. Pruned(Reverse(file)) \in Seq(Lease)
    BY <2>2, ListFacts
  <2>4. ASSUME Faithful PROVE Faithful'
    <3>1. Known = file /\ Known' = leases'
      BY <2>1 DEF Known
    <3>2. OneEach(Known) /\ \A m \in Machines : Kept(Known, m)
      BY <2>4 DEF Faithful
    <3>3. OneEach(Reverse(file)) /\ \A m \in Machines : Kept(Reverse(file), m)
      BY <2>2, <3>1, <3>2, KeptBySet
    <3>4. OneEach(Known') /\ \A m \in Machines : Kept(leases', m)
      BY <1>1, <2>1, <2>2, <3>1, <3>3, PruneKeeps, KeptByPruning
    <3>5. Synced'
      BY <2>1, <2>2 DEF Synced
    <3> QED
      BY <1>3, <3>1, <3>4, <3>5 DEF Faithful, Kept
  <2>5. {dirty', up', full', lost'} \subseteq BOOLEAN /\ epoch' \in Nat
    BY <1>1, <2>1 DEF DhcpTypes
  <2> QED
    BY <1>2, <1>6, <2>1, <2>3, <2>4, <2>5 DEF DhcpInv
<1>10. CASE Reload
  <2>1. /\ leases' = leases /\ UpdateFile(leases, dirty)
        /\ up /\ up' = up /\ full' = full /\ lost' = lost /\ epoch' = epoch
    BY <1>10 DEF Reload
  <2>2. dirty \in BOOLEAN
    BY <1>1 DEF DhcpTypes
  <2>3. /\ file' \in Seq(Lease) /\ dirty' \in BOOLEAN
        /\ Synced => Synced'
    BY <1>1, <1>2, <2>1, <2>2, FileSynced
  <2>4. ASSUME Faithful PROVE Faithful'
    <3>1. Known' = Known
      BY <2>1 DEF Known
    <3> QED
      BY <1>3, <2>3, <2>4, <3>1 DEF Faithful, Kept
  <2>5. {dirty', up', full', lost'} \subseteq BOOLEAN /\ epoch' \in Nat
    BY <1>1, <2>1, <2>3 DEF DhcpTypes
  <2> QED
    BY <1>2, <1>6, <2>1, <2>3, <2>4, <2>5 DEF DhcpInv
<1> QED
  BY <1>7, <1>8, <1>9, <1>10

\* The other hosts and the file system have no part in it.
LEMMA SurroundingsInv ==
  ASSUME DhcpInv,
         Leave \/ DiskFull \/ DiskFree \/ (\E a \in Addrs : Intrude(a)) \/ UNCHANGED vars
  PROVE  DhcpInv'
<1>1. /\ leases' = leases /\ dirty' = dirty /\ file' = file /\ epoch' = epoch
      /\ machine' = machine /\ req' = req /\ rep' = rep
      /\ reserved' = reserved /\ up' = up /\ lost' = lost
      /\ full' \in {full, TRUE, FALSE}
  BY DEF Leave, DiskFull, DiskFree, Intrude, vars, server, world
<1>2. DhcpTypes /\ (\A m \in Machines : Asked(m)) /\ (lost \/ Faithful)
  BY DEF DhcpInv
<1>3. DhcpTypes'
  BY <1>1, <1>2 DEF DhcpTypes
<1>4. \A m \in Machines : Asked(m)'
  BY <1>1, <1>2 DEF Asked
<1>5. Faithful => Faithful'
  <2>1. Known' = Known
    BY <1>1 DEF Known
  <2> QED
    BY <1>1, <2>1 DEF Faithful, Synced, Kept
<1> QED
  BY <1>1, <1>2, <1>3, <1>4, <1>5 DEF DhcpInv

\* The server starts with no leases and the machines with no addresses.
LEMMA InitDhcp == Init => DhcpInv
<1> SUFFICES ASSUME Init PROVE DhcpInv
  OBVIOUS
<1>1. /\ leases = <<>> /\ dirty = FALSE /\ file = <<>> /\ epoch = 0
      /\ reserved = [m \in Machines |-> 0] /\ up = TRUE /\ full = FALSE /\ lost = FALSE
      /\ req = [m \in Machines |-> None] /\ rep = [m \in Machines |-> None]
  BY DEF Init
<1>2. ASSUME NEW m \in Machines
      PROVE  /\ machine[m] \in ClientsOf(m) /\ machine[m].st = "init"
             /\ None \in Messages(m) /\ None \in Replies /\ None.op = "none"
  <2>1. PICK c \in UNION {Clids[n] : n \in Machines} : machine[m] = [Blank EXCEPT !.clid = c]
    BY DEF Init
  <2>2. machine[m].clid = c /\ machine[m].clid \in Clids[m]
    BY <2>1 DEF Init, Blank
  <2>3. 0 \in 0 .. Forever /\ 0 \in Nat
    BY DhcpAssumption DEF Forever
  <2>4. machine[m] \in ClientsOf(m) /\ machine[m].st = "init"
    BY <2>1, <2>2, <2>3 DEF ClientsOf, States, Blank
  <2>5. None \in Messages(m) /\ None \in Replies /\ None.op = "none"
    BY DEF None, Messages, Replies
  <2> QED
    BY <2>4, <2>5
<1>3. /\ machine \in [Machines -> UNION {ClientsOf(m) : m \in Machines}]
      /\ req \in [Machines -> UNION {Messages(m) : m \in Machines}]
      /\ rep \in [Machines -> Replies]
  <2>1. DOMAIN machine = Machines /\ machine = [m \in Machines |-> machine[m]]
    BY DEF Init
  <2> QED
    BY <1>1, <1>2, <2>1
<1>4. DhcpTypes
  <2>1. leases \in Seq(Lease) /\ file \in Seq(Lease) /\ epoch \in Nat
    BY <1>1
  <2>2. {dirty, up, full, lost} \subseteq BOOLEAN
    BY <1>1
  <2>3. reserved \in {Hosts, [m \in Machines |-> 0]}
    BY <1>1
  <2>4. \A m \in Machines : req[m] \in Messages(m)
    BY <1>1, <1>2
  <2> QED
    BY <1>2, <1>3, <2>1, <2>2, <2>3, <2>4, Zenon DEF DhcpTypes
<1>5. \A m \in Machines : Asked(m)
  BY <1>1, <1>2 DEF Asked
<1>6. Synced /\ OneEach(Known)
  BY <1>1 DEF Synced, Known, OneEach, ToSet
<1>7. ASSUME NEW m \in Machines PROVE Kept(Known, m)
  BY <1>1, <1>2 DEF Kept
<1> QED
  BY <1>4, <1>5, <1>6, <1>7 DEF DhcpInv, Faithful

\* Every step keeps the invariant.
LEMMA StepDhcp == DhcpInv /\ [Next]_vars => DhcpInv'
<1> SUFFICES ASSUME DhcpInv, [Next]_vars PROVE DhcpInv'
  OBVIOUS
<1>1. CASE \E m \in Machines :
             \/ Discover(m) \/ AskAgain(m) \/ Select(m) \/ SelectOther(m) \/ Renew(m)
             \/ BootpRequest(m) \/ Release(m)
  BY <1>1, AskingInv
<1>2. CASE \E m \in Machines : Accept(m)
  BY <1>2, AcceptInv
<1>3. CASE \E m \in Machines :
             \/ Refused(m) \/ TimedOut(m) \/ Discard(m) \/ Reboot(m) \/ Sleep(m) \/ Wake(m)
             \/ LoseRequest(m) \/ LoseReply(m)
  BY <1>3, TurningInv
<1>4. CASE \E m \in Machines : DhcpPacket(m) \/ TwicePacket(m)
  BY <1>4, PacketInv DEF DhcpPacket, TwicePacket
<1>5. CASE Tick
  BY <1>5, TickInv
<1>6. CASE Alarm \/ Crash \/ LeaseInit \/ Reload
  BY <1>6, ServerInv
<1>7. CASE Leave \/ DiskFull \/ DiskFree \/ (\E a \in Addrs : Intrude(a)) \/ UNCHANGED vars
  BY <1>7, SurroundingsInv
<1> QED
  BY <1>1, <1>2, <1>3, <1>4, <1>5, <1>6, <1>7 DEF Next, GoOn, Incident

\* The invariant holds in every state: the types, which message goes with which
\* state of its machine, and, unless a crash took leases, that the file is as
\* the list when it is not dirty, that an address has one entry, and that what a
\* machine holds or has been told is in the list for at least as long.
THEOREM DhcpInvariant == Spec => []DhcpInv
BY InitDhcp, StepDhcp, PTL DEF Spec

\* The invariant is enough.
LEMMA SoundByInv == DhcpInv => LeasesSound
<1> SUFFICES ASSUME DhcpInv, ~lost PROVE LeasesSound
  BY DEF LeasesSound, NoTwoHolders, HeldIsLeased
<1>1. OneEach(Known) /\ \A m \in Machines : Kept(Known, m)
  BY DEF DhcpInv, Faithful
<1>2. ASSUME NEW m \in Machines, NEW n \in Machines, NEW a, Holds(m, a), Holds(n, a)
      PROVE  m = n
  <2>1. PICK k \in ToSet(Known) : k.addr = a /\ k.mac = m
    BY <1>1, <1>2 DEF Holds, Kept, Leased
  <2>2. PICK l \in ToSet(Known) : l.addr = a /\ l.mac = n
    BY <1>1, <1>2 DEF Holds, Kept, Leased
  <2>3. k = l
    BY <1>1, <2>1, <2>2 DEF OneEach
  <2> QED
    BY <2>1, <2>2, <2>3
<1>3. ASSUME NEW m \in Machines, machine[m].st \in {"bound", "renewing"}
      PROVE  \E i \in DOMAIN Known : /\ Known[i].addr = machine[m].addr
                                     /\ Known[i].mac = m
                                     /\ Known[i].left >= machine[m].left
  BY <1>1, <1>3 DEF Kept, Leased, ToSet
<1> QED
  BY <1>2, <1>3 DEF LeasesSound, NoTwoHolders, HeldIsLeased

\* No two machines use one address, and what a machine uses the server knows, for
\* any number of machines, addresses, reservations and mishaps, and whatever the
\* hash (address_available, lease_find_by_addr, dhcp_reply, lease_update_file).
THEOREM LeasesHold == Spec => []LeasesSound
BY DhcpInvariant, SoundByInv, PTL
=============================================================================
