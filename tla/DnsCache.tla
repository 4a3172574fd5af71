------------------------------ MODULE DnsCache ------------------------------
(***************************************************************************)
(* The name cache of dnsmasq (cache.c): the records it keeps, in the hash  *)
(* chains and on the list of the least recently used; the insertion of an  *)
(* upstream answer as one transaction (extract_addresses of rfc1035.c) or  *)
(* from the pipe of a TCP child (cache_recv_insert); the answers given out *)
(* of it (answer_request); /etc/hosts and the names of DHCP leases.        *)
(*                                                                         *)
(* Local names are single labels, so make_non_terminals makes nothing of   *)
(* them; /etc/hosts has IPv4 addresses, and leases have no end.  Times     *)
(* are relative: ttd is what remains of a record's time to live.  DNSSEC   *)
(* is not compiled in; the configuration has no CNAMEs of its own.         *)
(***************************************************************************)
EXTENDS Integers, FiniteSets, SequencesExt, FiniteSetsExt

CONSTANTS Names,        \* of the questions and answers
          Bucket,       \* the hash bucket of each name
          LongNames,    \* those that do not fit in a record
          Cells,        \* cachesize records
          LocalCells,   \* records malloc may give to local names
          BigNames,     \* cachesize/10: blocks for long names
          Replies,      \* answers an upstream server may give
          Hosts,        \* contents /etc/hosts may have, as sequences of lines
          Leases,       \* tables of leases with a name
          Questions,    \* <<name, type>> pairs that clients ask
          MaxExpiry,    \* cache_max_expiry, 0 when stale answers are not given
          MaxCacheTtl,  \* max_cache_ttl
          MaxReplies,   \* bound on upstream answers
          MaxUpdates    \* bound on reloads and changes of the leases

NoCell == "none"
AllCells == Cells \cup LocalCells
Buckets == {Bucket[n] : n \in Names}

(***************************************************************************)
(* A reply: names[1] was asked, the others follow by CNAMEs; data are the  *)
(* addresses of the last one, none if the answer is negative, and then soa *)
(* is the zone of the SOA record that came along.  Of type "PTR": names    *)
(* are those of the address addr.                                          *)
(***************************************************************************)
AddrTypes == {"A", "AAAA"}

ASSUME DnsCacheAssumption ==
    /\ Cells \cap LocalCells = {} /\ NoCell \notin AllCells
    /\ LongNames \subseteq Names
    /\ {BigNames, MaxExpiry, MaxCacheTtl, MaxReplies, MaxUpdates} \subseteq Nat

VARIABLES cache,    \* the statics of cache.c, see InitCache
          hosts,    \* /etc/hosts as it was read last
          leases,   \* the leases as they were told last
          pipe,     \* what a TCP child has sent and the server not yet read
          facts,    \* what upstream told last and its time to live still covers
          replies, updates

vars == <<cache, hosts, leases, pipe, facts, replies, updates>>

-----------------------------------------------------------------------------
(* Records.  src says which of F_HOSTS, F_DHCP is set, "up" for neither.    *)

Blank == [fwd |-> FALSE, rev |-> FALSE, kind |-> "data", type |-> "A", neg |-> FALSE,
          src |-> "up", immortal |-> FALSE, name |-> CHOOSE n \in Names : TRUE,
          addr |-> 0, ttd |-> 0, uid |-> 0, target |-> NoCell, tuid |-> 0]

Free(uid) == [Blank EXCEPT !.uid = uid]

InitCache ==
    [crec  |-> [x \in AllCells |-> Blank],
     chain |-> [b \in Buckets |-> <<>>],      \* hash_table
     lru   |-> SetToSeq(Cells),               \* cache_head .. cache_tail
     new   |-> <<>>,                          \* new_chain
     error |-> FALSE,                         \* insert_error
     spare |-> <<>>,                          \* config_spare
     uid   |-> 0,                             \* the counter of next_uid
     big   |-> BigNames,                      \* big_free and bignames_left
     stuck |-> FALSE]                         \* "Internal error in cache."

InUse(c, x) == c.crec[x].fwd \/ c.crec[x].rev
Local(c, x) == c.crec[x].src # "up"
Without(s, x) == SelectSeq(s, LAMBDA y : y # x)

IsOutdatedCname(c, x) ==
    LET e == c.crec[x]
    IN /\ e.kind = "cname"
       /\ e.target = NoCell \/ e.tuid # c.crec[e.target].uid

IsExpired(e) == ~e.immortal /\ e.ttd <= -MaxExpiry

\* Mutant: a reused record keeps the identity of the old one.
CacheFree_KeepUid(c, x) ==
    [c EXCEPT !.crec[x] = Free(c.crec[x].uid),
              !.lru = Append(@, x),
              !.big = IF c.crec[x].name \in LongNames THEN @ + 1 ELSE @]

CacheFree(c, x) ==
    [c EXCEPT !.crec[x] = Free(0),
              !.lru = Append(@, x),
              !.big = IF c.crec[x].name \in LongNames THEN @ + 1 ELSE @]

CacheLink(c, x) == [c EXCEPT !.lru = <<x>> \o @]
CacheUnlink(c, x) == [c EXCEPT !.lru = Without(@, x)]

NextUid(c, x) ==
    IF c.crec[x].uid # 0 THEN c
    ELSE [c EXCEPT !.uid = @ + 1, !.crec[x].uid = c.uid + 1]

PastAll(s, i, T) == Min({j \in i .. Len(s) + 1 : j = Len(s) + 1 \/ s[j] \notin T})

\* Mutant: the reverse records do not go to the front.
CacheHash_AtFront(c, x) ==
    LET b == Bucket[c.crec[x].name] IN [c EXCEPT !.chain[b] = <<x>> \o @]

(* Reverse records first, then the mortal ones, the other immortal ones at  *)
(* the end; behind those of the same name and kind.                         *)
CacheHash(c, x) ==
    LET e == c.crec[x]
        b == Bucket[e.name]
        s == c.chain[b]
        Reverse1 == {y \in AllCells : c.crec[y].rev}
        Mortal == {y \in AllCells : ~c.crec[y].immortal}
        Alike == {y \in AllCells : /\ c.crec[y].name = e.name /\ c.crec[y].rev = e.rev
                                   /\ c.crec[y].immortal = e.immortal}
        i == IF e.rev THEN 1 ELSE PastAll(s, 1, Reverse1)
        j == IF e.immortal /\ ~e.rev THEN PastAll(s, i, Mortal) ELSE i
    IN [c EXCEPT !.chain[b] = InsertAt(s, PastAll(s, j, Alike), x)]

Unhash(c, x) == [c EXCEPT !.chain[Bucket[c.crec[x].name]] = Without(@, x)]

\* What the scans do with a record they drop; a local one only leaves its chain.
Drop(c, x) ==
    IF Local(c, x) THEN Unhash(c, x)
    ELSE CacheFree(CacheUnlink(Unhash(c, x), x), x)

-----------------------------------------------------------------------------
(* cache_scan_free.                                                         *)

Conflict(e, f) ==
    \/ e.kind = "cname" \/ f.kind = "cname"
    \/ e.kind = "data" /\ f.kind = "data" /\ e.type = f.type
    \/ e.kind = "nx" /\ f.kind = "nx"

(* By name: the records that a record e for the name replaces go, and those *)
(* of the chain whose time is over.  aware is FALSE where now is 0.         *)
ScanFreeName(c0, e, aware) ==
    LET Step(st, x) ==
            LET c == st.c
                f == c.crec[x]
                mine == f.fwd /\ f.name = e.name /\ Conflict(e, f)
            IN IF st.hit # NoCell THEN st
               ELSE IF mine /\ Local(c, x) THEN [st EXCEPT !.hit = x]
               ELSE IF mine
                    THEN [st EXCEPT !.c = Drop(c, x),
                                    !.target = IF f.uid # 0 THEN x ELSE @,
                                    !.uid = IF f.uid # 0 THEN f.uid ELSE @]
               ELSE IF (aware /\ IsExpired(f)) \/ IsOutdatedCname(c, x)
                    THEN [st EXCEPT !.c = Drop(c, x)]
               ELSE st
    IN FoldLeft(Step, [c |-> c0, hit |-> NoCell, target |-> NoCell, uid |-> 0],
                c0.chain[Bucket[e.name]])

(* The whole cache: what is expired, and the reverse records of an address. *)
ScanFreeAll(c0, gone) ==
    LET Upto(s) == SubSeq(s, 1, PastAll(s, 1, {x \in AllCells : c0.crec[x].rev
                                                  \/ ~c0.crec[x].immortal}) - 1)
        Step(c, x) ==
            IF IsExpired(c.crec[x]) \/ (~Local(c, x) /\ x \in gone) THEN Drop(c, x) ELSE c
        Walk(c, b) == FoldLeft(Step, c, Upto(c.chain[b]))
    IN FoldLeft(Walk, c0, SetToSeq(Buckets))

ScanFreeExpired(c) == ScanFreeAll(c, {})
ScanFreeReverse(c, e) ==
    ScanFreeAll(c, {x \in AllCells : /\ c.crec[x].rev
                                     /\ c.crec[x].type = e.type /\ c.crec[x].addr = e.addr})

\* Mutant: only the one record at the end of the list makes room.
Evict_One(c, x) == Drop(c, x)

(* The record at the end of the list goes, with those of its name and kind. *)
Evict(c, x) ==
    IF c.crec[x].fwd THEN ScanFreeName(c, c.crec[x], TRUE).c
    ELSE ScanFreeReverse(c, c.crec[x])

-----------------------------------------------------------------------------
(* really_insert: gives the cache and the new record, NoCell if none.       *)

Fails(c) == [c |-> [c EXCEPT !.error = TRUE], new |-> NoCell]

(* A free record from the end of the list: as it is, or once the expired    *)
(* ones have gone, or once the oldest set of records has.                   *)
TailFree(c) == ~InUse(c, Last(c.lru))

MakeRoom(c, rev) ==
    LET room(d) == IF TailFree(d) THEN d ELSE Evict(d, Last(d.lru))
    IN IF c.lru = <<>> \/ TailFree(c) THEN c
       ELSE room(IF rev THEN c ELSE ScanFreeExpired(c))

Grab(c, x, e, uid) ==
    LET d == CacheUnlink(c, x)
    IN [c |-> [d EXCEPT !.crec[x] = [fwd |-> e.fwd, rev |-> e.rev, kind |-> e.kind,
                                     type |-> e.type, neg |-> e.neg, src |-> "up",
                                     immortal |-> FALSE, name |-> e.name,
                                     addr |-> e.addr, ttd |-> e.ttl, uid |-> uid,
                                     target |-> NoCell, tuid |-> 0],
                        !.new = <<x>> \o @,
                        !.big = IF e.name \in LongNames THEN @ - 1 ELSE @],
        new |-> x]

(* The record for e: keep, which the scan left for it, or the last one of    *)
(* the list.                                                                *)
InsertIn(d, e, keep, uid) ==
    IF keep = NoCell /\ d.lru = <<>> THEN Fails(d)
    ELSE IF keep = NoCell /\ ~TailFree(d) THEN Fails([d EXCEPT !.stuck = TRUE])
    ELSE IF e.name \in LongNames /\ d.big = 0 THEN Fails(d)
    ELSE IF keep # NoCell THEN Grab(d, keep, e, uid)
    ELSE Grab(d, Last(d.lru), e, d.crec[Last(d.lru)].uid)

ReallyInsert(c, e) ==
    LET same(hit) == /\ e.fwd /\ e.kind = "data" /\ e.type \in AddrTypes /\ ~e.neg
                     /\ c.crec[hit].type = e.type /\ c.crec[hit].addr = e.addr
        scanned(s) ==
            IF s.hit # NoCell
            THEN IF same(s.hit) THEN [c |-> s.c, new |-> s.hit] ELSE Fails(s.c)
            ELSE InsertIn(IF s.target # NoCell THEN s.c ELSE MakeRoom(s.c, e.rev),
                          e, s.target, s.uid)
    IN IF c.error THEN [c |-> c, new |-> NoCell]
       ELSE IF MaxExpiry = 0 /\ e.ttl = 0 THEN Fails(c)
       ELSE scanned(IF e.fwd THEN ScanFreeName(c, e, TRUE)
                    ELSE [c |-> ScanFreeReverse(c, e), hit |-> NoCell, target |-> NoCell,
                          uid |-> 0])

CacheInsert(c, e) ==
    ReallyInsert(c, IF MaxCacheTtl # 0 /\ e.ttl > MaxCacheTtl
                    THEN [e EXCEPT !.ttl = MaxCacheTtl] ELSE e)

\* Mutant: what an abandoned insertion left is forgotten, not freed.
CacheStartInsert_Forget(c) == [c EXCEPT !.new = <<>>, !.error = FALSE]

CacheStartInsert(c) ==
    [FoldLeft(CacheFree, c, c.new) EXCEPT !.new = <<>>, !.error = FALSE]

\* Mutant: what was inserted before the error is kept.
CacheEndInsert_Anyway(c) ==
    LET Commit(d, x) ==
            IF IsOutdatedCname(d, x) THEN CacheFree(d, x) ELSE CacheLink(CacheHash(d, x), x)
    IN [FoldLeft(Commit, c, c.new) EXCEPT !.new = <<>>]

(* The records of the transaction enter the cache, but not the CNAMEs that  *)
(* found no target.                                                         *)
CacheEndInsert(c) ==
    LET Commit(d, x) ==
            IF IsOutdatedCname(d, x) THEN CacheFree(d, x) ELSE CacheLink(CacheHash(d, x), x)
    IN IF c.error THEN c
       ELSE [FoldLeft(Commit, c, c.new) EXCEPT !.new = <<>>]

-----------------------------------------------------------------------------
(* extract_addresses.  The records of a reply in the order they go in: the  *)
(* SOA record of a negative answer comes before it, unless a CNAME leads    *)
(* there, for the target of a CNAME must come right after it.               *)

Fwd(n, kind, ttl) == [fwd |-> TRUE, rev |-> FALSE, kind |-> kind, type |-> "A",
                      neg |-> FALSE, name |-> n, addr |-> 0, ttl |-> ttl]

CnameRecords(r) == [i \in 1 .. Len(r.names) - 1 |-> Fwd(r.names[i], "cname", r.ttl)]
DataRecords(r) ==
    [i \in DOMAIN r.data |->
        [Fwd(Last(r.names), "data", r.ttl) EXCEPT !.type = r.type, !.addr = r.data[i]]]
PtrRecords(r) ==
    [i \in DOMAIN r.names |->
        [Fwd(r.names[i], "data", r.ttl) EXCEPT !.fwd = FALSE, !.rev = TRUE, !.addr = r.addr]]

\* find_soa
Soa(r) == IF r.soa \in Names THEN <<[Fwd(r.soa, "data", r.ttl) EXCEPT !.type = "SOA"]>> ELSE <<>>
Negative(r) ==
    <<[Fwd(Last(r.names), IF r.nx THEN "nx" ELSE "data", r.ttl)
          EXCEPT !.type = IF r.nx THEN "A" ELSE r.type, !.neg = TRUE]>>

\* Mutant: the SOA record always goes first.
NegativeRecords_SoaFirst(r) == IF Soa(r) = <<>> THEN <<>> ELSE Soa(r) \o Negative(r)

NegativeRecords(r) ==
    IF Soa(r) = <<>> THEN <<>>
    ELSE IF CnameRecords(r) = <<>> THEN Soa(r) \o Negative(r)
    ELSE Negative(r) \o Soa(r)

Records(r) ==
    IF r.type = "PTR" THEN PtrRecords(r)
    ELSE CnameRecords(r) \o IF r.data # <<>> THEN DataRecords(r) ELSE NegativeRecords(r)

PointTo(c, x, y) ==
    LET to(d) == [d EXCEPT !.crec[x].target = y, !.crec[x].tuid = d.crec[y].uid]
    IN to(NextUid(c, y))

(* Insertion of the first k records: fewer than all where it gives up.      *)
Extract(c0, r, k) ==
    LET Inserted(st, e, i) ==
            IF e.type = "SOA" THEN [st EXCEPT !.c = i.c]
            ELSE [c |-> IF i.new # NoCell /\ st.cpp # NoCell
                        THEN PointTo(i.c, st.cpp, i.new) ELSE i.c,
                  cpp |-> IF e.kind = "cname" THEN i.new ELSE NoCell]
        Step(st, e) == Inserted(st, e, CacheInsert(st.c, e))
    IN FoldLeft(Step, [c |-> CacheStartInsert(c0), cpp |-> NoCell],
                SubSeq(Records(r), 1, k)).c

-----------------------------------------------------------------------------
(* cache_find_by_name and cache_find_by_addr: the records found, those of   *)
(* /etc/hosts and DHCP first.  The others move to the head of the list, and *)
(* all but the first move up their chain.                                   *)

Promote(c, x) == CacheLink(CacheUnlink(c, x), x)

Key(e) == IF e.kind = "data" THEN e.type ELSE e.kind
RrTypes == ({r.type : r \in Replies} \cup {"SOA"}) \ AddrTypes

Hits(st) == [c |-> st.c, found |-> st.local \o st.up2]

FindByName(c0, n, prot, aware) ==
    LET Step(st, x) ==
            LET c == st.c
                e == c.crec[x]
                flags == <<e.rev, e.immortal>>
                s == c.chain[Bucket[n]]
                found == IF Local(c, x) THEN c ELSE Promote(c, x)
            IN IF (aware /\ IsExpired(e)) \/ IsOutdatedCname(c, x)
               THEN [st EXCEPT !.c = Drop(c, x)]
               ELSE IF ~(e.fwd /\ e.name = n /\ Key(e) \in prot) THEN st
               ELSE [c |-> IF st.up # 0 /\ st.flags = flags
                           THEN [found EXCEPT !.chain[Bucket[n]] =
                                    InsertAt(Without(s, x), st.up, x)]
                           ELSE found,
                     up |-> IF st.up = 0 THEN CHOOSE i \in DOMAIN s : s[i] = x
                            ELSE IF st.flags = flags THEN st.up + 1 ELSE st.up,
                     flags |-> IF st.up = 0 THEN flags ELSE st.flags,
                     local |-> IF Local(c, x) THEN Append(st.local, x) ELSE st.local,
                     up2 |-> IF Local(c, x) THEN st.up2 ELSE <<x>> \o st.up2]
    IN Hits(FoldLeft(Step,
                     [c |-> c0, up |-> 0, flags |-> <<>>, local |-> <<>>, up2 |-> <<>>],
                     c0.chain[Bucket[n]]))

FindByAddr(c0, a, aware) ==
    LET Reversed(s) == SubSeq(s, 1, PastAll(s, 1, {x \in AllCells : c0.crec[x].rev}) - 1)
        Step(st, x) ==
            LET c == st.c IN
            IF aware /\ IsExpired(c.crec[x]) THEN [st EXCEPT !.c = Drop(c, x)]
            ELSE IF c.crec[x].addr # a THEN st
            ELSE IF Local(c, x) THEN [st EXCEPT !.local = Append(@, x)]
            ELSE [st EXCEPT !.c = Promote(c, x), !.up2 = <<x>> \o @]
        Walk(st, b) == FoldLeft(Step, st, Reversed(st.c.chain[b]))
    IN Hits(FoldLeft(Walk, [c |-> c0, local |-> <<>>, up2 |-> <<>>], SetToSeq(Buckets)))

-----------------------------------------------------------------------------
(* answer_request, for a question with RD set.  The CNAMEs are followed by  *)
(* the name of the record they point to.                                    *)

RECURSIVE Chase(_, _, _, _)
Chase(c, n, hops, count) ==
    LET stop(d, nx) == [c |-> d, name |-> n, hops |-> hops, nx |-> nx]
        to(d, m) == Chase(d, m, Append(hops, <<n, m>>), count - 1)
        past(f) == LET e == f.c.crec[Head(f.found)] IN
                   IF f.found = <<>> \/ e.kind = "nx" THEN stop(f.c, f.found # <<>>)
                   ELSE to(f.c, f.c.crec[e.target].name)
    IN IF count = 0 THEN stop(c, FALSE)
       ELSE past(FindByName(c, n, {"cname", "nx"}, TRUE))

Reply(c, name, hops, kind, data) ==
    [c |-> c, name |-> name, hops |-> hops, kind |-> kind, data |-> data]

\* What the records found say.
Told(c, found) ==
    IF \E i \in DOMAIN found : c.crec[found[i]].kind = "nx" THEN "nx"
    ELSE IF \A i \in DOMAIN found : c.crec[found[i]].neg THEN "nodata"
    ELSE "data"

DataOf(c, found) ==
    {c.crec[found[i]].addr : i \in {j \in DOMAIN found : ~c.crec[found[j]].neg}}

AnswerAddress(c, n, hops, type) ==
    LET denied(g) ==
            LET nx == g.found # <<>> /\ g.c.crec[Head(g.found)].kind = "nx"
            IN Reply(g.c, n, hops, IF nx THEN "nx" ELSE "forward", {})
        answer(f) ==
            IF f.found # <<>>
            THEN Reply(f.c, n, hops, Told(f.c, f.found), DataOf(f.c, f.found))
            ELSE denied(FindByName(f.c, n, RrTypes \cup {"nx"}, TRUE))
    IN answer(FindByName(c, n, {type}, TRUE))

(* Another record type than an address: the records of other types are     *)
(* passed over, and what follows an NXDOMAIN record.                        *)
AnswerOther(c, n, hops, type) ==
    LET Nx(d, x) == d.crec[x].kind = "nx"
        upto(d, found) == Min({i \in 1 .. Len(found) + 1 :
                        i = Len(found) + 1 \/ (i > 1 /\ Nx(d, found[i]))}) - 1
        answer(d, met) == IF met = <<>> THEN Reply(d, n, hops, "forward", {})
                          ELSE Reply(d, n, hops, Told(d, met), DataOf(d, met))
        among(g) == answer(g.c, SelectSeq(SubSeq(g.found, 1, upto(g.c, g.found)),
                                LAMBDA x : Nx(g.c, x) \/ g.c.crec[x].type = type))
    IN among(FindByName(c, n, RrTypes \cup {"nx"}, TRUE))

AnswerPtr(c, a) ==
    LET answer(f) ==
            Reply(f.c, a, <<>>, IF f.found = <<>> THEN "forward" ELSE "data",
                  {f.c.crec[f.found[i]].name : i \in DOMAIN f.found})
    IN answer(FindByAddr(c, a, TRUE))

MaxChase == 254

AnswerRequest(c, n, type) ==
    LET answer(h) == IF type \in AddrTypes THEN AnswerAddress(h.c, h.name, h.hops, type)
                     ELSE AnswerOther(h.c, h.name, h.hops, type)
    IN answer(Chase(c, n, <<>>, MaxChase))

-----------------------------------------------------------------------------
(* Local names: records of their own, kept on config_spare when unused.     *)

SrcHosts == 2

FreeConfig(c, x) == [Unhash(c, x) EXCEPT !.spare = <<x>> \o @]

Spare(c) == IF c.spare # <<>> THEN Head(c.spare)
            ELSE CHOOSE x \in LocalCells : c.crec[x] = Blank
TakeSpare(c) == [c EXCEPT !.spare = IF @ = <<>> THEN @ ELSE Tail(@)]

AddLocal(c, x, src, n, a, rev, uid) ==
    CacheHash([c EXCEPT !.crec[x] = [Blank EXCEPT !.fwd = TRUE, !.rev = rev, !.src = src,
                                       !.immortal = TRUE, !.name = n, !.addr = a,
                                       !.uid = uid]], x)

\* add_hosts_entry for a line of the file; seen are the addresses before it.
AddHosts(c0, line, seen) ==
    LET known(f) == \E i \in DOMAIN f.found :
            LET e == f.c.crec[f.found[i]] IN e.src = "hosts" /\ e.addr = line.addr
        add(c, x, old) ==
            IF old THEN [c EXCEPT !.spare = <<x>> \o @]
            ELSE AddLocal(c, x, "hosts", line.name, line.addr, line.addr \notin seen, SrcHosts)
        beside(f) == add(TakeSpare(f.c), Spare(f.c), known(f))
    IN beside(FindByName(c0, line.name, {"A"}, FALSE))

\* cache_reload: upstream's records are dropped where they are on the list.
Forget(c, x) ==
    CASE c.crec[x].src = "hosts" -> FreeConfig(c, x)
      [] c.crec[x].src = "dhcp" -> c
      [] OTHER -> LET n == c.crec[x].name
                  IN [Unhash(c, x) EXCEPT !.crec[x] = Free(c.crec[x].uid),
                                          !.big = IF n \in LongNames THEN @ + 1 ELSE @]

AllChains(c) == FoldLeft(LAMBDA s, b : s \o c.chain[b], <<>>, SetToSeq(Buckets))

CacheReload(c, lines) ==
    FoldLeft(LAMBDA d, i : AddHosts(d, lines[i], {lines[j].addr : j \in 1 .. i - 1}),
             FoldLeft(Forget, c, AllChains(c)), [i \in DOMAIN lines |-> i])

\* cache_unhash_dhcp and cache_add_dhcp_entry, of lease_update_dns.
UnhashDhcp(c) ==
    FoldLeft(LAMBDA d, x : IF d.crec[x].src = "dhcp" THEN FreeConfig(d, x) ELSE d,
             c, AllChains(c))

\* Mutant: what upstream said of the name stays.
AddDhcp_KeepUpstream(c0, l) ==
    LET x == Spare(c0)
    IN AddLocal(TakeSpare(c0), x, "dhcp", l.name, l.addr, TRUE, 0)

AddDhcp(c0, l) ==
    LET Of(f, src) == SelectSeq(f.found, LAMBDA y : f.c.crec[y].src = src)
        rid(c, up) == IF up = <<>> THEN c ELSE ScanFreeName(c, c.crec[Head(up)], FALSE).c
        add(a) == AddLocal(TakeSpare(a.c), Spare(a.c), "dhcp", l.name, l.addr,
                           a.found = <<>>, 0)
        beside(f) ==
            IF Of(f, "hosts") # <<>> THEN rid(f.c, Of(f, "up"))
            ELSE add(FindByAddr(rid(f.c, Of(f, "up")), l.addr, FALSE))
    IN beside(FindByName(c0, l.name, {"A", "cname"}, FALSE))

LeaseUpdateDns(c, table) == FoldLeft(AddDhcp, UnhashDhcp(c), table)

-----------------------------------------------------------------------------
(* The pipe of a TCP child: the child has the cache as it was at its fork,  *)
(* and writes the records it commits.                                       *)

Marshal(c) ==
    LET Step(st, x) ==
            IF IsOutdatedCname(st.c, x) THEN [st EXCEPT !.c = CacheFree(st.c, x)]
            ELSE LET e == c.crec[x]
                 IN [st EXCEPT !.sent = Append(@, [fwd |-> e.fwd, rev |-> e.rev,
                        kind |-> e.kind, type |-> e.type, neg |-> e.neg,
                        name |-> e.name, addr |-> e.addr, ttl |-> e.ttd])]
    IN FoldLeft(Step, [c |-> c, sent |-> <<>>], c.new).sent

(* cache_recv_insert: a CNAME points to the record before it.  A time to    *)
(* live that is over is converted to an unsigned number: what becomes of it *)
(* depends on the machine (wraps).                                          *)
RecvInsert(c0, sent, wraps) ==
    LET Inserted(st, e, i) ==
            IF e.kind # "cname" THEN [c |-> i.c, crecp |-> i.new]
            ELSE IF i.new = NoCell THEN [c |-> i.c, crecp |-> st.crecp]
            ELSE [c |-> IF st.crecp = NoCell THEN i.c ELSE PointTo(i.c, i.new, st.crecp),
                  crecp |-> i.new]
        Step(st, e) ==
            Inserted(st, e, ReallyInsert(st.c, [e EXCEPT !.ttl = IF @ < 0 /\ ~wraps THEN 0 ELSE @]))
    IN FoldLeft(Step, [c |-> CacheStartInsert(c0), crecp |-> NoCell], sent).c

-----------------------------------------------------------------------------
(* What upstream said: the newest word on each name and kind of record that *)
(* a transaction brought into the cache.                                    *)

Name(n) == <<n, 0>>
Addr(a) == <<"", a>>
Fact(about, key, says, ttl) == [about |-> about, key |-> key, says |-> says, ttl |-> ttl]

FactsOf(r, ttl) ==
    LET last == Last(r.names) IN
    IF r.type = "PTR" THEN {Fact(Addr(r.addr), "PTR", {Name(n) : n \in ToSet(r.names)}, ttl)}
    ELSE {Fact(Name(r.names[i]), "cname", {Name(r.names[i + 1])}, ttl) :
             i \in 1 .. Len(r.names) - 1}
         \cup (IF r.data # <<>>
               THEN {Fact(Name(last), r.type, {Addr(a) : a \in ToSet(r.data)}, ttl)}
               ELSE IF r.soa \in Names
               THEN {Fact(Name(last), IF r.nx THEN "nx" ELSE r.type, {}, ttl),
                     Fact(Name(r.soa), "SOA", {Addr(0)}, ttl)}
               ELSE {})

Replaces(g, f) ==
    g.about = f.about /\ (g.key = f.key \/ g.key = "cname" \/ f.key = "cname")

Learned(c, r, ttl) ==
    IF c.error \/ ttl <= -MaxExpiry THEN facts
    ELSE LET new == FactsOf(r, ttl)
         IN new \cup {f \in facts : \A g \in new : ~Replaces(g, f)}

Clamped(ttl) == IF MaxCacheTtl # 0 /\ ttl > MaxCacheTtl THEN MaxCacheTtl ELSE ttl

-----------------------------------------------------------------------------

Init ==
    /\ \E h \in Hosts : hosts = h /\ cache = CacheReload(InitCache, h)
    /\ leases = <<>> /\ pipe = <<>> /\ facts = {} /\ replies = 0 /\ updates = 0

(* process_reply: a name of which something is known exists, even if        *)
(* upstream denies it.                                                      *)
Known(c, n) == \E i \in DOMAIN c.chain[Bucket[n]] :
    LET x == c.chain[Bucket[n]][i]
    IN /\ c.crec[x].fwd /\ c.crec[x].name = n /\ c.crec[x].kind # "nx"
       /\ ~IsOutdatedCname(c, x) /\ ~IsExpired(c.crec[x])

Given(r) == IF r.nx /\ Known(cache, r.names[1]) THEN [r EXCEPT !.nx = FALSE] ELSE r

\* A reply is processed to the end by the server itself.
Upstream(reply) ==
    LET r == Given(reply) IN
    /\ replies < MaxReplies /\ replies' = replies + 1
    /\ cache' = CacheEndInsert(Extract(cache, r, Len(Records(r))))
    /\ facts' = Learned(cache', r, Clamped(r.ttl))
    /\ UNCHANGED <<hosts, leases, pipe, updates>>

\* It gives up within the reply: malformed, a rebinding address, looping
\* CNAMEs; or the client asked for an answer that is not checked (CD).
UpstreamBad(reply, k) ==
    LET r == Given(reply) IN
    /\ replies < MaxReplies /\ replies' = replies + 1
    /\ k \in 0 .. Len(Records(r)) /\ cache' = Extract(cache, r, k)
    /\ UNCHANGED <<hosts, leases, pipe, facts, updates>>

\* A child processes a reply that came over TCP.
ChildUpstream(reply) ==
    LET r == Given(reply) IN
    /\ pipe = <<>> /\ replies < MaxReplies /\ replies' = replies + 1
    /\ \E c \in {Extract(cache, r, Len(Records(r)))} :
         /\ ~c.error /\ Marshal(c) # <<>>
         /\ pipe' = <<[sent |-> Marshal(c), reply |-> r, ttl |-> Clamped(r.ttl)]>>
    /\ UNCHANGED <<cache, hosts, leases, facts, updates>>

PipeRead(wraps) ==
    /\ pipe # <<>> /\ pipe' = <<>>
    /\ cache' = CacheEndInsert(RecvInsert(cache, Head(pipe).sent, wraps))
    /\ LET ttl == IF Head(pipe).ttl < 0 /\ ~wraps THEN 0 ELSE Head(pipe).ttl
       IN facts' = Learned(cache', Head(pipe).reply, ttl)
    /\ UNCHANGED <<hosts, leases, replies, updates>>

\* The child was killed while it wrote.
PipeBreaks(k) ==
    /\ pipe # <<>> /\ pipe' = <<>>
    /\ k < Len(Head(pipe).sent)
    /\ cache' = RecvInsert(cache, SubSeq(Head(pipe).sent, 1, k), TRUE)
    /\ UNCHANGED <<hosts, leases, facts, replies, updates>>

Ask(n, type) ==
    /\ cache' = AnswerRequest(cache, n, type).c
    /\ UNCHANGED <<hosts, leases, pipe, facts, replies, updates>>

AskPtr(a) ==
    /\ cache' = AnswerPtr(cache, a).c
    /\ UNCHANGED <<hosts, leases, pipe, facts, replies, updates>>

\* clear_cache_and_reload, on SIGHUP.
Reload(lines) ==
    /\ updates < MaxUpdates /\ updates' = updates + 1
    /\ hosts' = lines /\ facts' = {}
    /\ cache' = LeaseUpdateDns(CacheReload(cache, lines), leases)
    /\ UNCHANGED <<leases, pipe, replies>>

\* The leases have changed.
LeasesChange(table) ==
    /\ updates < MaxUpdates /\ updates' = updates + 1
    /\ leases' = table /\ cache' = LeaseUpdateDns(cache, table)
    /\ UNCHANGED <<hosts, pipe, facts, replies>>

Older(ttl) == IF ttl > -MaxExpiry THEN ttl - 1 ELSE ttl

Tick ==
    /\ cache' = [cache EXCEPT !.crec = [x \in AllCells |->
                    IF @[x].immortal \/ ~InUse(cache, x) THEN @[x]
                    ELSE [@[x] EXCEPT !.ttd = Older(@)]]]
    /\ pipe' = [i \in DOMAIN pipe |->
                  [pipe[i] EXCEPT !.ttl = Older(@),
                                  !.sent = [j \in DOMAIN @ |-> [@[j] EXCEPT !.ttl = IF @ < -MaxExpiry THEN @ ELSE @ - 1]]]]
    /\ facts' = {[f EXCEPT !.ttl = @ - 1] : f \in {g \in facts : g.ttl > 1 - MaxExpiry}}
    /\ UNCHANGED <<hosts, leases, replies, updates>>

QTypes == ({r.type : r \in Replies} \ {"PTR"}) \cup {"SOA"}
Addresses == {hosts[i].addr : i \in DOMAIN hosts}
             \cup {r.addr : r \in {q \in Replies : q.type = "PTR"}}

Next ==
    \/ \E r \in Replies : Upstream(r) \/ ChildUpstream(r)
    \/ \E r \in Replies : \E k \in 0 .. Len(Records(r)) : UpstreamBad(r, k)
    \/ \E wraps \in BOOLEAN : PipeRead(wraps)
    \/ pipe # <<>> /\ \E k \in 0 .. Len(Head(pipe).sent) : PipeBreaks(k)
    \/ \E q \in Questions : Ask(q[1], q[2])
    \/ \E a \in Addresses : AskPtr(a)
    \/ \E h \in Hosts : Reload(h)
    \/ \E l \in Leases : LeasesChange(l)
    \/ Tick

Spec == Init /\ [][Next]_vars

-----------------------------------------------------------------------------
(* Properties.                                                              *)

Occurs(x, s) == Cardinality({i \in DOMAIN s : s[i] = x})

\* No record is lost or in two places: each one is on the list of the least
\* recently used or in the open transaction, in its hash chain exactly while
\* it is in use, and counted once for its long name; a local one is in a
\* chain or spare.  Reverse records lead a chain, the other immortal ones
\* end it: the scans stop there (cache.c:314, cache.c:531).
CellsKept ==
    LET chained == AllChains(cache)
        Rank(x) == IF cache.crec[x].rev THEN 1 ELSE IF cache.crec[x].immortal THEN 3 ELSE 2
    IN /\ \A x \in Cells :
            /\ Occurs(x, cache.lru \o cache.new) = 1
            /\ Occurs(x, chained) = IF InUse(cache, x) /\ x \notin ToSet(cache.new) THEN 1 ELSE 0
       /\ \A x \in LocalCells : Occurs(x, chained \o cache.spare) <= 1
       /\ \A b \in Buckets, i, j \in 1 .. Len(chained) :
            i < j /\ j <= Len(cache.chain[b]) => Rank(cache.chain[b][i]) <= Rank(cache.chain[b][j])
       /\ cache.big = BigNames - Cardinality({x \in Cells :
            InUse(cache, x) /\ cache.crec[x].name \in LongNames})

\* An alias that is given out names a record that is there, if only in a
\* transaction that was abandoned: a record that is freed invalidates the
\* CNAMEs pointing to it (cache.c:363).
TargetsLive ==
    \A x \in ToSet(AllChains(cache)) :
        cache.crec[x].kind = "cname" /\ ~IsOutdatedCname(cache, x) =>
            cache.crec[x].target \in ToSet(AllChains(cache) \o cache.new)

\* Making room frees the record at the end of the list (cache.c:754): the
\* message "Internal error in cache." never appears.
EvictionFrees == ~cache.stuck

LocalData(n) ==
    LET Of(lines) == {lines[i].addr : i \in {j \in DOMAIN lines : lines[j].name = n}}
    IN IF Of(hosts) # {} THEN Of(hosts) ELSE Of(leases)
LocalNames(a) == {hosts[i].name : i \in {j \in DOMAIN hosts : hosts[j].addr = a}}
                 \cup {leases[i].name : i \in {j \in DOMAIN leases : leases[j].addr = a}}

Current(about, key, says) ==
    \E f \in facts : f.about = about /\ f.key = key /\ f.says = says

\* Whatever was inserted, abandoned, evicted, reloaded or told by a child: an
\* answer from the cache is the local data, or exactly what upstream said
\* last of that name and still stands for, reached by aliases that stand, with
\* no address missing, left over from before or of another name.
AnswersRight ==
    /\ \A n \in Names, t \in QTypes :
        \A r \in {AnswerRequest(cache, n, t)} :
        r.kind # "forward" =>
            /\ \A i \in DOMAIN r.hops : Current(Name(r.hops[i][1]), "cname", {Name(r.hops[i][2])})
            /\ CASE r.kind = "nx" -> Current(Name(r.name), "nx", {})
                 [] t = "A" /\ LocalData(r.name) # {} -> r.data = LocalData(r.name)
                 [] OTHER -> Current(Name(r.name), t, {Addr(d) : d \in r.data})
    /\ \A a \in Addresses :
        \A r \in {AnswerPtr(cache, a)} :
        r.kind = "data" =>
            \/ r.data \subseteq LocalNames(a)
            \/ \E told \in SUBSET r.data :
                   /\ Current(Addr(a), "PTR", {Name(n) : n \in told})
                   /\ r.data \ told \subseteq LocalNames(a)

\* The lists, chains and counts of the cache agree, whatever was abandoned,
\* evicted or sent up by a child in between.
CacheSound == CellsKept /\ TargetsLive /\ EvictionFrees
=============================================================================
