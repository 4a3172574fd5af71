------------------------------ MODULE AddrLists ------------------------------
(***************************************************************************)
(* The lists of addresses that dnsmasq fills while it enumerates its       *)
(* interfaces (network.c): all of them, for --local-service; the subnets   *)
(* of authoritative zones; the addresses of --interface-name; those of     *)
(* --domain with an interface.  An enumeration empties the lists into a    *)
(* list of spare entries and fills them again from it; the kernel's reply  *)
(* may be cut short at any point, and then it begins anew.                 *)
(*                                                                         *)
(* Entries are numbered as they are allocated, and 0 is the null pointer.  *)
(* What a list keeps of an address (the address itself, or one made from   *)
(* it and a configured prefix), and which it takes, by the name of the     *)
(* interface, family, flags and scope, is Keeps.  That memory runs out is  *)
(* left out.                                                               *)
(***************************************************************************)
EXTENDS Naturals, Sequences, FiniteSets, SequencesExt

CONSTANTS
    Seen,         \* the addresses there may be, each with its interface
    SixSeen,      \* those of IPv6
    Filling,      \* the lists, in the order an address is put on them
    Clearing,     \* the lists, in the order they are emptied
    Keeps,        \* Keeps[l]: what list l keeps of each address that it takes
    NoTwice,      \* the lists that have no address twice: of --interface-name
    Literals,     \* Literals[l]: the entries list l has from the configuration, in order
    LateRestarts, \* enumerations are begun anew when spare entries were taken
    MaxEntries,   \* bound: entries there are
    MaxTimes      \* bound: enumerations, with those begun anew

ASSUME ListsAssumption ==
    /\ SixSeen \subseteq Seen /\ LateRestarts \in BOOLEAN
    /\ ToSet(Filling) = ToSet(Clearing) /\ NoTwice \subseteq ToSet(Filling)

VARIABLES
    next,    \* al->next
    entry,   \* al->addr, or "literal" for ADDRLIST_LITERAL
    head,    \* the first entry of each list
    spare,   \* spare, which outlives an enumeration
    param,   \* param.spare, of the enumeration that runs
    made,    \* entries allocated so far
    phase,   \* "rest", or the enumeration: "clear", "six", "four"
    told,    \* the addresses that it has been told of
    times

listsVars == <<next, entry, head, spare, param, made, phase, told, times>>

Cells == 1 .. MaxEntries
AllLists == ToSet(Filling)

\* The entries of a list from its first on; more than MaxEntries if it has no end.
ChainOf(nexts, first) ==
    LET Onward(chain, k) == Append(chain, IF chain[k] = 0 THEN 0 ELSE nexts[chain[k]])
    IN SelectSeq(FoldLeft(Onward, <<first>>, [k \in Cells |-> k]), LAMBDA n : n # 0)

-----------------------------------------------------------------------------
(* enumerate_interfaces                                                    *)

EnumBegins ==
    /\ phase = "rest" /\ times < MaxTimes
    /\ phase' = "clear" /\ times' = times + 1
    /\ UNCHANGED <<next, entry, head, spare, param, made, told>>

\* One entry goes to the spare ones.
Spared(s, n) == [next |-> [s.next EXCEPT ![n] = s.spare], head |-> s.head, spare |-> n]

\* Mutant: literal addresses are removed as well.
Emptied_All(s, l) == FoldLeft(Spared, [s EXCEPT !.head[l] = 0], ChainOf(s.next, s.head[l]))

\* A list without its entries, except that a zone's literal addresses stay.
Emptied(s, l) ==
    LET chain == ChainOf(s.next, s.head[l])
        kept == SelectSeq(chain, LAMBDA n : entry[n] = "literal")
        Follower(n) == LET i == CHOOSE j \in 1 .. Len(kept) : kept[j] = n IN
                       IF i < Len(kept) THEN kept[i + 1] ELSE 0
        without == [next |-> [n \in DOMAIN s.next |->
                                 IF n \in ToSet(kept) THEN Follower(n) ELSE s.next[n]],
                    head |-> [s.head EXCEPT ![l] = IF kept = <<>> THEN 0 ELSE kept[1]],
                    spare |-> s.spare]
    IN FoldLeft(Spared, without, SelectSeq(chain, LAMBDA n : entry[n] # "literal"))

Clear ==
    /\ phase = "clear"
    /\ LET s == FoldLeft(Emptied, [next |-> next, head |-> head, spare |-> spare], Clearing) IN
       /\ next' = s.next /\ head' = s.head /\ spare' = s.spare /\ param' = s.spare
    /\ phase' = "six" /\ told' = {}
    /\ UNCHANGED <<entry, made, times>>

\* Whether list l gets an entry for address a: one that may not have an address
\* twice is looked through first.
Takes(s, l, a) ==
    /\ a \in DOMAIN Keeps[l]
    /\ l \in NoTwice =>
          \A n \in ToSet(ChainOf(s.next, s.head[l])) : s.entry[n] # Keeps[l][a]

\* An entry for it, a spare one if there is any, goes first on the list.
Stored(s, l, a) ==
    LET n == IF s.param # 0 THEN s.param ELSE s.made + 1 IN
    [next  |-> [s.next EXCEPT ![n] = s.head[l]],
     entry |-> [s.entry EXCEPT ![n] = Keeps[l][a]],
     head  |-> [s.head EXCEPT ![l] = n],
     param |-> IF s.param # 0 THEN s.next[n] ELSE 0,
     made  |-> IF s.param # 0 THEN s.made ELSE n]

\* iface_allowed, as far as it fills the lists.
Allowed(a) ==
    /\ phase \in {"six", "four"} /\ a \notin told /\ (a \in SixSeen) = (phase = "six")
    /\ LET Put(s, l) == IF Takes(s, l, a) THEN Stored(s, l, a) ELSE s
           s == FoldLeft(Put, [next |-> next, entry |-> entry, head |-> head,
                               param |-> param, made |-> made], Filling)
       IN /\ next' = s.next /\ entry' = s.entry /\ head' = s.head
          /\ param' = s.param /\ made' = s.made
    /\ told' = told \cup {a}
    /\ UNCHANGED <<spare, phase, times>>

SixDone ==
    /\ phase = "six" /\ phase' = "four"
    /\ UNCHANGED <<next, entry, head, spare, param, made, told, times>>

\* The kernel's reply was cut short: again.  What is spare now is not noted, so
\* an entry that was taken from the spare ones is taken for one of them still.
EnumBeginsAnew ==
    /\ phase \in {"six", "four"} /\ times < MaxTimes
    /\ LateRestarts \/ spare = param
    /\ phase' = "clear" /\ times' = times + 1
    /\ UNCHANGED <<next, entry, head, spare, param, made, told>>

\* Mutant: the spare entries are not noted at the end.
EnumEnds_NotNoted ==
    /\ phase \in {"six", "four"}
    /\ phase' = "rest"
    /\ UNCHANGED <<spare, next, entry, head, param, made, told, times>>

\* The end: after both families, or after the first when netlink fails.
EnumEnds ==
    /\ phase \in {"six", "four"}
    /\ phase' = "rest" /\ spare' = param
    /\ UNCHANGED <<next, entry, head, param, made, told, times>>

-----------------------------------------------------------------------------
\* Entries from the configuration are there at the start.
Configured == UNION {ToSet(Literals[l]) : l \in AllLists}
ListsInit ==
    /\ made = Cardinality(Configured)
    /\ next = [n \in Cells |->
                  IF \E l \in AllLists : \E i \in 1 .. Len(Literals[l]) - 1 : Literals[l][i] = n
                  THEN n + 1 ELSE 0]
    /\ entry = [n \in Cells |-> IF n \in Configured THEN "literal" ELSE "none"]
    /\ head = [l \in AllLists |-> IF Literals[l] = <<>> THEN 0 ELSE Literals[l][1]]
    /\ spare = 0 /\ param = 0 /\ phase = "rest" /\ told = {} /\ times = 0

ListsNext == EnumBegins \/ Clear \/ (\E a \in Seen : Allowed(a)) \/ SixDone \/ EnumBeginsAnew \/ EnumEnds

ListsSpec == ListsInit /\ [][ListsNext]_listsVars

-----------------------------------------------------------------------------
(* Properties                                                              *)

ListsTypeOK ==
    /\ next \in [Cells -> 0 .. MaxEntries] /\ head \in [AllLists -> 0 .. MaxEntries]
    /\ DOMAIN entry = Cells /\ {spare, param, made} \subseteq 0 .. MaxEntries
    /\ phase \in {"rest", "clear", "six", "four"}
    /\ told \subseteq Seen /\ times \in 0 .. MaxTimes

\* The entries of the lists, and those that are spare as the code sees them now.
Listed(l) == ChainOf(next, head[l])
SpareNow == ChainOf(next, IF phase \in {"six", "four"} THEN param ELSE spare)

\* Every entry is on one list or spare, once: no list runs in a circle or into
\* another, and none is lost, whatever the kernel's replies were.
EachOnce ==
    LET all == FoldLeft(LAMBDA c, l : c \o Listed(l), SpareNow, Filling)
    IN Len(all) = made /\ ToSet(all) = 1 .. made

\* A list has what it keeps of the addresses the enumeration was told of, as
\* often as it was told (once, where none may be twice), and its literals.
Accurate(l) ==
    LET mine == told \cap DOMAIN Keeps[l]
        there == ToSet(Listed(l))
        Times(v) == Cardinality({n \in there : entry[n] = v})
        Given(v) == Cardinality({a \in mine : Keeps[l][a] = v})
    IN /\ {entry[n] : n \in there} \ {"literal"} = {Keeps[l][a] : a \in mine}
       /\ \A a \in mine :
             Times(Keeps[l][a]) = IF l \in NoTwice THEN 1 ELSE Given(Keeps[l][a])
       /\ ToSet(Literals[l]) \subseteq there

\* The lists are sound at any time and, while no restart has spoilt them, say
\* what the last enumeration was told.
ListsRight ==
    /\ ListsTypeOK
    /\ phase # "clear" => EachOnce /\ \A l \in AllLists : Accurate(l)

=============================================================================
