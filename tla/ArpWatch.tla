------------------------------ MODULE ArpWatch ------------------------------
(***************************************************************************)
(* dnsmasq's copy of the kernel's neighbour table (arp.c): who asks for a  *)
(* hardware address is answered from the copy while it is young; it is     *)
(* read again when it is old or lacks the address, and a script can be     *)
(* told what came and what went.                                           *)
(*                                                                         *)
(* The copy is a list, newest record first, as the first record that fits  *)
(* decides.  `seen' is the kernel's table as last read, the reference the  *)
(* properties compare with.                                                *)
(***************************************************************************)
EXTENDS Integers, Sequences, FiniteSets, SequencesExt

CONSTANTS
    Neighbours, Macs, NoMac,
    Twice,       \* TRUE: the kernel can list a neighbour on two interfaces
    MaxMoves,    \* bound: changes of the kernel's table
    MaxFinds     \* bound: calls of find_mac

VARIABLES
    kernel,      \* the neighbour table: the hardware address of each address
    arps, old,   \* the records, and those the script must be told have gone
    young,       \* last is less than INTERVAL ago
    seen,        \* the kernel's table when it was last read
    answer,      \* what find_mac returned last: [addr, mac, lazy]
    event,         \* the event in the helper's buffer
    present,        \* what the script has been told is there
    moves, finds

arpVars == <<kernel, arps, old, young, seen, answer, event, present, moves, finds>>

Rec(a, m, s) == [addr |-> a, mac |-> m, status |-> s]
FirstFit(S) == CHOOSE i \in S : \A j \in S : i <= j

---------------------------------------------------------------------------
(* Reading the kernel's table *)

\* Mutant: a record of the address is confirmed whatever its hardware address.
FilterMac_AnyMac(rs, a, m) ==
    LET fits == {i \in DOMAIN rs : rs[i].addr = a /\ rs[i].status # "new"}
    IN  IF fits = {} THEN <<Rec(a, m, "new")>> \o rs
        ELSE [rs EXCEPT ![FirstFit(fits)] =
                 IF @.status = "empty" THEN Rec(a, m, "new")
                 ELSE [@ EXCEPT !.status = "found"]]

\* filter_mac, for one entry of the kernel's.  A record made in this reading
\* is not looked at.
FilterMac(rs, a, m) ==
    LET fits == {i \in DOMAIN rs : /\ rs[i].addr = a
                                   /\ \/ rs[i].status = "empty"
                                      \/ rs[i].status \in {"mark", "found"}
                                         /\ rs[i].mac = m}
    IN  IF fits = {} THEN <<Rec(a, m, "new")>> \o rs
        ELSE [rs EXCEPT ![FirstFit(fits)] =
                 IF @.status = "empty" THEN Rec(a, m, "new")
                 ELSE [@ EXCEPT !.status = "found"]]

Marked(rs) == [i \in DOMAIN rs |-> IF rs[i].status = "empty" THEN rs[i]
                                   ELSE [rs[i] EXCEPT !.status = "mark"]]

\* What iface_enumerate hands over: every neighbour, in some order.
Lists == LET there == {a \in Neighbours : kernel[a] # NoMac}
         IN  IF Twice THEN {l \o l : l \in SetToSeqs(there)}
             ELSE SetToSeqs(there)

Confirmed(list) == FoldLeft(LAMBDA rs, a : FilterMac(rs, a, kernel[a]),
                            Marked(arps), list)

Copies == {Confirmed(list) : list \in Lists}

Unmarked(rs) == SelectSeq(rs, LAMBDA r : r.status # "mark")

\* Mutant: unconfirmed records are dropped.
Gone_Dropped(rs) == old

Gone(rs) == Reverse(SelectSeq(rs, LAMBDA r : r.status = "mark")) \o old

---------------------------------------------------------------------------
(* find_mac *)

\* The record that answers for a; negative ones only if the caller is lazy or
\* the table has just been read.
Fits(rs, a, empties) ==
    {i \in DOMAIN rs : rs[i].addr = a /\ (rs[i].status # "empty" \/ empties)}

AnswerIs(a, m, lazy) == answer' = [addr |-> a, mac |-> m, lazy |-> lazy]

Calls == finds < MaxFinds /\ finds' = finds + 1

FromCopy(a, lazy) ==
    /\ young
    /\ Fits(arps, a, lazy) # {}
    /\ AnswerIs(a, arps[FirstFit(Fits(arps, a, lazy))].mac, lazy)
    /\ UNCHANGED <<arps, old, young, seen>>

\* Otherwise the kernel is asked; an address it does not have is recorded.
FromKernel(a, lazy) ==
    /\ ~ (young /\ Fits(arps, a, lazy) # {})
    /\ young' = TRUE /\ seen' = kernel
    /\ \E c \in Copies :
          LET rs == Unmarked(c)
              fits == Fits(rs, a, TRUE)
          IN  /\ old' = Gone(c)
              /\ arps' = (IF fits # {} THEN rs
                          ELSE <<Rec(a, NoMac, "empty")>> \o rs)
              /\ AnswerIs(a, IF fits # {} THEN rs[FirstFit(fits)].mac ELSE NoMac,
                          lazy)

FindMac(a, lazy) ==
    /\ Calls
    /\ FromCopy(a, lazy) \/ FromKernel(a, lazy)
    /\ UNCHANGED <<kernel, event, present, moves>>

\* The main loop calls find_mac for no address before it tells the script.
KeepUp ==
    /\ ~young
    /\ young' = TRUE /\ seen' = kernel
    /\ \E c \in Copies : arps' = Unmarked(c) /\ old' = Gone(c)
    /\ UNCHANGED <<kernel, answer, event, present, moves, finds>>

---------------------------------------------------------------------------
(* do_arp_script_run and the script *)

Pair(r) == <<r.addr, r.mac>>
News == {i \in DOMAIN arps : arps[i].status = "new"}

TellGone ==
    /\ event = <<>> /\ old # <<>>
    /\ event' = <<[act |-> "arp-del", what |-> Pair(Head(old))]>>
    /\ old' = Tail(old)
    /\ UNCHANGED <<kernel, arps, young, seen, answer, present, moves, finds>>

TellNew ==
    /\ event = <<>> /\ old = <<>> /\ News # {}
    /\ event' = <<[act |-> "arp-add", what |-> Pair(arps[FirstFit(News)])]>>
    /\ arps' = [arps EXCEPT ![FirstFit(News)].status = "found"]
    /\ UNCHANGED <<kernel, old, young, seen, answer, present, moves, finds>>

Script ==
    /\ event # <<>>
    /\ present' = (IF Head(event).act = "arp-add" THEN present \cup {Head(event).what}
                ELSE present \ {Head(event).what})
    /\ event' = <<>>
    /\ UNCHANGED <<kernel, arps, old, young, seen, answer, moves, finds>>

---------------------------------------------------------------------------
Neighbour(a, m) ==
    /\ moves < MaxMoves /\ moves' = moves + 1
    /\ kernel[a] # m
    /\ kernel' = [kernel EXCEPT ![a] = m]
    /\ UNCHANGED <<arps, old, young, seen, answer, event, present, finds>>

\* INTERVAL passes.
Ages ==
    /\ young /\ young' = FALSE
    /\ UNCHANGED <<kernel, arps, old, seen, answer, event, present, moves, finds>>

ArpInit ==
    /\ kernel \in [Neighbours -> {NoMac} \cup Macs]
    /\ arps = <<>> /\ old = <<>>
    /\ young = FALSE
    /\ seen = [a \in Neighbours |-> NoMac]
    /\ answer = [addr |-> CHOOSE a \in Neighbours : TRUE, mac |-> NoMac, lazy |-> TRUE]
    /\ event = <<>> /\ present = {}
    /\ moves = 0 /\ finds = 0

ArpNext ==
    \/ \E a \in Neighbours, lazy \in BOOLEAN : FindMac(a, lazy)
    \/ KeepUp \/ TellGone \/ TellNew \/ Script
    \/ \E a \in Neighbours, m \in Macs \cup {NoMac} : Neighbour(a, m)
    \/ Ages

ArpSpec == ArpInit /\ [][ArpNext]_arpVars

---------------------------------------------------------------------------
(* Properties *)

ArpTypeOK ==
    /\ \A r \in ToSet(arps) : r.addr \in Neighbours /\ r.mac \in Macs \cup {NoMac}
    /\ \A r \in ToSet(arps) : r.status \in {"new", "found", "empty"}
    /\ Len(event) <= 1

\* The answer is the kernel's as last read; only who is content with an old
\* negative answer can be told that there is none.
LookupRight ==
    [][answer' # answer =>
         \/ answer'.mac = seen'[answer'.addr]
         \/ answer'.lazy /\ answer'.mac = NoMac]_arpVars

Told == event = <<>> /\ old = <<>> /\ News = {}

\* With nothing left to tell, the script takes nobody for present that was not
\* in the table when it was last read.
NoneStale == Told => \A x \in present : seen[x[1]] = x[2]

\* With nothing left to tell, the script has been told of every neighbour in
\* the copy (man page: "arp-add" indicates the arrival of a new entry).
EveryAddTold ==
    Told => \A r \in ToSet(arps) : r.status = "found" => Pair(r) \in present

\* What find_mac answers and what the script is told both follow the kernel.
TableFollowed == LookupRight /\ []NoneStale
============================================================================
