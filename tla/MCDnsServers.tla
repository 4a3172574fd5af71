---------------------------- MODULE MCDnsServers ----------------------------
(* Instances of DnsTcp, DomainMatch and AddrLists, which see to it that a   *)
(* question goes to the right servers and comes from a local address:       *)
(* connections for fewer slots, with a server that answers and one that     *)
(* closes, stays silent or is down; many configurations as they are, and a  *)
(* few whose files change; lists filled again and again.  The parts share   *)
(* no state: a behaviour is one of one of them, as part says.               *)
EXTENDS DnsTcp, DomainMatch, AddrLists

VARIABLE part

MCAsks == [c \in Clients |-> IF c = "c1" THEN <<"q1", "q2", "q1">> ELSE <<"q2", "q1">>]
MCServers == <<"s1", "s2">>
MCConduct == << {"answer", "twice", "close", "silent", "down"}, {"answer"} >>
Healthy == << {"answer", "twice"}, {"answer", "twice"} >>

\* Characters 1 and 2; the domains "1", "2.1", "21" and their like.
Line(doms, kind, addr) == [doms |-> doms, kind |-> kind, addr |-> addr]
Pool == << Line(<<>>, "server", "s1"),
           Line(<< <<1>> >>, "server", "s2"),
           Line(<< <<2, 0, 1>>, <<2>> >>, "server", "s3"),
           Line(<< <<Star, 1>> >>, "server", "s4"),
           Line(<< <<>> >>, "server", "s5"),
           Line(<< <<1>> >>, "resolv", "-"),
           Line(<< <<2, 1>>, <<1>> >>, "literal", "-"),
           Line(<< <<1>> >>, "four", "a4"),
           Line(<< <<Star, 2, 1>> >>, "six", "a6"),
           Line(<< <<1>>, <<Hash>> >>, "six", "a6"),
           Line(<< <<2, 0, 1>> >>, "zeros", "a0"),
           Line(<< <<>>, <<0, 2>> >>, "literal", "-") >>

Chosen(n) == {SetToSeq({Pool[i] : i \in I}) : I \in {J \in SUBSET DOMAIN Pool : Cardinality(J) <= n}}
MCConfigs == Chosen(3) \cup {Reverse(c) : c \in Chosen(3)}
Few == { << Pool[1], Pool[2] >>, << Pool[4], Pool[6], Pool[12] >> }
MCFileLines == { <<>>, << Pool[2], Pool[5] >>, << Pool[9], Line(<<>>, "server", "s6") >> }
MCResolv == << [content |-> <<"r1", "r2">>, mtime |-> 1], NoFile >>
MCContents == { <<>>, <<"r2", "r1">>, <<"r3">>, <<"own", "r1">> }
Addresses == {"s1", "s2", "s3", "s4", "s5", "s6", "r1", "r2", "r3", "own"}
MCSource == [a \in Addresses |-> AnySource]
ByAddress == [a \in Addresses |-> IF a = "r3" THEN "six" ELSE "four"]
MCOwn == {"own"}
MCNames == { <<>>, <<1>>, <<2>>, <<2, 1>>, <<1, 1>>, <<2, 2, 1>>, <<2, 0, 1>>, <<1, 0, 1>>, <<2, 1, 0, 1>>,
             <<1, 0, 2>>, <<1, 0, 2, 1>>, <<1, 0, 2, 0, 1>>, <<1, 2, 0, 1>> }
MCWanted == { {"A"}, {"AAAA"}, {}, {"DS"}, {"A", "server"} }

PartInit == (\E lines \in Configs : Start(lines, 0)) \/ (\E lines \in Few : Start(lines, MaxChanges))
TcpIdle ==
    /\ queue = <<>> /\ pids = [i \in SlotRange |-> Nobody] /\ pipes = pids
    /\ metric = 0 /\ busy = Nobody /\ event = FALSE /\ up = FALSE
    /\ cache = [q \in Questions |-> "none"] /\ child = [c \in Clients |-> NoChild]
    /\ wire = [c \in Clients |-> <<>>] /\ learned = wire /\ taken = wire /\ answers = wire
    /\ gone = {} /\ mishaps = 0

MatchIdle ==
    /\ servers = <<>> /\ locals = <<>> /\ array = <<>> /\ wildcard = FALSE /\ config = <<>>
    /\ fileLines = <<>> /\ read = <<>> /\ disk = [f \in DOMAIN Resolv |-> NoFile]
    /\ seen = [f \in DOMAIN Resolv |-> 0] /\ now = 1 /\ left = 0 /\ settled = TRUE

\* Three addresses, of which a list may keep two as the same; literals of a zone.
Addresses3 == {"a4", "b4", "a6"}
KeptOf == [local |-> [a \in Addresses3 |-> IF a = "b4" THEN "a4" ELSE a],
           zone |-> [a \in {"a4", "a6"} |-> a],
           name |-> [a \in Addresses3 |-> IF a = "a6" THEN a ELSE "a4"],
           domain |-> [a \in {"b4", "a6"} |-> a]]
FillOrder == <<"local", "zone", "name", "domain">>
ClearOrder == <<"name", "domain", "local", "zone">>
ZoneLiterals == [local |-> <<>>, zone |-> <<1, 2>>, name |-> <<>>, domain |-> <<>>]

MCInit ==
    /\ part \in {"tcp", "match", "lists"} /\ ListsInit
    /\ IF part = "tcp" THEN Init ELSE TcpIdle
    /\ IF part = "match" THEN PartInit ELSE MatchIdle
MCNext ==
    \/ part = "tcp" /\ Next /\ UNCHANGED <<part, matchVars, listsVars>>
    \/ part = "match" /\ MatchNext /\ UNCHANGED <<part, vars, listsVars>>
    \/ part = "lists" /\ ListsNext /\ UNCHANGED <<part, vars, matchVars>>
MCSpec == MCInit /\ [][MCNext]_<<part, vars, matchVars, listsVars>> /\ Fairness
=============================================================================
