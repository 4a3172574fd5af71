--------------------------- MODULE MCDnsForward ---------------------------
(* Instances of DnsForward: two servers for one question, the first of     *)
(* which refuses or is silent, on an interface of its own; one for the     *)
(* other question.                                                         *)
EXTENDS DnsForward

MCAsks == {<<"c1", 11, "q1">>, <<"c2", 12, "q1">>, <<"c2", 11, "q2">>}
\* A third ask of the same question, more than there are records for.
MoreAsks == MCAsks \cup {<<"c1", 13, "q1">>}
MCPatient == <<"c2", 12, "q1">>
MCGroup == [q \in Questions |-> IF q = "q1" THEN <<"s1", "s2">> ELSE <<"s3">>]
MCRcodes == [s \in Servers |-> IF s = "s1" THEN {"refused", "none"} ELSE {"ok"}]
MCSource == [s \in Servers |-> IF s = "s1" THEN "eth0" ELSE "any"]
MCFixed == [s \in Servers |-> NoPort]
MCModes == {{}, {Order, Stale}}
=============================================================================
