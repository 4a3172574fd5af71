---------------------------- MODULE MCDnsCache ----------------------------
(* Instances of DnsCache: aliases, two addresses, negative answers with    *)
(* and without their zone, reverse records, names that do not fit.         *)
EXTENDS DnsCache

MCNames == {"www", "cdn", "host", "zone"}
MCBucket == [n \in MCNames |-> IF n \in {"www", "cdn"} THEN 1 ELSE 2]

Positive(names, type, data, ttl) ==
    [names |-> names, type |-> type, data |-> data, nx |-> FALSE, soa |-> "", addr |-> 0, ttl |-> ttl]
Denied(names, nx, soa) ==
    [names |-> names, type |-> "A", data |-> <<>>, nx |-> nx, soa |-> soa, addr |-> 0, ttl |-> 1]

MCReplies ==
    {Positive(<<"www", "cdn">>, "A", <<10>>, 2),
     Positive(<<"cdn">>, "A", <<11, 12>>, 1),
     [Positive(<<"www">>, "PTR", <<>>, 1) EXCEPT !.addr = 10],
     Positive(<<"www", "host">>, "A", <<1>>, 2),
     Denied(<<"www", "cdn">>, FALSE, "zone"),
     Denied(<<"www">>, TRUE, "zone"),
     Denied(<<"www", "cdn">>, FALSE, "")}

\* Upstream gives a name the address that a lease has.
LeaseAliasReplies == {Positive(<<"www", "cdn">>, "A", <<20>>, 2)}

Line(n, a) == [name |-> n, addr |-> a]
MCHosts == {<<Line("host", 1)>>, <<Line("host", 1), Line("cdn", 1), Line("host", 2)>>}
MCQuestions == {<<"www", "A">>, <<"cdn", "SOA">>}
MCLeases == {<<>>, <<Line("cdn", 20)>>}

=============================================================================
