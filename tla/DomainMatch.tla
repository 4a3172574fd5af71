----------------------------- MODULE DomainMatch -----------------------------
(***************************************************************************)
(* Which server, or which local answer, dnsmasq has for a name             *)
(* (domain-match.c): the lines of the configuration, of the servers file   *)
(* and of resolv.conf become records, the records a sorted array, and a    *)
(* name is looked up in it by a binary search over shorter and shorter     *)
(* ends.  The files change while dnsmasq runs; a reload marks the records  *)
(* of a file, uses them again for its lines, and removes what is left.     *)
(*                                                                         *)
(* Names are sequences of characters, as the search and the order are on   *)
(* characters: Dot sorts first, Hash and Star only occur in lines.         *)
(***************************************************************************)
EXTENDS Integers, FiniteSets, SequencesExt, FiniteSetsExt

CONSTANTS Configs,      \* possible configurations: sequences of lines
          FileLines,    \* possible contents of the servers file
          Resolv,       \* sequence of the resolv files
          Contents,     \* possible contents of one: sequences of addresses
          Source,       \* the source of each address, or AnySource
          Own,          \* addresses of our own interfaces
          Names,        \* the names looked up
          Wanted,       \* and the flags they are looked up with
          MaxChanges,   \* bound on changes of files
          Coarse        \* whether two changes may have one time stamp

Dot == 0
Hash == 8
Star == 9
AnySource == "any"      \* a random port: no socket of its own
NoFile == [content |-> <<>>, mtime |-> 0]

VARIABLES servers,      \* daemon->servers, a chain
          locals,       \* daemon->local_domains, a chain
          array,        \* daemon->serverarray
          wildcard,     \* server_has_wildcard, never cleared
          config,       \* the lines the records come from: of the configuration,
          fileLines,    \*   of the servers file as it was read,
          read,         \*   and of the resolv file as it was read
          disk,         \* the files: the content and time of each resolv file, or NoFile
          seen,         \* mtime of each resolv file, 0 when not known
          now, left,    \* the time, and the changes left
          settled       \* nothing has changed since resolv files were polled

matchVars == <<servers, locals, array, wildcard, config, fileLines, read, disk, seen, now, left, settled>>

-----------------------------------------------------------------------------
(* The order of names and records.                                          *)

\* The values of the flags, as order_qsort subtracts them.
Rank == [six |-> 18, four |-> 10, zeros |-> 6, literal |-> 2, resolv |-> 1, server |-> 0]
IsLocal(r) == r.kind # "server"

HostnameOrder(a, b) ==
    IF a = b THEN 0
    ELSE LET i == Min({k \in DOMAIN a : a[k] # b[k]}) IN IF a[i] < b[i] THEN -1 ELSE 1

\* Longest first, then in dictionary order; those for unqualified names last.
Order(q, r) ==
    IF r.nodots THEN -1
    ELSE IF Len(q) < Len(r.domain) THEN 1
    ELSE IF Len(q) > Len(r.domain) THEN -1
    ELSE HostnameOrder(q, r.domain)

OrderServers(r, s) ==
    LET then(rc) == IF rc # 0 THEN rc
                    ELSE IF r.wild = s.wild THEN 0 ELSE IF r.wild THEN 1 ELSE -1
    IN IF r.nodots THEN (IF s.nodots THEN 0 ELSE 1) ELSE then(Order(r.domain, s))

OrderQsort(r, s) ==
    LET flags == Rank[s.kind] - Rank[r.kind]
        then(rc) == IF rc # 0 THEN rc
                    ELSE IF flags # 0 THEN flags
                    ELSE IF IsLocal(r) \/ IsLocal(s) THEN 0
                    ELSE r.serial - s.serial
    IN then(OrderServers(r, s))

SortedArray(chain, local) ==
    LET all == [i \in DOMAIN chain |-> [chain[i] EXCEPT !.serial = i]] \o local
    IN SortSeq(all, LAMBDA r, s : OrderQsort(r, s) < 0)

-----------------------------------------------------------------------------
(* lookup_domain.  Positions in the array are from 0, as there.             *)

At(i) == array[i + 1]
Size == Len(array)
Suffix(name, n) == SubSeq(name, Len(name) - n + 1, Len(name))
SameGroup(i, j) == OrderServers(At(i), At(j)) = 0

Literal == {"six", "four", "zeros", "literal"}
LocalAddress == {"six", "four", "zeros"}

\* Mutant: an address of the wrong family ends the search for a server.
FilterServers_AnyAddress(seed, flags) ==
    LET same == {i \in 0 .. Size - 1 : SameGroup(i, seed)} IN <<Min(same), Max(same) + 1>>

\* The part of the group of seed that the flags ask for: from, up to.
FilterServers(seed, flags) ==
    LET For(f) == f \in flags /\ "server" \notin flags
        general == At(seed).domain = <<>> /\ ~At(seed).nodots
        \* the kinds that are asked for; the first there are is taken
        order == SelectSeq(<<"six", "four", "zeros", "literal", "resolv", "server">>, LAMBDA k :
                   CASE k = "six" -> For("AAAA")
                     [] k = "four" -> For("A")
                     [] k = "zeros" -> For("A") \/ For("AAAA")
                     [] k = "literal" -> flags \cap {"server", "domainsrv"} = {}
                     [] k = "resolv" -> TRUE
                     [] k = "server" -> ~("domainsrv" \in flags /\ general))
        Span(I) == <<Min(I), Max(I) + 1>>
        of(same, K) == {i \in same : At(i).kind \in K}
        first(same, kinds) == IF kinds = <<>> THEN <<Max(same) + 1, Max(same) + 1>>
                              ELSE Span(of(same, {Head(kinds)}))
        among(same) ==
            IF "config" \in flags
            THEN IF of(same, LocalAddress) = {} THEN <<Min(same), Min(same)>> ELSE Span(same)
            ELSE first(same, SelectSeq(order, LAMBDA k : of(same, {k}) # {}))
    IN among({i \in 0 .. Size - 1 : SameGroup(i, seed)})

\* The binary search for q from low: where, the new low, and how much of q to
\* take away when there is no match.
RECURSIVE Search(_, _, _)
Search(q, low, high) ==
    LET try == (low + high) \div 2
        shorter == {i \in try + 1 .. Size - 1 : Len(At(i).domain) # Len(At(try).domain)}
        end(found, crop) == [found |-> found, at |-> try, low |-> low, crop |-> crop]
        past(i) == Len(q) - Len(At(i).domain)
        with(rc) ==
            IF rc = 0 THEN end(TRUE, 1)
            ELSE IF rc < 0 /\ high = try THEN end(FALSE, past(try))
            ELSE IF rc > 0 /\ low = try
            THEN end(FALSE, IF shorter = {} THEN 1 ELSE past(Min(shorter)))
            ELSE Search(q, IF rc < 0 THEN low ELSE try, IF rc < 0 THEN try ELSE high)
    IN with(Order(q, At(try)))

\* With a wildcard about, the plain domain goes first where a label begins.
Matched(name, q, at) ==
    LET label == Len(q) = Len(name) \/ q = <<>> \/ name[Len(name) - Len(q)] = Dot
        among(same) == IF label THEN {Min(same)} ELSE {i \in {Max(same)} : At(i).wild}
    IN IF ~wildcard THEN {at} ELSE among({i \in 0 .. Size - 1 : Order(q, At(i)) = 0})

\* Down to the start of the next label, unless there are wildcards.
Cropped(name, n) ==
    IF wildcard \/ n <= 0 THEN n
    ELSE Max({k \in 0 .. n : k = 0 \/ name[Len(name) - k] = Dot})

\* Ends of name of n characters and less; n is -1 when all have failed.
RECURSIVE Shorten(_, _, _, _, _)
Shorten(name, n, low, flags, span) ==
    LET q == Suffix(name, n)
        end(got) == [n |-> n, span |-> got, flags |-> flags]
        shorter(s, got, standard) ==
            LET crop == IF standard THEN n ELSE s.crop
            IN Shorten(name, Cropped(name, n - (IF crop = 0 THEN 1 ELSE crop)), s.low,
                       IF standard THEN flags \cup {"server"} ELSE flags, got)
        got(s, hit, part) ==
            IF hit = {} \/ part[1] = part[2] THEN shorter(s, part, FALSE)
            ELSE IF At(part[1]).kind = "resolv" THEN shorter(s, part, TRUE)
            ELSE end(part)
        at(s, hit) ==
            got(s, hit, IF hit = {} THEN span ELSE FilterServers(CHOOSE i \in hit : TRUE, flags))
        from(s) == at(s, IF s.found THEN Matched(name, q, s.at) ELSE {})
    IN IF n < 0 THEN end(span) ELSE from(Search(q, low, Size))

\* The parent's servers answer for DS records.
Asked(domain, flags) ==
    LET dots == {i \in DOMAIN domain : domain[i] = Dot}
    IN IF "DS" \notin flags THEN domain
       ELSE IF dots = {} THEN <<>> ELSE SubSeq(domain, Min(dots) + 1, Len(domain))

\* The records found: from, up to; the same when there are none.
LookupDomain(domain, flags) ==
    LET name == Asked(domain, flags)
        nodots == name # <<>> /\ Dot \notin ToSet(name)
        outcome(r) ==
            IF /\ nodots /\ At(Size - 1).nodots
               /\ r.span[1] = r.span[2] \/ At(r.span[1]).domain = <<>>
            THEN FilterServers(Size - 1, r.flags)
            ELSE IF r.n = -1 THEN <<0, 0>> ELSE r.span
    IN IF Size = 0 THEN <<0, 0>> ELSE outcome(Shorten(name, Len(name), 0, flags, <<0, 0>>))

\* is_local_answer: forwarded, refused, or answered here.
Answer(name, flags) ==
    LET addresses(at) == \E i \in 0 .. Size - 1 : SameGroup(i, at) /\ At(i).kind \in LocalAddress
        answer(what, records) == [what |-> what, to |-> [i \in DOMAIN records |-> records[i].addr]]
        by(at, records) ==
            IF records = <<>> THEN answer("refused", <<>>)
            ELSE IF Head(records).kind = "literal"
            THEN answer(IF addresses(at) THEN "nodata" ELSE "nxdomain", <<>>)
            ELSE answer(IF Head(records).kind \in LocalAddress THEN "address" ELSE "forward", records)
        from(s) == by(s[1], SubSeq(array, s[1] + 1, s[2]))
    IN from(LookupDomain(name, flags))

-----------------------------------------------------------------------------
(* The records.                                                             *)

\* The domains of a line: "" in it is for unqualified names, "#" for all.
Domains(line) ==
    IF line.doms = <<>> THEN << [domain |-> <<>>, wild |-> FALSE, nodots |-> FALSE] >>
    ELSE [i \in DOMAIN line.doms |->
            LET d == line.doms[i]
                dots == {k \in DOMAIN d : \A j \in 1 .. k : d[j] = Dot}
            IN CASE d = <<Hash>> -> [domain |-> <<>>, wild |-> FALSE, nodots |-> FALSE]
                 [] d # <<>> /\ d[1] = Star ->
                      [domain |-> Tail(d), wild |-> Len(d) > 1, nodots |-> FALSE]
                 [] OTHER -> [domain |-> SubSeq(d, Cardinality(dots) + 1, Len(d)),
                              wild |-> FALSE, nodots |-> d = <<>>]]

\* Mutant: the marked records are not looked through.
AddServer_Fresh(chain, d, addr, from) ==
    Append(chain, d @@ [kind |-> "server", addr |-> addr, from |-> from, serial |-> 0, mark |-> FALSE,
                        sfd |-> AnySource,
                        id |-> Min(1 .. Len(chain) + 1 \ {chain[i].id : i \in DOMAIN chain})])

\* add_update_server: a marked record with the domain is used again.
AddServer(chain, d, addr, from) ==
    LET old == {i \in DOMAIN chain : chain[i].mark /\ chain[i].domain = d.domain}
        ids == {chain[i].id : i \in DOMAIN chain}
        new == d @@ [kind |-> "server", addr |-> addr, from |-> from, serial |-> 0, mark |-> FALSE]
    IN IF old # {}
       THEN LET s == chain[Min(old)] IN Append(RemoveAt(chain, Min(old)), new @@ s)
       ELSE Append(chain, new @@ [sfd |-> AnySource, id |-> Min(1 .. Len(chain) + 1 \ ids)])

AddLine(acc, line, from) ==
    FoldLeft(LAMBDA a, d :
               IF line.kind = "server" THEN [a EXCEPT !.servers = AddServer(@, d, line.addr, from)]
               ELSE [a EXCEPT !.locals = << d @@ [kind |-> line.kind, addr |-> line.addr,
                                                   from |-> from, serial |-> 0] >> \o @],
             acc, Domains(line))

AddLines(acc, lines, from) == FoldLeft(LAMBDA a, l : AddLine(a, l, from), acc, lines)

\* Those of one origin are marked, and its local answers removed.
MarkServers(acc, from) ==
    [servers |-> [i \in DOMAIN acc.servers |->
                    [acc.servers[i] EXCEPT !.mark = acc.servers[i].from = from]],
     locals |-> SelectSeq(acc.locals, LAMBDA r : r.from # from)]

CleanupServers(acc) == [acc EXCEPT !.servers = SelectSeq(@, LAMBDA s : ~s.mark)]

\* check_servers: not ourselves; a socket for a source of its own.
CheckServers(acc) ==
    LET there == SelectSeq(acc.servers, LAMBDA s : s.addr \notin Own)
    IN [acc EXCEPT !.servers = [i \in DOMAIN there |->
          [there[i] EXCEPT !.mark = FALSE,
                           !.sfd = IF @ = AnySource THEN Source[there[i].addr] ELSE @]]]

Nameservers(content) == [i \in DOMAIN content |-> [doms |-> <<>>, kind |-> "server", addr |-> content[i]]]

ReloadServers(acc, content) ==
    CleanupServers(AddLines(MarkServers(acc, "resolv"), Nameservers(content), "resolv"))

ReadServersFile(acc, lines) ==
    CheckServers(CleanupServers(AddLines(MarkServers(acc, "file"), lines, "file")))

\* build_server_array
Install(acc) ==
    /\ servers' = acc.servers
    /\ locals' = acc.locals
    /\ array' = SortedArray(acc.servers, acc.locals)
    /\ wildcard' = (wildcard \/ \E r \in ToSet(acc.servers) \cup ToSet(acc.locals) : r.wild)

-----------------------------------------------------------------------------
(* poll_resolv.                                                             *)

Chain == [servers |-> servers, locals |-> locals]
Files == DOMAIN Resolv
There(f) == disk[f].mtime # 0

\* A file known before is gone: look at all of them as if for the first time.
Force == \E f \in Files : ~There(f) /\ seen[f] # 0

\* Mutant: a file that is older than the one in use is not looked at.
Changed_Newer(f) == There(f) /\ \A g \in Files : disk[f].mtime > seen[g]
Changed(f) == There(f) /\ (Force \/ disk[f].mtime # seen[f])

\* The latest of those that have changed, the first of the latest.
Latest ==
    LET new == {f \in Files : Changed(f)}
        top == {f \in new : \A g \in new : disk[f].mtime >= disk[g].mtime}
    IN Min(top)

Poll ==
    LET some == \E f \in Files : Changed(f)
        content == disk[Latest].content
        looked == [f \in Files |-> IF There(f) THEN disk[f].mtime ELSE IF Force THEN 0 ELSE seen[f]]
        acc == ReloadServers(Chain, content)
    IN /\ ~settled
       /\ settled' = TRUE
       /\ IF some
          THEN /\ read' = content
               \* A file without servers is being written: look again next time.
               /\ Install(IF content = <<>> THEN acc ELSE CheckServers(acc))
               /\ seen' = IF content = <<>> THEN [looked EXCEPT ![Latest] = 0] ELSE looked
          ELSE seen' = looked /\ UNCHANGED <<read, servers, locals, array, wildcard>>
       /\ UNCHANGED <<config, fileLines, disk, now, left>>

\* SIGHUP: the servers file is read again.
Reload(lines) ==
    /\ left > 0 /\ left' = left - 1
    /\ fileLines' = lines
    /\ Install(ReadServersFile(Chain, lines))
    /\ UNCHANGED <<config, read, disk, seen, now, settled>>

\* Someone writes a resolv file, or removes it.
Later == IF Coarse THEN {now, now + 1} ELSE {now + 1}
Write(f, c) ==
    /\ left > 0 /\ left' = left - 1
    /\ now' \in Later
    /\ disk' = [disk EXCEPT ![f] = [content |-> c, mtime |-> now']]
    /\ settled' = FALSE
    /\ UNCHANGED <<servers, locals, array, wildcard, config, fileLines, read, seen>>

Unlink(f) ==
    /\ left > 0 /\ left' = left - 1
    /\ There(f)
    /\ disk' = [disk EXCEPT ![f] = NoFile]
    /\ settled' = FALSE
    /\ UNCHANGED <<servers, locals, array, wildcard, config, fileLines, read, seen, now>>

\* The configuration is read, and the resolv files for the first time.
Start(lines, changes) ==
    /\ config = lines /\ fileLines = <<>> /\ read = <<>>
    /\ \E acc \in {CheckServers(AddLines([servers |-> <<>>, locals |-> <<>>], lines, "config"))} :
         /\ servers = acc.servers /\ locals = acc.locals
         /\ array = SortedArray(acc.servers, acc.locals)
         /\ wildcard = (\E r \in ToSet(acc.servers) \cup ToSet(acc.locals) : r.wild)
    /\ disk = Resolv
    /\ seen = [f \in Files |-> 0]
    /\ now = 1 /\ left = changes /\ settled = FALSE

MatchInit == \E lines \in Configs : Start(lines, MaxChanges)

MatchNext ==
    \/ Poll
    \/ \E lines \in FileLines : Reload(lines)
    \/ \E f \in Files : Unlink(f) \/ \E c \in Contents : Write(f, c)

MatchSpec == MatchInit /\ [][MatchNext]_matchVars /\ WF_matchVars(Poll)

-----------------------------------------------------------------------------
(* What the manual says of a name.                                          *)

Lines == config \o fileLines \o Nameservers(read)
Rules == {d @@ [kind |-> l.kind, addr |-> l.addr] :
            <<d, l>> \in UNION {{<<d, l>> : d \in ToSet(Domains(l))} :
                                l \in {m \in ToSet(Lines) : m.kind # "server" \/ m.addr \notin Own}}}
Ends(name, d) == Len(d) <= Len(name) /\ Suffix(name, Len(d)) = d
OnLabels(name, d) ==
    Ends(name, d) /\ (d = <<>> \/ Len(d) = Len(name) \/ name[Len(name) - Len(d)] = Dot)

\* The rules for a domain that a name is in: the plain ones have priority.
InForce(name, d) ==
    LET plain == {r \in Rules : r.domain = d /\ ~r.wild /\ ~r.nodots}
        wild == {r \in Rules : r.domain = d /\ r.wild}
    IN IF OnLabels(name, d) /\ plain # {} THEN plain ELSE IF Ends(name, d) THEN wild ELSE {}

\* An address of the type asked for, or a domain kept here, or a server.
Applies(rules, flags) ==
    LET Of(K) == {r \in rules : r.kind \in K}
        some == CHOOSE n \in 1 .. 5 :
                  LET Level(i) == CASE i = 1 -> Of(IF "AAAA" \in flags THEN {"six"} ELSE {})
                                    [] i = 2 -> Of(IF "A" \in flags THEN {"four"} ELSE {})
                                    [] i = 3 -> Of(IF flags \cap {"A", "AAAA"} # {} THEN {"zeros"} ELSE {})
                                    [] i = 4 -> Of({"literal"})
                                    [] i = 5 -> {}
                  IN (Level(n) # {} \/ n = 5) /\ \A m \in 1 .. n - 1 : Level(m) = {}
        kind == <<"six", "four", "zeros", "literal">>
    IN IF "server" \in flags \/ some = 5
       THEN IF Of({"resolv"}) # {} THEN Of({"resolv"}) ELSE Of({"server"})
       ELSE Of({kind[some]})

\* The most specific domain with a rule for the question; unqualified names
\* have their own instead of the default ones; "#" stands for the default.
Governing(name, flags) ==
    LET nodots == {r \in Rules : r.nodots}
        fit == {d \in {r.domain : r \in Rules} : Applies(InForce(name, d), flags) # {}}
        best == CHOOSE d \in fit : \A e \in fit : Len(e) <= Len(d)
        rules == IF fit = {} THEN {} ELSE Applies(InForce(name, best), flags)
        standard == \E r \in rules : r.kind = "resolv"
        then == IF standard THEN flags \cup {"server"} ELSE flags
        default == IF standard THEN Applies(InForce(<<>>, <<>>), then) ELSE rules
        general == fit = {} \/ best = <<>> \/ standard
    IN IF Dot \notin ToSet(name) /\ name # <<>> /\ nodots # {} /\ general
       THEN [rules |-> Applies(nodots, then), same |-> nodots, open |-> standard /\ default = {}]
       ELSE [rules |-> default, same |-> IF fit = {} THEN {} ELSE InForce(name, best), open |-> FALSE]

Expected(g) ==
    LET kinds == {r.kind : r \in g.rules}
    IN CASE g.rules = {} -> [what |-> "refused", to |-> {}]
         [] kinds # {} /\ kinds \subseteq LocalAddress ->
              [what |-> "address", to |-> {r.addr : r \in g.rules}]
         [] kinds = {"literal"} ->
              [what |-> IF \E r \in g.same : r.kind \in LocalAddress THEN "nodata" ELSE "nxdomain",
               to |-> {}]
         [] OTHER -> [what |-> "forward", to |-> {r.addr : r \in g.rules}]

-----------------------------------------------------------------------------
(* Properties.                                                              *)

\* Whatever the lines, their order and the reloads: a name is answered, or
\* goes to the servers, as the manual says (dnsmasq.8:520-540,582-608), and
\* the servers of resolv.conf are tried in the order of the file.  What
\* an unqualified name whose domain has "#" gets is open when there is no
\* default server.
LookupRight ==
    \A name \in Names, flags \in Wanted :
        \A a \in {Answer(name, flags)}, g \in {Governing(Asked(name, flags), flags)} :
        LET order == SelectSeq(a.to, LAMBDA s : s \in ToSet(read))
        IN /\ g.open \/ [a EXCEPT !.to = ToSet(@)] = Expected(g)
           /\ \A i, j \in DOMAIN order :
                 i < j => \E k, l \in DOMAIN read : k < l /\ read[k] = order[i] /\ read[l] = order[j]

\* The servers come from the resolv file that changed last, whatever was
\* written or removed before the files were looked at, unless the one read
\* last had none (poll_resolv).
Newest == {f \in Files : There(f) /\ \A g \in Files : disk[f].mtime >= disk[g].mtime}
LatestFollowed ==
    settled /\ Newest # {} => read = <<>> \/ \E f \in Newest : read = disk[f].content

\* When that one evaporates, the latest of the others is read even if it has
\* not changed since, servers or none (dnsmasq.c:1781).
LatestForced == settled /\ Newest # {} => \E f \in Newest : read = disk[f].content

\* A reload takes away no more records than there are lines fewer, if none
\* is our own address: what is under way to a server goes on (mark_servers).
RecordsKept ==
    [][LET Ids(chain) == {chain[i].id : i \in DOMAIN chain}
           Of(chain) == SelectSeq(chain, LAMBDA s : s.domain = <<>>)
       IN ToSet(read') \cap Own = {} =>
             Cardinality(Ids(Of(servers)) \ Ids(Of(servers'))) =
                Max({0, Len(Of(servers)) - Len(Of(servers'))})]_matchVars

\* The socket of a server is bound to its source (network.c:1612).
SocketFits == \A i \in DOMAIN servers : servers[i].addr \notin Own => servers[i].sfd = Source[servers[i].addr]

\* Names go where the configuration says, and a reload disturbs nothing else.
LookupsRight == [](LookupRight /\ LatestFollowed) /\ RecordsKept
=============================================================================
