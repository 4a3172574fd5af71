---------------------------- MODULE LeaseScript ----------------------------
(***************************************************************************)
(* The names dnsmasq's leases carry and the script it tells about them.    *)
(*                                                                         *)
(* lease.c keeps the live leases on one list, newest first, and the        *)
(* deleted ones on another until the script knows.  A lease that takes a   *)
(* name robs the lease that had it; the robbed lease remembers the loss    *)
(* (old_hostname) and a flag says that it changed.  Whenever the one-event *)
(* buffer towards the helper is empty, the main loop picks the next thing  *)
(* to tell: deleted leases, then losses, then additions and changes.       *)
(* helper.c is a second process: it takes events from a pipe and runs the  *)
(* script for one after the other.  `told' is what a script knows that     *)
(* follows the manual: "add" and "old" give the lease its name or none,    *)
(* "del" takes it away.                                                    *)
(*                                                                         *)
(* Domains (--dhcp-fqdn), D-Bus and Lua scripts, and names that come from  *)
(* /etc/hosts are left out.  Several handlers can run in one turn of the   *)
(* main loop, so telling is an action of its own: how many of them come    *)
(* before it is left open.                                                 *)
(***************************************************************************)
EXTENDS Integers, Sequences, FiniteSets, SequencesExt

CONSTANTS
    Addrs,       \* addresses that can be leased
    Six,         \* those of them that are IPv6 addresses
    Clients, Names, NoName, Nobody,
    Confs,       \* the configurations a reload can find: names of dhcp-host
    PipeRoom,    \* events the pipe to the helper holds
    Garbles,     \* TRUE: some events are longer than PIPE_BUF
    Overlap,     \* TRUE: dnsmasq can start while an old helper still works
    MaxChanges,  \* bound: requests, releases, expiries and reloads
    MaxRestarts    \* bound: restarts

VARIABLES
    leases,      \* leases: the live ones, first to last; the lease file too
    gone,        \* old_leases: deleted, the script not yet told
    conf,        \* the name dhcp-host gives each client
    buf,         \* the event queue_script built and helper_write has not sent
    pipe,        \* events in the pipe
    running,     \* the event a script runs for, in each helper there is
    heard,        \* what the script has been told
    up,          \* "on", "term": told to stop, "down"
    changes, starts,
    torn,        \* a crash took something the script had not been told
    forgotten    \* deletions no process remembers

table == <<leases, gone, conf>>
helper == <<buf, pipe, running, heard>>
scriptVars == <<leases, gone, conf, buf, pipe, running, heard, up, changes, starts,
          torn, forgotten>>

Unknown == [client |-> Nobody, name |-> NoName]
Places(ls) == {ls[i].addr : i \in DOMAIN ls}
At(ls, a) == CHOOSE i \in DOMAIN ls : ls[i].addr = a
First(S) == CHOOSE i \in S : \A j \in S : i <= j
WithoutAll(ls, S) == SelectSeq(ls, LAMBDA l : l.addr \notin S)

Busy(l) == l.fresh \/ l.changed

---------------------------------------------------------------------------
(* The names *)

\* kill_name: the loss that was waiting to be told is overwritten.
KillName(l) == [l EXCEPT !.lost = l.name, !.name = NoName]

\* The leases lease ls[i] competes with for a name.  Two IPv6 leases of one
\* client may share it.
Rivals(ls, i, name) ==
    {j \in DOMAIN ls : /\ ls[j].name = name
                       /\ ls[j].addr \in Six <=> ls[i].addr \in Six
                       /\ ~ (ls[i].addr \in Six /\ ls[j].client = ls[i].client)}

\* Mutant: the lease that had the name keeps it.
Robbed_Not(ls, i, name) == ls

Robbed(ls, i, name) ==
    LET rivals == Rivals(ls, i, name)
    IN  IF rivals = {} THEN ls
        ELSE [ls EXCEPT ![First(rivals)] = [KillName(@) EXCEPT !.changed = TRUE]]

SetHostname(ls, i, name, auth) ==
    CASE ls[i].name = name -> [ls EXCEPT ![i].auth = @ \/ auth]
      [] /\ ls[i].name # name
         /\ \/ name = NoName
            \/ /\ ~auth
               /\ Rivals(ls, i, name) # {}
               /\ ls[First(Rivals(ls, i, name))].auth -> ls
      [] OTHER -> [Robbed(ls, i, name) EXCEPT ![i] =
                      [(IF @.name # NoName THEN KillName(@) ELSE @)
                          EXCEPT !.name = name, !.auth = @ \/ auth,
                                 !.changed = TRUE]]

UpdateFromConfigs(ls, cf) ==
    FoldLeft(LAMBDA acc, i :
                 IF acc[i].addr \in Six \/ cf[acc[i].client] = NoName THEN acc
                 ELSE SetHostname(acc, i, cf[acc[i].client], TRUE),
             ls, [i \in DOMAIN ls |-> i])

RerunScripts(ls) == [i \in DOMAIN ls |-> [ls[i] EXCEPT !.changed = TRUE]]

\* The pruned leases go to the front of old_leases one by one.
Pruned(S) == Reverse(SelectSeq(leases, LAMBDA l : l.addr \in S)) \o gone

Blank(a, c) == [addr |-> a, client |-> c, name |-> NoName, auth |-> FALSE,
                fresh |-> TRUE, changed |-> TRUE, lost |-> NoName]

---------------------------------------------------------------------------
(* What happens to the leases *)

Change == /\ up = "on"
          /\ changes < MaxChanges
          /\ changes' = changes + 1
          /\ UNCHANGED <<up, starts, torn, forgotten>>

\* A client is granted an address: a new lease or the one it has.  In IPv4
\* the lease it had elsewhere is pruned first.  A name from the configuration
\* goes before the one the client sends; `touched' is whatever else marks the
\* lease as changed (interface, hardware address, an INIT-REBOOT).
Request(a, c, wish, touched) ==
    LET other == {b \in Places(leases) \ {a} :
                     /\ a \notin Six /\ b \notin Six
                     /\ leases[At(leases, b)].client = c}
        kept == WithoutAll(leases, other)
        with == IF a \in Places(kept) THEN kept ELSE <<Blank(a, c)>> \o kept
        i == At(with, a)
        marked == [with EXCEPT ![i].changed = @ \/ touched]
    IN  /\ Change
        /\ a \in Places(leases) => leases[At(leases, a)].client = c
        /\ gone' = Pruned(other)
        /\ leases' = IF conf[c] # NoName
                     THEN SetHostname(marked, i, conf[c], TRUE)
                     ELSE SetHostname(marked, i, wish, FALSE)
        /\ UNCHANGED <<conf, helper>>

\* A release, a decline or the alarm: lease_prune.
Prune(S) ==
    /\ Change
    /\ gone' = Pruned(S)
    /\ leases' = WithoutAll(leases, S)
    /\ UNCHANGED <<conf, helper>>

\* SIGHUP reads dhcp-hostsfile again.
Reload(cf) ==
    /\ Change
    /\ conf' = cf
    /\ leases' = RerunScripts(UpdateFromConfigs(leases, cf))
    /\ UNCHANGED <<gone, helper>>

---------------------------------------------------------------------------
(* The main loop tells: do_script_run and helper_write *)

Event(act, l, name) ==
    [act |-> act, addr |-> l.addr, client |-> l.client, name |-> name]

Telling == /\ up \in {"on", "term"}
           /\ buf = <<>>
           /\ UNCHANGED <<conf, pipe, running, heard, up, changes, starts, torn,
                          forgotten>>

TellGoneLoss ==
    /\ Telling
    /\ gone # <<>> /\ Head(gone).lost # NoName
    /\ buf' = <<Event("old", Head(gone), NoName)>>
    /\ gone' = [gone EXCEPT ![1].lost = NoName]
    /\ UNCHANGED leases

TellDel ==
    /\ Telling
    /\ gone # <<>> /\ Head(gone).lost = NoName
    /\ buf' = <<Event("del", Head(gone), Head(gone).name)>>
    /\ gone' = Tail(gone)
    /\ UNCHANGED leases

Losers == {i \in DOMAIN leases : leases[i].lost # NoName}
Changed == {i \in DOMAIN leases : Busy(leases[i])}

\* Mutant: the loss is told but not struck off.
TellLoss_Again ==
    /\ Telling
    /\ gone = <<>> /\ Losers # {}
    /\ buf' = <<Event("old", leases[First(Losers)], NoName)>>
    /\ UNCHANGED <<leases, gone>>

TellLoss ==
    /\ Telling
    /\ gone = <<>> /\ Losers # {}
    /\ buf' = <<Event("old", leases[First(Losers)], NoName)>>
    /\ leases' = [leases EXCEPT ![First(Losers)].lost = NoName]
    /\ UNCHANGED gone

\* Mutant: news go before losses.
TellChange_First ==
    LET l == leases[First(Changed)] IN
    /\ Telling
    /\ gone = <<>> /\ Changed # {}
    /\ buf' = <<Event(IF l.fresh THEN "add" ELSE "old", l, l.name)>>
    /\ leases' = [leases EXCEPT ![First(Changed)].fresh = FALSE,
                                ![First(Changed)].changed = FALSE]
    /\ UNCHANGED gone

TellChange ==
    LET l == leases[First(Changed)] IN
    /\ Telling
    /\ gone = <<>> /\ Losers = {} /\ Changed # {}
    /\ buf' = <<Event(IF l.fresh THEN "add" ELSE "old", l, l.name)>>
    /\ leases' = [leases EXCEPT ![First(Changed)].fresh = FALSE,
                                ![First(Changed)].changed = FALSE]
    /\ UNCHANGED gone

DoScriptRun == TellGoneLoss \/ TellDel \/ TellLoss \/ TellChange

\* An event longer than PIPE_BUF can be written in two parts; the second is
\* then taken from `buf + rc', rc structures further on, not rc bytes.
Arriving(ev) ==
    IF Garbles THEN {[ev EXCEPT !.name = n] : n \in Names \cup {NoName}}
    ELSE {ev}

\* Mutant: any failed write empties the buffer, EAGAIN too.
HelperWrite_Drops ==
    /\ up \in {"on", "term"}
    /\ buf # <<>>
    /\ pipe' = IF Len(pipe) < PipeRoom THEN Append(pipe, Head(buf)) ELSE pipe
    /\ buf' = <<>>
    /\ UNCHANGED <<table, running, heard, up, changes, starts, torn, forgotten>>

\* With no room in the pipe (EAGAIN) the event stays where it is.
HelperWrite ==
    /\ up \in {"on", "term"}
    /\ buf # <<>>
    /\ Len(pipe) < PipeRoom
    /\ \E ev \in Arriving(Head(buf)) : pipe' = Append(pipe, ev)
    /\ buf' = <<>>
    /\ UNCHANGED <<table, running, heard, up, changes, starts, torn, forgotten>>

---------------------------------------------------------------------------
(* The helper *)

HelperRead ==
    /\ pipe # <<>>
    /\ running = <<>>
    /\ running' = <<Head(pipe)>>
    /\ pipe' = Tail(pipe)
    /\ UNCHANGED <<table, buf, heard, up, changes, starts, torn, forgotten>>

Settled == /\ up = "on"
           /\ gone = <<>> /\ Losers = {} /\ Changed = {}
           /\ buf = <<>> /\ pipe = <<>> /\ running = <<>>

\* The script ends and the helper has reaped it.
ScriptEnds ==
    LET ev == Head(running) IN
    /\ running # <<>>
    /\ running' = <<>>
    /\ heard' = [heard EXCEPT ![ev.addr] =
                   IF ev.act = "del" THEN Unknown
                   ELSE [client |-> ev.client, name |-> ev.name]]
    /\ forgotten' = (IF up = "down" THEN forgotten ELSE forgotten \ {ev.addr})
    /\ UNCHANGED <<table, buf, pipe, up, changes, starts>>
    /\ torn' = (torn /\ ~Settled')

---------------------------------------------------------------------------
(* Ends and starts *)

\* SIGTERM: from now on only the rest is told, writes to the pipe block.
Term ==
    /\ up = "on"
    /\ starts < MaxRestarts
    /\ up' = "term"
    /\ UNCHANGED <<table, helper, changes, starts, torn, forgotten>>

DaemonExits ==
    /\ up = "term"
    /\ buf = <<>> /\ gone = <<>> /\ Losers = {} /\ Changed = {}
    /\ up' = "down"
    /\ UNCHANGED <<table, helper, changes, starts, torn, forgotten>>

\* SIGKILL: the lists and the buffer are lost, the lease file is not; the
\* helper lives until the pipe is empty.
DaemonCrashes ==
    /\ up \in {"on", "term"}
    /\ starts < MaxRestarts
    /\ up' = "down"
    /\ gone' = <<>> /\ buf' = <<>>
    /\ torn' = TRUE
    /\ forgotten' = (forgotten \cup Places(gone)
                       \cup {buf[i].addr : i \in {j \in DOMAIN buf :
                                                    buf[j].act = "del"}})
    /\ UNCHANGED <<leases, conf, pipe, running, heard, changes, starts>>

\* lease_init: what is read first ends up last; names are given again.
LeaseInit(file) ==
    FoldLeft(LAMBDA acc, l :
                 LET ls == SetHostname(<<Blank(l.addr, l.client)>> \o acc,
                                       1, l.name, FALSE)
                 IN  [ls EXCEPT ![1].fresh = FALSE, ![1].changed = FALSE],
             <<>>, file)

\* A new dnsmasq reads the lease file, prunes what has run out and lets the
\* script have every lease again.
Start(S) ==
    LET read == LeaseInit(leases)
        live == WithoutAll(read, S)
    IN  /\ up = "down"
        /\ Overlap \/ (pipe = <<>> /\ running = <<>>)
        /\ up' = "on"
        /\ starts' = starts + 1
        /\ gone' = Reverse(SelectSeq(read, LAMBDA l : l.addr \in S))
        /\ leases' = RerunScripts(UpdateFromConfigs(live, conf))
        /\ UNCHANGED <<conf, helper, changes, torn, forgotten>>

---------------------------------------------------------------------------
ScriptInit ==
    /\ leases = <<>> /\ gone = <<>>
    /\ conf \in Confs
    /\ buf = <<>> /\ pipe = <<>> /\ running = <<>>
    /\ heard = [a \in Addrs |-> Unknown]
    /\ up = "on"
    /\ changes = 0 /\ starts = 0
    /\ torn = FALSE /\ forgotten = {}

ParentStep == DoScriptRun \/ HelperWrite \/ DaemonExits
Helper == HelperRead \/ ScriptEnds

ScriptNext ==
    \/ \E a \in Addrs, c \in Clients, n \in Names \cup {NoName},
          t \in BOOLEAN : Request(a, c, n, t)
    \/ \E S \in (SUBSET Places(leases)) \ {{}} : Prune(S)
    \/ \E cf \in Confs : Reload(cf)
    \/ ParentStep \/ Helper
    \/ Term \/ DaemonCrashes
    \/ \E S \in SUBSET Places(leases) : Start(S)

ScriptSpec == ScriptInit /\ [][ScriptNext]_scriptVars

\* dnsmasq goes on, every script ends, and whoever stopped dnsmasq starts it.
FairScriptSpec == /\ ScriptSpec
            /\ WF_scriptVars(ParentStep) /\ WF_scriptVars(Helper)
            /\ WF_scriptVars(\E S \in SUBSET Places(leases) : Start(S))

---------------------------------------------------------------------------
(* Properties *)

ScriptTypeOK ==
    /\ \A l \in ToSet(leases) \cup ToSet(gone) :
          l \in [addr : Addrs, client : Clients, name : Names \cup {NoName},
                 auth : BOOLEAN, fresh : BOOLEAN, changed : BOOLEAN,
                 lost : Names \cup {NoName}]
    /\ Len(buf) <= 1 /\ Len(running) <= 1 /\ Len(pipe) <= PipeRoom
    /\ up \in {"on", "term", "down"}

\* A name belongs to one client: two IPv4 leases never share it, two IPv6
\* leases only if they are the same client's (lease.c, "two machines claim the
\* same name").
NameOfOneClient ==
    \A i, j \in DOMAIN leases :
        (/\ i # j
         /\ leases[i].name = leases[j].name /\ leases[i].name # NoName
         /\ leases[i].addr \in Six <=> leases[j].addr \in Six)
            => leases[i].addr \in Six /\ leases[i].client = leases[j].client

\* The protected flag means what dnsmasq.h says: the name came from the
\* configuration, now or at an earlier reload, not from the client.
AuthNamed ==
    \A l \in ToSet(leases) : l.auth /\ l.name # NoName
        => \E cf \in Confs : cf[l.client] = l.name

\* The script hears of the loss of a name before its new place: in what it
\* knows no two addresses of different clients hold one name, unless a crash
\* took the news of the loss.
LossFirst ==
    torn \/ \A a, b \in Addrs \ (Six \cup forgotten) :
                a # b /\ heard[a].name = heard[b].name => heard[a].name = NoName

\* When there is nothing left to tell, the script knows exactly the leases
\* there are, whatever the queues, restarts and crashes in between; only a
\* deletion that a crash caught can have been lost.
ScriptFollows ==
    Settled => \A a \in Addrs :
        IF a \in Places(leases)
        THEN LET l == leases[At(leases, a)]
             IN  heard[a] = [client |-> l.client, name |-> l.name]
        ELSE heard[a] = Unknown \/ a \in forgotten

\* Once the leases rest, the script has been told everything.
CatchesUp == <>[]Settled

\* The script can keep a table of the leases and names (man page, --dhcp-script).
ScriptRight == NameOfOneClient /\ LossFirst /\ ScriptFollows
============================================================================
