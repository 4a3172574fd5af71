------------------------------- MODULE MCIpv6 -------------------------------
(* dnsmasq's parts for IPv6 networks on small instances: Dhcp6Server,        *)
(* Dhcp6Relay and RouterAdvert, and Listeners, which follows the addresses   *)
(* of the interfaces.  They share no state: a behaviour is one of one part,  *)
(* as part says, with the others at rest.                                    *)
EXTENDS Dhcp6Server, Dhcp6Relay, RouterAdvert, Listeners

VARIABLE part

-----------------------------------------------------------------------------
(* Two hosts, and prefixes of which the first gives way to the second.      *)

TwoHosts == {"A", "B"}
Hash2 == [A |-> 0, B |-> 0]
Everywhere == [A |-> 0, B |-> 0]
Wishes == [A |-> [preferred |-> 0, valid |-> 0], B |-> [preferred |-> 1, valid |-> 2]]
Range6(n) == [net |-> n, lo |-> 1, hi |-> 3, static |-> FALSE, deprecate |-> FALSE,
              stateless |-> FALSE, filter |-> {}]
Renumbering == << <<Range6(1)>>, <<Range6(2)>> >>
Remembered == {<<1, 2>>, <<1, 4>>}
Fixed == [A |-> << <<1, 4>> >>, B |-> <<>>]

-----------------------------------------------------------------------------
(* Two relays in a row on the way to the server, the outer of which also    *)
(* has an entry back to the inner one: a circle.                            *)

Cs == {"A", "B"}
Links == [A |-> {1}, B |-> {2}, inner |-> {1, 2}, outer |-> {2, 3}, server |-> {3}]
To(i, n, l) == [iface |-> i, to |-> n, link |-> l, arrival |-> AnyLink]
Rings == [inner |-> << To(1, "outer", 2) >>,
          outer |-> << To(2, "server", 3), To(2, "inner", 1) >>]

-----------------------------------------------------------------------------
(* Two prefixes on one interface, hosts on it and behind a bridge to it.    *)

Twin == << [iface |-> 1, net |-> "p"], [iface |-> 1, net |-> "q"] >>
Sites == [a |-> 1, b |-> 2]
Alias == <<1, 1>>
NoPlain == <<>>

-----------------------------------------------------------------------------
(* A loopback interface, and two interfaces with the same IPv4 address.     *)

Places4 == {<<1, "lo">>, <<2, "v4">>, <<3, "v4">>, <<2, "v6">>}
IndexNames == <<"lo", "wlan0", "eth0">>
ListenRests ==
    binding = "wild" /\ names = {} /\ ifAddrs = {} /\ \A p \in Spots : addrs[p] = "none"

-----------------------------------------------------------------------------
MCInit ==
    /\ part \in {"dhcp", "relay", "adverts", "listen"}
    /\ Init /\ RelayInit /\ AdvertInit /\ ListenInit
    /\ part # "listen" => ListenRests

MCNext ==
    \/ part = "dhcp" /\ Next /\ UNCHANGED <<part, relayVars, advertVars, listenVars>>
    \/ part = "relay" /\ RelayNext /\ UNCHANGED <<part, vars, advertVars, listenVars>>
    \/ part = "adverts" /\ AdvertNext /\ UNCHANGED <<part, vars, relayVars, listenVars>>
    \/ part = "listen" /\ ListenNext /\ UNCHANGED <<part, vars, relayVars, advertVars>>

\* The fairness of the parts that have one: what goes on by itself does.
AtRest ==
    \/ part \in {"relay", "listen"}
    \/ part = "dhcp" /\ Settled
    \/ part = "adverts" /\ AdvertSettled
GoesOn == (part = "dhcp" /\ GoOn) \/ (part = "adverts" /\ AdvertGoesOn)

MCSpec == /\ MCInit /\ [][MCNext]_<<part, vars, relayVars, advertVars, listenVars>>
          /\ []<>AtRest \/ []<><<GoesOn>>_<<vars, advertVars>>
          /\ WF_listenVars(part = "listen" /\ MainLoop)

\* Hosts are served after a renumbering (ServedAnew), they know the prefixes
\* (PrefixesFollowed), and the sockets follow the addresses (FollowsKernel).
NetworkFollowed ==
    /\ part = "dhcp" => ServedAnew
    /\ part = "adverts" => PrefixesFollowed
    /\ part = "listen" => FollowsKernel
=============================================================================
