------------------------------- MODULE MCBoot -------------------------------
(* What dnsmasq does for a machine that boots from the network, on small     *)
(* instances: DhcpServer and TftpServer.  They share no state: a behaviour   *)
(* is one of the one or of the other, as part says.                          *)
EXTENDS DhcpServer, TftpServer

VARIABLE part

Clids2 == [A |-> {NoClid, "x"}, B |-> {NoClid}]
Hash2 == [A |-> 2, B |-> 1]
Hosts2 == [A |-> 0, B |-> 3]
Names == {"A", "B"}

SmallFiles == [kernel |-> [k \in 1 .. 8 |-> "byte"], menu |-> <<"byte", LF>>]

Req(f, n, b, w, t) == [file |-> f, netascii |-> n, blksize |-> b, window |-> w,
                       tsize |-> t, timeout |-> -1]

\* One client negotiates a window, as PXE loaders do; the other asks plainly.
Mixed == [pxe |-> {Req("kernel", FALSE, 1, 2, TRUE)},
          plain |-> {Req("menu", TRUE, -1, -1, FALSE)}]

\* Two clients that ask for different files without options.
TwoPlain == [pxe |-> {Req("kernel", FALSE, -1, -1, FALSE)},
             plain |-> {Req("menu", FALSE, -1, -1, FALSE)}]

-----------------------------------------------------------------------------
MCInit ==
    /\ part \in {"dhcp", "tftp"} /\ Init /\ TftpInit
    /\ part = "tftp" => \A m \in Machines : machine[m].clid = CHOOSE c \in Clids[m] : TRUE

MCNext == \/ part = "dhcp" /\ Next /\ UNCHANGED <<part, tftpVars>>
          \/ part = "tftp" /\ TftpNext /\ UNCHANGED <<part, vars>>

\* The fairness of both: what goes on by itself does.
AtRest == IF part = "dhcp" THEN Settled ELSE ~CanGoOn
GoesOn == (part = "dhcp" /\ GoOn) \/ (part = "tftp" /\ TftpGoesOn)

MCSpec == /\ MCInit /\ [][MCNext]_<<part, vars, tftpVars>>
          /\ []<>AtRest \/ []<><<GoesOn>>_<<vars, tftpVars>>

\* A machine that asks comes to its address, and its transfers to an end.
MachinesServed == (part = "dhcp" => Served) /\ DownloadsEnd
=============================================================================
