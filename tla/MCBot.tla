------------------------------- MODULE MCBot -------------------------------
(* The two ends of Bulk-Only Transport on small instances: FfsBot, the       *)
(* drive that libfunctionfs.c is for a host, and UsbBot, the host that       *)
(* UsbVentoy is for a drive.  They never meet (each has its own peer): a     *)
(* behaviour is one of the one or of the other, as part says.  A packet of   *)
(* FfsBot carries two units, a control command has one unit to report, and a *)
(* block is one packet.                                                      *)
EXTENDS FfsBot, UsbBot

VARIABLE part

Req(op, in, len, want) == [op |-> op, in |-> in, len |-> len, want |-> want]

\* What the class drivers of an operating system send (all Consistent): the
\* announced data phase is the one the command block asks for.
UsualRequests ==
    {Req("none", FALSE, 0, 0), Req("verify", FALSE, 0, 0),
     Req("badVerify", FALSE, 0, 0),
     Req("sense", TRUE, 1, 1), Req("sense", TRUE, 3, 3),
     Req("read", TRUE, 0, 0), Req("read", TRUE, 2, 2), Req("read", TRUE, 4, 4),
     Req("readBeyond", TRUE, 4, 4)}
    \cup {Req(op, TRUE, n, n) : op \in {"info", "badInfo"}, n \in 0..3}
    \cup {Req(op, in, n, 0) : op \in {"other", "lun"}, in \in BOOLEAN, n \in {0, 2, 3}}

\* Every disagreement of direction and length between host and command.
AnyRequests ==
    {Req(op, in, n, w) : op \in {"info", "sense"}, in \in BOOLEAN, n \in 0..3,
                         w \in 0..3}
    \cup {Req("read", in, n, w) : in \in BOOLEAN, n \in 0..5, w \in {0, 2, 4}}
    \cup {Req(op, in, n, 0) : op \in {"none", "badInfo", "readBeyond", "verify",
                                     "badVerify", "other", "lun", "invalid"},
                             in \in BOOLEAN, n \in 0..3}

\* Both, the reads in whole packets.
AllRequests == UsualRequests \cup AnyRequests


-----------------------------------------------------------------------------
MCInit == part \in {"device", "host"} /\ Init /\ BotInit

MCNext == \/ part = "device" /\ Next /\ UNCHANGED <<part, botVars>>
          \/ part = "host" /\ BotNext /\ UNCHANGED <<part, vars>>

MCSpec ==
    /\ MCInit /\ [][MCNext]_<<part, vars, botVars>>
    /\ WF_vars(part = "device" /\ Transfer)
    /\ WF_botVars(part = "host" /\ Method)

MethodComesBack == part = "host" => MethodReturns
===========================================================================
