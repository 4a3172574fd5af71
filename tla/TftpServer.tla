----------------------------- MODULE TftpServer -----------------------------
(***************************************************************************)
(* The TFTP server of dnsmasq (tftp.c), in the configuration TftpMode      *)
(* writes: a root directory, one socket for each transfer, no script.      *)
(* The files are sequences of units; a unit is a byte, or a line feed that *)
(* netascii expands.  Clients follow RFC 1350, 2347 and 7440, give up when *)
(* they like, and sit behind a network that loses, delays and reorders.    *)
(*                                                                         *)
(* Addrs are the addresses malloc has for a transfer: they tell transfers  *)
(* apart in get_block's prefetch, which remembers a pointer.               *)
(***************************************************************************)
EXTENDS Integers, FiniteSets, SequencesExt

CONSTANTS HeapAddrs,          \* where malloc may put a struct tftp_transfer
          Requests,       \* the clients' UDP ports, one download each, with
                          \* what each may ask for
          Content,        \* the bytes of each file below the root
          DefaultBlock,   \* 512
          MaxBlock,       \* what packet buffer and MTU allow a block to have
          MaxWindow,      \* TFTP_MAX_WINDOW
          TransferTime,   \* TFTP_TRANSFER_TIME
          TftpMax,        \* tftp_max
          Wrap,           \* 2^16, the values of a block number
          MaxTransfers,   \* bound: transfers the server begins
          MaxTrouble      \* bound: packets lost, and seconds a packet may take

LF == "lf"
CR == "cr"
File == DOMAIN Content
Ports == DOMAIN Requests

ASSUME TftpAssumption ==
    /\ \A f \in File : Content[f] \in Seq({"byte", LF})
    /\ DefaultBlock \in Nat \ {0} /\ MaxBlock \in Nat \ {0}
    /\ MaxWindow \in Nat \ {0} /\ TransferTime \in Nat /\ TftpMax \in Nat
    /\ Wrap \in Nat \ {0} /\ Wrap % 4 = 0 /\ MaxWindow <= Wrap \div 4
    /\ MaxTransfers \in Nat /\ MaxTrouble \in Nat
    /\ \A p \in Ports : \A r \in Requests[p] :
          /\ r.netascii \in BOOLEAN /\ r.tsize \in BOOLEAN
          /\ {r.blksize, r.window, r.timeout} \subseteq Nat \cup {-1}

VARIABLES
    trans,      \* the transfers, in the order they began (inherits records
                \* that malloc reused the address the prefetch was left for)
    save,       \* srv_save, saved_offset and the packet they speak of
    readable,   \* files that still can be read
    client,     \* each port's download
    asks,       \* ports from which a request is under way
    toServer, down,   \* the other packets under way, from and to each port
    trouble     \* packets lost or overtaken, seconds of delay, files lost

tftpVars == <<trans, save, readable, client, asks, toServer, down, trouble>>

NoSave == [addr |-> "none", offset |-> 0, pkt |-> <<>>]
Smaller(a, b) == IF a < b THEN a ELSE b
Most(a, b)  == IF a > b THEN a ELSE b

Active == {i \in DOMAIN trans : trans[i].st = "active"}

-----------------------------------------------------------------------------
(* Packets.                                                                *)

Ack(i, n)  == [op |-> "ACK", to |-> i, block |-> n % Wrap]
Abort(i)   == [op |-> "ERR", to |-> i, block |-> 0]
Failed(i)  == [op |-> "FAIL", from |-> i]
Oack(tr, i)    == [op |-> "OACK", from |-> i, bs |-> tr.bs, window |-> tr.window]
Data(i, d) == [op |-> "DATA", from |-> i, block |-> d.block, data |-> d.data]

\* A transfer as memset and the assignments that follow it leave it.
BlankTransfer(p, a, f) ==
    [st |-> "active", peer |-> p, addr |-> a, file |-> f, aborted |-> FALSE,
     block |-> 1, lastack |-> 1, ackprev |-> 0, block_hi |-> 0,
     bs |-> DefaultBlock, window |-> 1, netascii |-> FALSE, offset |-> 0,
     expansion |-> 0, carrylf |-> FALSE, lastcarrylf |-> FALSE,
     timeout |-> 2, backoff |-> 1, due |-> 0, idle |-> 0, inherits |-> FALSE]

-----------------------------------------------------------------------------
(* get_block: what to send for tr.block.  "zero" says that the file is     *)
(* finished, "error" that it cannot be read.                               *)

\* The loop that maps LF to CR LF, up to a full block.
Expanded(raw, tr) ==
    LET pieces == [k \in DOMAIN raw |->
                     IF raw[k] = LF /\ ~(k = 1 /\ tr.lastcarrylf)
                     THEN <<CR, LF>> ELSE <<raw[k]>>]
        all == FlattenSeq(pieces)
    IN SubSeq(all, 1, Smaller(Len(all), tr.bs))

Expansion(data) == Len(SelectSeq(data, LAMBDA u : u = CR))

\* Mutant: a file that fills its last block is finished with that block.
Finished_NoEmptyBlock(tr, at) == at >= Len(Content[tr.file])

\* A file may end with an empty block.
Finished(tr, at) == at > Len(Content[tr.file])

GetBlock(tr, sv) ==
    LET at  == IF tr.netascii THEN tr.offset ELSE (tr.block - 1) * tr.bs
        trA == [tr EXCEPT !.offset = at]
        raw == SubSeq(Content[tr.file], at + 1,
                      Smaller(Len(Content[tr.file]), at + tr.bs))
        data == IF tr.netascii THEN Expanded(raw, tr) ELSE raw
        pkt  == [block |-> tr.block % Wrap, data |-> data]
    IN CASE tr.block = 0 ->
              [is |-> "oack", tr |-> tr, save |-> NoSave]
         [] tr.block # 0 /\ Finished(tr, at) ->
              [is |-> "zero", tr |-> trA, save |-> sv]
         [] tr.block # 0 /\ ~Finished(tr, at)
              /\ sv.addr = tr.addr /\ sv.offset = at ->
              [is |-> "data", tr |-> trA, save |-> sv]
         [] tr.block # 0 /\ ~Finished(tr, at)
              /\ ~(sv.addr = tr.addr /\ sv.offset = at)
              /\ raw # <<>> /\ tr.file \notin readable ->
              [is |-> "error", tr |-> trA, save |-> NoSave]
         [] OTHER ->
              [is |-> "data",
               tr |-> IF ~tr.netascii THEN trA
                      ELSE [trA EXCEPT !.expansion = Expansion(data),
                              !.carrylf = data # <<>> /\ Last(data) = CR],
               save |-> [addr |-> tr.addr, offset |-> at, pkt |-> pkt]]

\* The packet that goes out for what get_block found.
Packet(i, g) ==
    CASE g.is = "oack"  -> Oack(g.tr, i)
      [] g.is = "data"  -> Data(i, g.save.pkt)
      [] g.is = "error" -> Failed(i)

-----------------------------------------------------------------------------
(* check_tftp_listeners, the second half: what becomes of one transfer.    *)
(* "now" is relative: due is retransmit - now, idle is now - start.        *)

\* The loop that sends a window, or the OACK alone.  Only its first block can
\* be in the buffer: the blocks of a window have different offsets.
Window(i, tr, sv) ==
    LET first == tr.lastack
        got == [k \in first .. first + (IF first # 0 THEN tr.window ELSE 1) - 1 |->
                  GetBlock([tr EXCEPT !.block = k], IF k = first THEN sv ELSE NoSave)]
        sent == {k \in DOMAIN got : got[k].is # "zero"}
        end == Max(sent)
    IN IF sent = {} THEN [tr |-> tr, save |-> sv, out |-> <<>>, error |-> FALSE]
       ELSE [tr |-> [got[end].tr EXCEPT !.block = end + 1], save |-> got[end].save,
             out |-> [n \in 1 .. Cardinality(sent) |-> Packet(i, got[first + n - 1])],
             error |-> \E k \in sent : got[k].is = "error"]

\* What free_transfer leaves of a transfer: how it ended, and for whom.
Over(st, tr) ==
    [BlankTransfer(tr.peer, tr.addr, tr.file) EXCEPT !.st = st, !.inherits = tr.inherits]

\* What lies beyond TransferTime makes no difference to a transfer.
Capped(n) == Smaller(n, TransferTime + 1)

\* Mutant: as before TFTP_TRANSFER_TIME, only the client can end a transfer.
Abandoned_Never(tr) == FALSE

\* A transfer nobody has acknowledged anything of for too long.
Abandoned(tr) == tr.idle > TransferTime

\* What is left of the transfer once it is served: it goes on, it is reported
\* as sent, or it has failed; with the packets sent and the buffer left.
ServedAs(i, tr, sv) ==
    LET now == [tr EXCEPT !.due = Capped(@ + tr.timeout + 2 ^ (tr.backoff \div 2)),
                          !.backoff = Capped(@ + 1)]
        w   == Window(i, now, sv)
        pre == GetBlock(w.tr, w.save)
        at  == GetBlock(tr, sv)
        result(st, t, s, o) ==
            [tr |-> IF st = "active" THEN t ELSE Over(st, t), save |-> s, out |-> o]
    IN CASE tr.aborted -> result("failed", tr, sv, <<>>)
         [] ~tr.aborted /\ Abandoned(tr) ->
              result(IF at.is \in {"oack", "data"} THEN "failed" ELSE "sent",
                     at.tr, at.save, <<>>)
         [] ~tr.aborted /\ ~Abandoned(tr) /\ tr.due <= 0 ->
              IF w.error \/ w.out = <<>>
              THEN result(IF w.error THEN "failed" ELSE "sent", w.tr, w.save, w.out)
              ELSE result("active", pre.tr, pre.save, w.out)
         [] OTHER -> result("active", tr, sv, <<>>)

\* The packets of a port that still find a socket if transfer i is over.
StillOpen(i, q) == SelectSeq(q, LAMBDA m : m.to # i)

\* What the server found for transfer i, whose peer's packets are q, is done.
Settle(i, s, q) ==
    LET p == trans[i].peer IN
    /\ trans' = [trans EXCEPT ![i] = s.tr]
    /\ save' = s.save
    /\ toServer' = [toServer EXCEPT ![p] = IF s.tr.st = "active" THEN q ELSE StillOpen(i, q)]
    /\ down' = [down EXCEPT ![p] = @ \o s.out]

Urgent(i) == trans[i].due <= 0 \/ Abandoned(trans[i])

\* A transfer whose timer ran out, or that is abandoned.
Serve(i) ==
    /\ trans[i].st = "active"
    /\ Urgent(i)
    /\ Settle(i, ServedAs(i, trans[i], save), toServer[trans[i].peer])
    /\ UNCHANGED <<readable, client, asks, trouble>>

-----------------------------------------------------------------------------
(* handle_tftp.                                                            *)

\* Mutant: block numbers do not wrap.
HighPart_Flat(tr, new) == 0

\* The 32-bit block an ACK most likely means, from its 16 bits and the last one.
HighPart(tr, new) ==
    CASE new <= Wrap \div 4 /\ tr.ackprev >= 3 * (Wrap \div 4) -> tr.block_hi + 1
      [] new >= 3 * (Wrap \div 4) /\ tr.ackprev <= Wrap \div 4 /\ tr.block_hi # 0
           -> tr.block_hi - 1
      [] OTHER -> tr.block_hi

\* Mutant: netascii moves on by a whole block of the file.
Unexpanded_Whole(tr) == tr.bs

\* What a full block was of the file, before its LFs became CR LF.
Unexpanded(tr) == tr.bs - tr.expansion

HandleAck(tr, new) ==
    LET hi    == HighPart(tr, new)
        block == hi * Wrap + new
        seen  == [tr EXCEPT !.block_hi = hi, !.ackprev = new]
        moved == [seen EXCEPT !.due = 0, !.idle = 0, !.backoff = 0,
                              !.lastack = block + 1]
    IN IF ~(tr.lastack <= block /\ block <= tr.block) THEN seen
       ELSE IF tr.netascii /\ block # 0
            THEN [moved EXCEPT !.offset = @ + Unexpanded(tr),
                               !.lastcarrylf = tr.carrylf]
            ELSE moved

\* A packet from the transfer's peer is handled and the transfer served in one
\* pass of check_tftp_listeners.  (Packets from elsewhere are answered by an
\* error nobody here sends for.)
HandleTftp(i) ==
    LET q == toServer[trans[i].peer] IN
    /\ q # <<>> /\ q[1].to = i
    /\ trans[i].st = "active"
    /\ LET tr == IF q[1].op = "ACK" THEN HandleAck(trans[i], q[1].block)
                 ELSE [trans[i] EXCEPT !.aborted = TRUE]
       IN Settle(i, ServedAs(i, tr, save), Tail(q))
    /\ UNCHANGED <<readable, client, asks, trouble>>

-----------------------------------------------------------------------------
(* tftp_request.                                                           *)

\* The options of a request; -1 stands for an option that is absent.
Negotiated(tr, r) ==
    LET window == r.window # -1 /\ ~r.netascii
        any == r.blksize # -1 \/ (r.tsize /\ ~r.netascii) \/ r.timeout # -1 \/ window
    IN [tr EXCEPT
          !.netascii = r.netascii,
          !.bs = IF r.blksize = -1 THEN DefaultBlock
                 ELSE Smaller(Most(r.blksize, 1), MaxBlock),
          !.window = IF window THEN Smaller(Most(r.window, 1), MaxWindow) ELSE 1,
          !.timeout = IF r.timeout = -1 THEN 2 ELSE Smaller(r.timeout, 255),
          !.block = IF any THEN 0 ELSE 1]

\* Mutant: a transfer that is over keeps its place.
Listening_Leaks == Len(trans) <= TftpMax

\* set_tftp_listeners polls the server's socket only while there is room.
Listening == Cardinality(Active) <= TftpMax

\* What check_tftp_fileperm says of a name.
MayServe(f) == f \in readable

\* The transfer for the request of p, in the memory malloc gives for it.
NewTransfer(p, a) ==
    LET tr == Negotiated(BlankTransfer(p, a, client[p].req.file), client[p].req)
    IN [tr EXCEPT !.lastack = tr.block, !.due = tr.timeout,
                  !.inherits = save.addr = a]

\* The first answer goes out, the OACK or block 1, or the transfer is dropped.
Answered(i, tr) ==
    LET g  == GetBlock(tr, save)
        ok == MayServe(tr.file) /\ g.is # "error"
    IN [tr   |-> IF ok THEN g.tr ELSE Over("failed", tr),
        save |-> IF MayServe(tr.file) THEN g.save ELSE save,
        out  |-> IF ok THEN Packet(i, g) ELSE Failed(i)]

TftpRequest ==
    \E p \in asks, a \in HeapAddrs \ {trans[i].addr : i \in Active} :
        /\ Listening
        /\ Len(trans) < MaxTransfers
        /\ LET new == Answered(Len(trans) + 1, NewTransfer(p, a))
           IN /\ trans' = Append(trans, new.tr)
              /\ save' = new.save
              /\ down' = [down EXCEPT ![p] = Append(@, new.out)]
        /\ asks' = asks \ {p}
        /\ UNCHANGED <<readable, client, toServer, trouble>>

-----------------------------------------------------------------------------
(* Clients.                                                                *)

NoAsk == [file |-> "none", netascii |-> FALSE, blksize |-> -1, window |-> -1,
          tsize |-> FALSE, timeout |-> -1]

Idle == [st |-> "idle", req |-> NoAsk, tid |-> 0, bs |-> 0, window |-> 0,
         count |-> 0, got |-> <<>>, since |-> 0, quiet |-> FALSE]

Ask(p, r) ==
    /\ client[p].st = "idle"
    /\ client' = [client EXCEPT ![p] = [Idle EXCEPT !.st = "asked", !.req = r]]
    /\ asks' = asks \cup {p}
    /\ UNCHANGED <<trans, save, readable, toServer, down, trouble>>

\* Packets of p to the sockets that are open.
Sent(p, packets) == toServer[p] \o SelectSeq(packets, LAMBDA m : m.to \in Active)

\* A second without an answer: the client repeats its request, or how far it
\* has come.
Repeat(p) ==
    LET c == client[p] IN
    /\ c.quiet
    /\ client' = [client EXCEPT ![p].quiet = FALSE]
    /\ IF c.st = "asked"
       THEN asks' = asks \cup {p} /\ UNCHANGED toServer
       ELSE toServer' = [toServer EXCEPT ![p] = Sent(p, <<Ack(c.tid, c.count)>>)] /\ UNCHANGED asks
    /\ UNCHANGED <<trans, save, readable, down, trouble>>

\* The first packet is taken and answered.
Reply(p, c, answer) ==
    /\ client' = [client EXCEPT ![p] = [c EXCEPT !.quiet = FALSE]]
    /\ down' = [down EXCEPT ![p] = Tail(@)]
    /\ toServer' = [toServer EXCEPT ![p] = Sent(p, answer)]
    /\ UNCHANGED <<trans, save, readable, asks, trouble>>

\* The server agrees to the options, or says so again.
TakeOack(p, m) ==
    LET c == client[p] IN
    /\ m.op = "OACK" /\ c.st \in {"asked", "busy", "done"}
    /\ c.st # "asked" => m.from = c.tid
    /\ IF c.count = 0
       THEN Reply(p, [c EXCEPT !.st = "busy", !.tid = m.from, !.bs = m.bs,
                                  !.window = m.window], <<Ack(m.from, 0)>>)
       ELSE Reply(p, c, <<Ack(m.from, c.count)>>)

\* A block: the next one is kept, and acknowledged if it ends a window or the
\* file; for any other the client says again how far it has come.
TakeData(p, m) ==
    LET c == IF client[p].st = "asked"
             THEN [client[p] EXCEPT !.st = "busy", !.tid = m.from,
                                    !.bs = DefaultBlock, !.window = 1]
             ELSE client[p]
        final == Len(m.data) < c.bs
        kept == [c EXCEPT !.count = @ + 1, !.got = @ \o m.data,
                          !.since = (@ + 1) % c.window,
                          !.st = IF final THEN "done" ELSE "busy"]
    IN /\ m.op = "DATA" /\ c.st \in {"busy", "done"}
       /\ m.from = c.tid
       /\ IF c.st = "busy" /\ m.block = (c.count + 1) % Wrap
          THEN Reply(p, kept, IF final \/ kept.since = 0
                                 THEN <<Ack(m.from, kept.count)>> ELSE <<>>)
          ELSE Reply(p, [c EXCEPT !.since = 0], <<Ack(m.from, c.count)>>)

\* A packet of a transfer this client did not settle for.
WrongTid(p, m) ==
    /\ m.op \in {"OACK", "DATA"}
    /\ client[p].st \in {"busy", "done"} /\ m.from # client[p].tid
    /\ Reply(p, client[p], <<Abort(m.from)>>)

TakeFail(p, m) ==
    /\ m.op = "FAIL"
    /\ Reply(p, IF client[p].st = "asked" \/ client[p].tid = m.from
                   THEN [client[p] EXCEPT !.st = IF @ = "done" THEN @ ELSE "failed"]
                   ELSE client[p], <<>>)

Receive(p) ==
    /\ down[p] # <<>>
    /\ LET m == Head(down[p]) IN
       \/ TakeOack(p, m) \/ TakeData(p, m) \/ WrongTid(p, m) \/ TakeFail(p, m)
       \/ client[p].st \in {"failed", "gone"} /\ m.op # "FAIL"
          /\ Reply(p, client[p], <<>>)

\* A client stops: it says so (PXE does once it has learnt the size), or is
\* switched off.
GiveUp(p) ==
    /\ client[p].st = "busy"
    /\ client' = [client EXCEPT ![p] = [Idle EXCEPT !.st = "gone", !.req = client[p].req]]
    /\ \/ toServer' = [toServer EXCEPT ![p] = Sent(p, <<Abort(client[p].tid)>>)]
       \/ UNCHANGED toServer
    /\ UNCHANGED <<trans, save, readable, asks, down, trouble>>

-----------------------------------------------------------------------------
(* The rest of the world.                                                  *)

Trouble == trouble < MaxTrouble /\ trouble' = trouble + 1

SwapAt(q, k) == [q EXCEPT ![k] = q[k + 1], ![k + 1] = q[k]]

\* One packet is lost, or overtaken by the next.
Garbled(q) ==
    {RemoveAt(q, k) : k \in 1 .. Len(q)}
    \cup {SwapAt(q, k) : k \in 1 .. Len(q) - 1}

Disturb(p) ==
    /\ Trouble
    /\ \/ p \in asks /\ asks' = asks \ {p} /\ UNCHANGED <<toServer, down>>
       \/ \E q \in Garbled(toServer[p]) : toServer' = [toServer EXCEPT ![p] = q] /\ UNCHANGED <<asks, down>>
       \/ \E q \in Garbled(down[p]) : down' = [down EXCEPT ![p] = q] /\ UNCHANGED <<asks, toServer>>
    /\ UNCHANGED <<trans, save, readable, client>>

\* The SD card is pulled, or the file replaced by one nobody may read.
Unreadable(f) ==
    /\ Trouble
    /\ readable' = readable \ {f}
    /\ f \in readable
    /\ UNCHANGED <<trans, save, client, asks, toServer, down>>

UnderWay == (asks # {} /\ Listening) \/ \E p \in Ports : toServer[p] # <<>> \/ down[p] # <<>>

Downloading == {p \in Ports : client[p].st \in {"asked", "busy"}}

\* A second passes.  While a transfer exists the main loop wakes every quarter
\* of a second, so what is due has been served; a second in which a packet stays
\* under way counts as trouble.
TftpTick ==
    /\ Active # {} \/ Downloading # {}
    /\ \A i \in Active : ~Urgent(i)
    /\ IF UnderWay THEN Trouble ELSE UNCHANGED trouble
    /\ trans' = [i \in DOMAIN trans |->
                   IF i \notin Active THEN trans[i]
                   ELSE [trans[i] EXCEPT !.due = @ - 1, !.idle = Capped(@ + 1)]]
    /\ client' = [p \in Ports |-> [client[p] EXCEPT !.quiet = p \in Downloading]]
    /\ UNCHANGED <<save, readable, asks, toServer, down>>

TftpInit ==
    /\ trans = <<>>
    /\ save = NoSave
    /\ readable = File
    /\ client = [p \in Ports |-> Idle]
    /\ asks = {}
    /\ toServer = [p \in Ports |-> <<>>]
    /\ down = [p \in Ports |-> <<>>]
    /\ trouble = 0

Server == TftpRequest \/ \E i \in DOMAIN trans : Serve(i) \/ HandleTftp(i)

TftpNext ==
    \/ Server
    \/ \E p \in Ports : Receive(p) \/ Repeat(p) \/ GiveUp(p)
                        \/ \E r \in Requests[p] : Ask(p, r)
    \/ \E p \in Ports : Disturb(p)
    \/ \E f \in File : Unreadable(f)
    \/ TftpTick

TftpSpec == TftpInit /\ [][TftpNext]_tftpVars

\* When the server, the clock and a client have something to do: ENABLED of the
\* actions below, written out because TLC evaluates ENABLED of so large actions
\* too slowly.
ServerCan ==
    \/ \E i \in Active : Urgent(i) \/ toServer[trans[i].peer] # <<>>
    \/ asks # {} /\ Listening /\ Len(trans) < MaxTransfers
       /\ HeapAddrs \ {trans[i].addr : i \in Active} # {}

TickCan ==
    /\ Active # {} \/ Downloading # {}
    /\ \A i \in Active : ~Urgent(i)
    /\ UnderWay => trouble < MaxTrouble

ClientCan(p) == down[p] # <<>> \/ client[p].quiet

CanGoOn == ServerCan \/ TickCan \/ \E p \in Ports : ClientCan(p)

TftpGoesOn == Server \/ TftpTick \/ \E p \in Ports : Receive(p) \/ Repeat(p)

\* Weak fairness of all of them together: the main loop runs, packets arrive,
\* a client that waits asks again, and time passes.  Since no second passes
\* while something urgent waits, none of them can starve another.
FairTftpSpec == TftpSpec /\ ([]<>~CanGoOn \/ []<><<TftpGoesOn>>_tftpVars)

-----------------------------------------------------------------------------
(* What should hold.                                                       *)

\* The bytes a client should have: with netascii, every LF becomes CR LF.
Wanted(r) ==
    IF r.netascii
    THEN FlattenSeq([k \in DOMAIN Content[r.file] |->
                        IF Content[r.file][k] = LF THEN <<CR, LF>>
                        ELSE <<Content[r.file][k]>>])
    ELSE Content[r.file]

Receiving(p) == client[p].st \in {"busy", "done"}

Right(p) ==
    /\ IsPrefix(client[p].got, Wanted(client[p].req))
    /\ client[p].st = "done" => client[p].got = Wanted(client[p].req)

\* A client is given the bytes of the file it asked for, in order, and all of
\* them by the time it thinks it is done, whatever is lost, repeated or shared
\* with other transfers (get_block's prefetch, the ACK arithmetic).
OwnBytes == \A p \in Ports : Receiving(p) => Right(p)

\* OwnBytes, but for transfers that inherit the address of a freed one whose
\* block is still in the buffer.
OwnBytesUnlessInherited ==
    \A p \in Ports :
        Receiving(p) /\ ~trans[client[p].tid].inherits => Right(p)

\* A transfer the server reports as sent before its time is up was received to
\* the last byte.
SentIsReceived ==
    [][\A i \in DOMAIN trans :
          (trans[i].st = "active" /\ trans[i].idle <= TransferTime
           /\ trans'[i].st = "sent")
          => client[trans[i].peer].st \in {"done", "gone"}]_tftpVars

\* Every transfer ends, even if its client is switched off or repeats itself:
\* there are finitely many, and once they are over the server stays idle.
TransferEnds == <>[](Active = {})

\* A client that does not give up has its file in the end, or was told why not.
Delivered == <>[](Downloading = {})

\* What a client is sent is what it asked for, and "sent" is logged only of
\* what arrived (get_block, handle_tftp, check_tftp_listeners).
DownloadsRight == []OwnBytesUnlessInherited /\ SentIsReceived

\* Neither server nor client is left waiting (check_tftp_listeners).
DownloadsEnd == TransferEnds /\ Delivered
=============================================================================
