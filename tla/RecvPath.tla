------------------------------ MODULE RecvPath ------------------------------
(***************************************************************************)
(* The flow of received bytes through mcu_test: from lwIP's receive window *)
(* and pbuf pool (mcu_test/lwipopts.h) over the queue of net_client.c to   *)
(* net_ReadPacket, across connections that are lost and opened again.      *)
(*                                                                         *)
(* Module NetClient has the interleavings inside each call; here a call is *)
(* one step and what counts is lengths.  The queue is the FIFO that module *)
(* NetQueue shows it to be.  lwIP is external: a segment takes its length  *)
(* from the window of its connection and is stored in a chain of pool      *)
(* pbufs, the first of which also holds the headers.  Segments that come   *)
(* behind a lost one wait in lwIP (TCP_QUEUE_OOSEQ is on) and join the     *)
(* chain of the segment that fills the gap; they take pbufs at once but    *)
(* their part of the window only then.  tcp_recved gives bytes back to the *)
(* window, up to TCP_WND.                                                  *)
(***************************************************************************)
EXTENDS Integers, Sequences, FiniteSetsExt

CONSTANTS
    NETCLIENT_QUEUE_SIZE,   \* 8
    TCP_WND,                \* 1024 bytes
    FirstLen,               \* data in the first pbuf of a chain: PBUF_POOL_BUFSIZE,
                            \* 256 bytes, less 56 of headers and padding
    RestLen,                \* data in each further one: PBUF_POOL_BUFSIZE
    PBUF_POOL_SIZE,         \* 20 pbufs
    SegmentLen,             \* lengths of the segments the peer sends, at most TCP_MSS
    NULL                    \* the null pointer

ASSUME LenAssumption ==
    /\ NETCLIENT_QUEUE_SIZE \in 1..256
    /\ TCP_WND \in Nat /\ FirstLen \in Nat \ {0} /\ RestLen \in Nat \ {0}
    /\ FirstLen <= RestLen
    /\ PBUF_POOL_SIZE \in Nat /\ SegmentLen \subseteq 1..TCP_WND

\* The sizes of lwipopts.h fit together.  A chain of k pbufs has at least
\* FirstLen + (k - 2) * RestLen + 1 bytes, so SlackLen bounds what each of the
\* segments that can wait at once takes from the pool beyond its share.
SlackLen == 2 * RestLen - FirstLen - 1
ASSUME PoolAssumption ==
    /\ TCP_WND + (NETCLIENT_QUEUE_SIZE - 1) * FirstLen + NETCLIENT_QUEUE_SIZE * SlackLen
          < RestLen * PBUF_POOL_SIZE
    /\ \A n \in SegmentLen :
          TCP_WND + NETCLIENT_QUEUE_SIZE * SlackLen + n + SlackLen
              < RestLen * (PBUF_POOL_SIZE + 1)

\* What lwIP hands to net_ReceiveCb: the tot_len of a chain, the len of its first
\* pbuf, how many pbufs it has, and whether it came on the connection that is up
\* now.
Chain == {s \in [tot : Nat \ {0}, first : 1..FirstLen, parts : Nat, current : BOOLEAN] :
              s.first <= s.tot}
ASSUME NullAssumption == NULL \notin Chain

VARIABLES
    items,      \* the queue, oldest first
    up,         \* external: whether there is a connection
    rcv_wnd,    \* external: its receive window
    refused,    \* external: the chain lwIP offers again, or NULL
    ooseq,      \* external: bytes and pbufs lwIP keeps behind a gap
    cut,        \* history: bytes of this connection freed without being read
    dropped,    \* history: bytes of it lwIP gave up to offer
    credit      \* history: window it got for bytes of earlier connections

vars == <<items, up, rcv_wnd, refused, ooseq, cut, dropped, credit>>

Nothing == [tot |-> 0, parts |-> 0]

Init == /\ items = <<>> /\ up = FALSE /\ rcv_wnd = 0 /\ refused = NULL
        /\ ooseq = Nothing /\ cut = 0 /\ dropped = 0 /\ credit = 0

\* The len of the first pbuf and the number of pbufs that a segment of n bytes has.
FirstPart(n) == Min({n, FirstLen})
Parts(n) == 1 + (n - FirstPart(n) + RestLen - 1) \div RestLen

\* The sum of a sequence of numbers.
Total(s) ==
    LET upTo[n \in 0..Len(s)] == IF n = 0 THEN 0 ELSE upTo[n - 1] + s[n]
    IN  upTo[Len(s)]

\* What the queue and lwIP hold, measured: pbufs, and bytes of the connection
\* that is up.  What is kept behind a gap has pbufs; its bytes are free window.
Held(measure) ==
    Total([i \in DOMAIN items |-> measure[items[i]]])
    + (IF refused = NULL THEN 0 ELSE measure[refused])

PartsHeld == Held([s \in Chain |-> s.parts]) + ooseq.parts
Unread == Held([s \in Chain |-> IF s.current THEN s.tot ELSE 0])

-----------------------------------------------------------------------------
\* net_EnqueuePbuf has a slot left.
HasRoom == Len(items) < NETCLIENT_QUEUE_SIZE - 1

\* net_ReceiveCb: the chain is queued, or refused with ERR_MEM.  (Bug: the
\* result of net_EnqueuePbuf is ignored.)
ReceiveUnchecked(s) ==
    /\ items' = IF HasRoom THEN Append(items, s) ELSE items
    /\ refused' = NULL
Receive(s) ==
    IF HasRoom THEN items' = Append(items, s) /\ refused' = NULL
               ELSE items' = items /\ refused' = s

\* The window while a chain of n bytes waits.  (Bug: it is acknowledged on
\* arrival.)
WindowKept(n) == rcv_wnd
WindowLess(n) == rcv_wnd - n

\* lwIP has the pbufs for a segment of n bytes; it takes no new data while it has
\* some to offer again.
Takes(n) == /\ up /\ refused = NULL
            /\ PartsHeld + Parts(n) <= PBUF_POOL_SIZE

\* A segment of n bytes and what of ooseq it is joined with, in one chain.
Joined(n, more) == [tot |-> n + more.tot, first |-> FirstPart(n),
                    parts |-> Parts(n) + more.parts, current |-> TRUE]

\* The next segment arrives.  It leaves the gap open, or fills it and is handed
\* over with all that was kept behind it.
SegmentArrives ==
    /\ \E n \in SegmentLen, more \in {Nothing, ooseq} :
         /\ Takes(n) /\ n + more.tot <= rcv_wnd
         /\ more = Nothing => ooseq = Nothing \/ n + ooseq.tot < rcv_wnd
         /\ Receive(Joined(n, more))
         /\ rcv_wnd' = WindowLess(n + more.tot)
         /\ ooseq' = IF more = Nothing THEN ooseq ELSE Nothing
    /\ UNCHANGED <<up, cut, dropped, credit>>

\* A segment within the window arrives behind a lost one.
LaterArrives ==
    /\ \E n \in SegmentLen :
         /\ Takes(n) /\ ooseq.tot + n < rcv_wnd
         /\ ooseq' = [tot |-> ooseq.tot + n, parts |-> ooseq.parts + Parts(n)]
    /\ UNCHANGED <<items, up, rcv_wnd, refused, cut, dropped, credit>>

\* lwIP's timer offers the refused chain again ...
Redeliver ==
    /\ up /\ refused # NULL
    /\ Receive(refused)
    /\ UNCHANGED <<up, rcv_wnd, ooseq, cut, dropped, credit>>

\* ... or lwIP "will eventually give up and free the pbuf", as the comment in
\* net_ReceiveCb expects.  The peer's bytes were acknowledged and are lost.
GiveUp ==
    /\ up /\ refused # NULL
    /\ refused' = NULL /\ dropped' = dropped + refused.tot
    /\ UNCHANGED <<items, up, rcv_wnd, ooseq, cut, credit>>

\* tcp_recved(this->hNet, n), without effect when there is no connection.
tcp_recved(n) == rcv_wnd' = IF up THEN Min({rcv_wnd + n, TCP_WND}) ELSE rcv_wnd

\* What net_ReadPacket acknowledges of a chain.  (Bug: the length of the
\* buffer, one byte of which is for a terminator.)
AcknowledgedLess(s) == s.first - 1
Acknowledged(s) == s.first

\* net_DequeuePbuf.  (Bug: the pbuf stays in the queue.)
Peeked == items
Dequeued == Tail(items)

\* net_ReadPacket: pb->len bytes are copied and acknowledged on the connection
\* that is up, and the whole chain is freed.
net_ReadPacket ==
    /\ items # <<>>
    /\ LET s == Head(items)
       IN  /\ tcp_recved(Acknowledged(s))
           /\ cut' = cut + (IF s.current THEN s.tot - s.first ELSE 0)
           /\ credit' = credit + (IF s.current THEN 0 ELSE rcv_wnd' - rcv_wnd)
    /\ items' = Dequeued
    /\ UNCHANGED <<up, refused, ooseq, dropped>>

\* The connection is lost, or closed by net_Disconnect: lwIP frees what it was
\* going to offer again and what it kept behind a gap.  What is in the queue stays there.
Lose ==
    /\ up
    /\ up' = FALSE /\ rcv_wnd' = 0 /\ refused' = NULL /\ ooseq' = Nothing
    /\ items' = [i \in DOMAIN items |-> [items[i] EXCEPT !.current = FALSE]]
    /\ cut' = 0 /\ dropped' = 0 /\ credit' = 0

\* net_Connect, and the answer to its SYN, which needs a pbuf too: a new control
\* block, the old queue.
net_Connect ==
    /\ ~up /\ PartsHeld < PBUF_POOL_SIZE
    /\ up' = TRUE /\ rcv_wnd' = TCP_WND
    /\ UNCHANGED <<items, refused, ooseq, cut, dropped, credit>>

Next == \/ SegmentArrives \/ LaterArrives \/ Redeliver \/ GiveUp
        \/ net_ReadPacket \/ Lose \/ net_Connect

Spec == Init /\ [][Next]_vars

\* While it has a connection main keeps calling umqtt_Run, which reads; lwIP's
\* timer keeps offering what was refused.
FairSpec == Spec /\ WF_vars(up /\ net_ReadPacket) /\ WF_vars(Redeliver)

-----------------------------------------------------------------------------
\* Every byte of the window is accounted for: it is free, or waits in the queue
\* or in lwIP, or was freed with the tail of a chain, or lwIP gave it up.
\* Reordering, refusing, redelivering, reading and reconnecting lose none, and
\* the peer is offered more than TCP_WND only by what net_ReadPacket acknowledged
\* for earlier connections.
WindowAccountedFor ==
    up => /\ TCP_WND <= rcv_wnd + Unread + cut + dropped
          /\ rcv_wnd + Unread + cut + dropped <= TCP_WND + credit

\* A chain that has no more pbufs than one segment of its length would have.
Compact(s) == s.parts <= Parts(s.tot)

\* Segments of one connection that come in order cannot fill the pbuf pool: with
\* nothing kept behind a gap, no chain joined from small segments and none of an
\* earlier connection left, there is a pbuf to spare, so the device goes on
\* hearing acknowledgements and ARP however long main does not read; and if the
\* window was not raised for data of earlier connections, room for a full segment
\* more.  Small segments that came out of order can fill the pool; it suffices
\* again once they have been read.
PoolSuffices ==
    /\ ooseq = Nothing
    /\ \A i \in DOMAIN items : items[i].current /\ Compact(items[i])
    /\ refused # NULL => Compact(refused)
    => /\ PartsHeld < PBUF_POOL_SIZE
       /\ credit = 0 =>
             \A n \in SegmentLen : PartsHeld + Parts(n) <= PBUF_POOL_SIZE

\* A chain net_ReceiveCb refused does not wait for ever: the queue gets room and
\* takes it when it is offered again, unless lwIP gives it up first, as the
\* comment in net_ReceiveCb says it eventually will, or its connection is lost.
RefusedIsTaken == refused # NULL ~> refused = NULL

\* "reads a packet of data received from the network, and stores the packet data":
\* no byte of a segment is freed without having been handed to the application.
PacketIsStored == cut = 0
=============================================================================
