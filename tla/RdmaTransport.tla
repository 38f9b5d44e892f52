----------------------------- MODULE RdmaTransport -----------------------------
(***************************************************************************)
(* Go-back-N of the RDMA NIC (rdma-hw.cc, rdma-queue-pair.cc) for one      *)
(* queue pair: the sender's RdmaQueuePair, the receiver's RdmaRxQueuePair  *)
(* and the fabric between them, which keeps the order of a flow's packets  *)
(* (one path per flow) and may drop some.                                  *)
(*                                                                         *)
(* When the NIC may transmit, paced and paused as it is, is not modelled:  *)
(* a packet the queue pair may send is sent at some time.  Sequence        *)
(* numbers are 32 bits wide on the wire; messages are shorter than that.   *)
(***************************************************************************)
EXTENDS Integers, Sequences, SequencesExt

CONSTANTS
  Flows,           \* the flows that may be started, see FlowType
  m_mtu, m_ack_interval, m_chunk,   \* attributes of RdmaHw
  Uint64,          \* number of values of uint64_t, scaled down
  MaxInFlight,     \* bound: packets on their way, in either direction
  MaxLoss          \* bound: packets that get lost

VARIABLES
  flow,        \* the parameters of the flow, chosen when it is added
  qp,          \* the sender's RdmaQueuePair
  rx,          \* the receiver's RdmaRxQueuePair
  data, acks,  \* what is on its way to the receiver, and to the sender
  stopped,     \* qp->stopTime has passed
  delivered,   \* history: the bytes accepted so far before the first missing one
  losses       \* the packets lost so far

vars == <<flow, qp, rx, data, acks, stopped, delivered, losses>>

\* A flow has a size, a window (zero: none), the mode of its NICs (m_backto0)
\* and perhaps a stop time.
FlowType(f) ==
  /\ f.m_size \in Nat \ {0} /\ f.m_win \in Nat
  /\ f.m_backto0 \in BOOLEAN /\ f.stopTime \in BOOLEAN

ASSUME TransportConfiguration ==
  /\ \A f \in Flows : FlowType(f)
  /\ m_mtu \in Nat \ {0} /\ m_chunk \in Nat \ {0}
  /\ m_ack_interval \in Nat \ {0}
  /\ \A f \in Flows : f.m_size + f.m_win < Uint64
  /\ Uint64 \in Nat /\ MaxInFlight \in Nat /\ MaxLoss \in Nat

\* AddQueuePair enters the pair in m_qpMap and in its NIC's group.
NewQp == [snd_una |-> 0, snd_nxt |-> 0, inMap |-> TRUE, inGroup |-> TRUE]

\* GetRxQp creates the receiver's side with the first packet.  waiting: the time
\* m_nackTimer has not been reached.
NewRx == [ReceiverNextExpectedSeq |-> 0, m_lastNACK |-> 0, waiting |-> FALSE]

Smaller(a, b) == IF a <= b THEN a ELSE b
Larger(a, b) == IF a >= b THEN a ELSE b

-------------------------------------------------------------------------------
(* Sender *)

GetBytesLeft == IF flow.m_size >= qp.snd_nxt THEN flow.m_size - qp.snd_nxt ELSE 0

\* Fault: acknowledgements do not open the window.
GetOnTheFly_Sent == qp.snd_nxt

GetOnTheFly == (qp.snd_nxt - qp.snd_una) % Uint64

IsWinBound == flow.m_win # 0 /\ GetOnTheFly >= flow.m_win

\* Fault: finished with the last packet still unacknowledged.
IsFinished_Early(una) == stopped \/ una + m_mtu >= flow.m_size

\* Asked when everything up to una is acknowledged.
IsFinished(una) == stopped \/ una >= flow.m_size

\* Fault: the last packet is as long as the others.
PayloadSize_Mtu == m_mtu

PayloadSize == Smaller(m_mtu, GetBytesLeft)

\* GetNextQindex picks the queue pair and GetNxtPacket makes its next packet.
Send ==
  /\ qp.inGroup /\ GetBytesLeft > 0 /\ ~IsWinBound
  /\ Len(data) < MaxInFlight
  /\ data' = Append(data, [seq |-> qp.snd_nxt, size |-> PayloadSize])
  /\ qp' = [qp EXCEPT !.snd_nxt = @ + PayloadSize]
  /\ UNCHANGED <<flow, rx, acks, stopped, delivered, losses>>

\* GetNextQindex takes finished queue pairs out of the group, one that could still
\* send too if a finished pair that could not comes before it.
ClearFinished ==
  /\ qp.inGroup /\ IsFinished(qp.snd_una)
  /\ qp' = [qp EXCEPT !.inGroup = FALSE]
  /\ UNCHANGED <<flow, rx, data, acks, stopped, delivered, losses>>

\* In go-back-to-zero mode only whole chunks are acknowledged.
WholeChunks(seq) == IF flow.m_backto0 THEN (seq \div m_chunk) * m_chunk ELSE seq

Acknowledged(una, seq) == Larger(una, seq)

\* ReceiveAck.  A NACK makes the sender go back to the first byte that is not
\* acknowledged.  QpComplete takes a finished pair out of the map, and its
\* callback deletes the receiver's side.  Without the pair the ACK is ignored.
ReceiveAck ==
  /\ acks # <<>>
  /\ acks' = Tail(acks)
  /\ LET una == Acknowledged(qp.snd_una, WholeChunks(Head(acks).seq))
         nxt == IF Head(acks).nack THEN una ELSE qp.snd_nxt
     IN  /\ qp' = IF qp.inMap
                  THEN [qp EXCEPT !.snd_una = una, !.snd_nxt = nxt,
                                  !.inMap = ~IsFinished(una)]
                  ELSE qp
         /\ rx' = IF qp.inMap /\ IsFinished(una) THEN NewRx ELSE rx
  /\ UNCHANGED <<flow, data, stopped, delivered, losses>>

-------------------------------------------------------------------------------
(* Receiver *)

Ack(seq) == [nack |-> FALSE, seq |-> seq]
Nack(seq) == [nack |-> TRUE, seq |-> seq]

\* Fault: the packet that arrives is taken for the one that is expected.
InOrder_Any(p) == p.seq >= rx.ReceiverNextExpectedSeq

InOrder(p) == p.seq = rx.ReceiverNextExpectedSeq

\* m_milestone_rx is set to m_ack_interval for every packet.
Acks(next) == next >= m_ack_interval \/ next % m_chunk = 0

\* ReceiveUdp, when ReceiverCheckSeq finds the expected packet.
ReceiveInOrder ==
  /\ data # <<>> /\ Len(acks) < MaxInFlight
  /\ InOrder(Head(data))
  /\ LET next == Head(data).seq + Head(data).size
     IN  /\ rx' = [rx EXCEPT !.ReceiverNextExpectedSeq = next]
         /\ acks' = IF Acks(next) THEN Append(acks, Ack(next)) ELSE acks
         /\ delivered' = IF Head(data).seq <= delivered
                         THEN Larger(delivered, next) ELSE delivered
  /\ data' = Tail(data)
  /\ UNCHANGED <<flow, qp, stopped, losses>>

\* A NACK is due unless one for the same packet was sent less than
\* m_nack_interval ago.
NackDue == ~rx.waiting \/ rx.m_lastNACK # rx.ReceiverNextExpectedSeq

\* A packet is missing before this one.
ReceiveAhead ==
  /\ data # <<>> /\ Len(acks) < MaxInFlight
  /\ Head(data).seq > rx.ReceiverNextExpectedSeq
  /\ IF NackDue
     THEN LET next == WholeChunks(rx.ReceiverNextExpectedSeq)
          IN  /\ rx' = [ReceiverNextExpectedSeq |-> next,
                        m_lastNACK |-> rx.ReceiverNextExpectedSeq, waiting |-> TRUE]
              /\ acks' = Append(acks, Nack(next))
     ELSE UNCHANGED <<rx, acks>>
  /\ data' = Tail(data)
  /\ UNCHANGED <<flow, qp, stopped, delivered, losses>>

ReceiveDuplicate ==
  /\ data # <<>>
  /\ Head(data).seq < rx.ReceiverNextExpectedSeq
  /\ data' = Tail(data)
  /\ UNCHANGED <<flow, qp, rx, acks, stopped, delivered, losses>>

NackTimerExpires ==
  /\ rx.waiting
  /\ rx' = [rx EXCEPT !.waiting = FALSE]
  /\ UNCHANGED <<flow, qp, data, acks, stopped, delivered, losses>>

-------------------------------------------------------------------------------
(* Fabric and time *)

Lose ==
  /\ losses < MaxLoss
  /\ losses' = losses + 1
  /\ \/ /\ \E i \in 1 .. Len(data) : data' = RemoveAt(data, i)
        /\ UNCHANGED acks
     \/ /\ \E i \in 1 .. Len(acks) : acks' = RemoveAt(acks, i)
        /\ UNCHANGED data
  /\ UNCHANGED <<flow, qp, rx, stopped, delivered>>

StopTimePasses ==
  /\ flow.stopTime /\ ~stopped
  /\ stopped' = TRUE
  /\ UNCHANGED <<flow, qp, rx, data, acks, delivered, losses>>

Init ==
  /\ flow \in Flows
  /\ qp = NewQp /\ rx = NewRx
  /\ data = <<>> /\ acks = <<>>
  /\ stopped = FALSE /\ delivered = 0 /\ losses = 0

ReceiveUdp == ReceiveInOrder \/ ReceiveAhead \/ ReceiveDuplicate

Next ==
  \/ Send \/ ClearFinished \/ ReceiveAck
  \/ ReceiveUdp \/ NackTimerExpires
  \/ Lose \/ StopTimePasses

Spec == Init /\ [][Next]_vars

\* The NIC keeps sending what it may send, and packets arrive.
FairSpec ==
  Spec /\ WF_vars(Send) /\ WF_vars(ReceiveUdp) /\ WF_vars(ReceiveAck)

-------------------------------------------------------------------------------
(* Properties *)

Packet == [seq : 0 .. flow.m_size, size : 1 .. m_mtu]
Acknowledgement == [nack : BOOLEAN, seq : 0 .. flow.m_size]

TypeOK ==
  /\ flow \in Flows
  /\ qp \in [snd_una : 0 .. flow.m_size, snd_nxt : 0 .. flow.m_size,
             inMap : BOOLEAN, inGroup : BOOLEAN]
  /\ rx \in [ReceiverNextExpectedSeq : 0 .. flow.m_size,
             m_lastNACK : 0 .. flow.m_size, waiting : BOOLEAN]
  /\ data \in Seq(Packet)
  /\ acks \in Seq(Acknowledgement)
  /\ stopped \in BOOLEAN
  /\ delivered \in 0 .. flow.m_size
  /\ losses \in 0 .. MaxLoss

\* Whatever is lost, repeated or sent again, the sender only takes for delivered
\* what was delivered, and completes once, when all of the message was.
Delivery == INSTANCE MessageDelivery
  WITH size <- flow.m_size, confirmed <- qp.snd_una,
       expired <- stopped, complete <- ~qp.inMap
ImplementsDelivery == Delivery!Spec

\* While nothing is lost no NACK is sent, not even to a sender that is done, and
\* no bandwidth is spent on going back.  (A pair that stops early leaves packets
\* behind that the receiver, whose side was deleted, does not expect.)
NoSpuriousNack ==
  losses = 0 =>
    /\ qp.inMap \/ ~stopped => \A i \in 1 .. Len(acks) : ~acks[i].nack
    /\ qp.snd_una <= qp.snd_nxt

\* The configurations in which every message can be acknowledged to its end: it
\* reaches the acknowledgement interval, as does its window, and in go-back-to-zero
\* mode it is a whole number of chunks, with a window of at least one.
Completable ==
  /\ Acks(flow.m_size)
  /\ flow.m_win = 0 \/ flow.m_win >= m_ack_interval
  /\ flow.m_backto0 => /\ flow.m_size % m_chunk = 0
                       /\ flow.m_win = 0 \/ flow.m_win >= m_chunk

\* On a fabric that loses nothing every such message completes.  After a loss this
\* need not be so: the sender has no retransmission timer.
LosslessCompletes ==
  Completable /\ [](losses = 0 /\ ~stopped) => <>(~qp.inMap)

-------------------------------------------------------------------------------
(* What the comments of rdma-queue-pair.h say and the code does not keep to *)

\* The next sequence number to send is not behind the first unacknowledged one.
NextNotBehind == qp.snd_una <= qp.snd_nxt
===============================================================================
