-------------------------- MODULE RdmaTransportProofs --------------------------
(***************************************************************************)
(* RdmaTransport for every flow, MTU, chunk, interval and number of        *)
(* losses: it is type correct, implements MessageDelivery, and while       *)
(* nothing is lost there are no NACKs.                                     *)
(***************************************************************************)
EXTENDS RdmaTransport, TLAPS, SequenceTheorems

-------------------------------------------------------------------------------
(* Sequences and chunks *)

\* A packet lost from a channel leaves a channel of the same kind of packets (Lose).
LEMMA RemovedIsSeq ==
  ASSUME NEW S, NEW s \in Seq(S), NEW i \in 1 .. Len(s)
  PROVE  RemoveAt(s, i) \in Seq(S)
<1>1. SubSeq(s, 1, i - 1) \in Seq(S)
  BY SubSeqProperties
<1>2. SubSeq(s, i + 1, Len(s)) \in Seq(S)
  BY SubSeqProperties
<1> QED
  BY <1>1, <1>2, ConcatProperties DEF RemoveAt

\* What is a sequence of packets of one kind is one of a wider kind.
LEMMA SeqOfMore ==
  ASSUME NEW S, NEW T, S \subseteq T, NEW s \in Seq(S)
  PROVE  s \in Seq(T)
OBVIOUS

\* Whole chunks (go-back-to-zero, rdma-hw.cc) are at most what was received.
LEMMA ChunksAtMost ==
  ASSUME NEW seq \in Nat
  PROVE  WholeChunks(seq) \in 0 .. seq
<1>1. m_chunk \in Nat \ {0}
  BY TransportConfiguration
<1>2. seq = m_chunk * (seq \div m_chunk) + (seq % m_chunk)
  BY <1>1
<1>3. seq \div m_chunk \in Nat /\ seq % m_chunk \in Nat
  BY <1>1
<1> QED
  BY <1>1, <1>2, <1>3 DEF WholeChunks

-------------------------------------------------------------------------------
(* What the two sides know is never more than what was delivered *)

\* A packet ends within the message.
Fits == {p \in Packet : p.seq + p.size <= flow.m_size}

\* An acknowledgement of bytes that were delivered.
Truthful == [nack : BOOLEAN, seq : 0 .. delivered]

Inv ==
  /\ TypeOK
  /\ data \in Seq(Fits)
  /\ acks \in Seq(Truthful)
  /\ qp.snd_una <= delivered
  /\ rx.ReceiverNextExpectedSeq <= delivered

\* What the type invariant and the configuration say of the numbers.
NumbersInRange ==
  /\ flow.m_size \in Nat \ {0} /\ m_mtu \in Nat \ {0}
  /\ qp.snd_una \in 0 .. flow.m_size /\ qp.snd_nxt \in 0 .. flow.m_size
  /\ rx.ReceiverNextExpectedSeq \in 0 .. flow.m_size
  /\ delivered \in 0 .. flow.m_size

\* The sequence numbers of both sides lie within the message (RdmaQueuePair,
\* RdmaRxQueuePair).
LEMMA Numbers ==
  ASSUME TypeOK
  PROVE  NumbersInRange
<1>1. flow.m_size \in Nat \ {0} /\ m_mtu \in Nat \ {0}
  BY TransportConfiguration DEF TypeOK, FlowType
<1> QED
  BY <1>1 DEF TypeOK, NumbersInRange

\* The types of the two queue pairs.
QpType == [snd_una : 0 .. flow.m_size, snd_nxt : 0 .. flow.m_size,
           inMap : BOOLEAN, inGroup : BOOLEAN]
RxType == [ReceiverNextExpectedSeq : 0 .. flow.m_size,
           m_lastNACK : 0 .. flow.m_size, waiting : BOOLEAN]

\* Adding a queue pair (AddQueuePair, GetRxQp) establishes the invariant.
LEMMA InitInv == Init => Inv
<1> SUFFICES ASSUME Init PROVE Inv
  OBVIOUS
<1>1. flow.m_size \in Nat \ {0}
  BY TransportConfiguration DEF Init, FlowType
<1>2. TypeOK
  <2>1. qp \in QpType /\ rx \in RxType
    BY <1>1 DEF Init, NewQp, NewRx, QpType, RxType
  <2>2. data \in Seq(Packet) /\ acks \in Seq(Acknowledgement)
    BY DEF Init
  <2>3. /\ flow \in Flows /\ stopped \in BOOLEAN
        /\ delivered \in 0 .. flow.m_size /\ losses \in 0 .. MaxLoss
    <3>1. MaxLoss \in Nat
      BY TransportConfiguration
    <3>2. flow \in Flows /\ stopped \in BOOLEAN
      BY Zenon DEF Init
    <3>3. delivered = 0 /\ losses = 0
      BY DEF Init
    <3> QED
      BY <1>1, <3>1, <3>2, <3>3
  <2> QED
    BY <2>1, <2>2, <2>3 DEF TypeOK, QpType, RxType
<1> QED
  BY <1>1, <1>2 DEF Init, Inv, NewQp, NewRx

\* GetNxtPacket makes a packet that ends within the message.
LEMMA SendInv == Inv /\ Send => Inv'
<1> SUFFICES ASSUME Inv, Send PROVE Inv'
  OBVIOUS
<1>0. NumbersInRange
  BY Numbers DEF Inv
<1>1. PayloadSize \in 1 .. m_mtu /\ qp.snd_nxt + PayloadSize <= flow.m_size
  BY <1>0 DEF NumbersInRange, Send, PayloadSize, GetBytesLeft, Smaller
<1>2. [seq |-> qp.snd_nxt, size |-> PayloadSize] \in Fits
  BY <1>0, <1>1 DEF NumbersInRange, Fits, Packet
<1>3. data' \in Seq(Fits)
  BY <1>2 DEF Inv, Send
<1>4. qp' \in QpType /\ qp'.snd_una = qp.snd_una
  <2>1. qp \in QpType
    BY DEF Inv, TypeOK, QpType
  <2>2. qp' = [qp EXCEPT !.snd_nxt = @ + PayloadSize]
    BY DEF Send
  <2> QED
    BY <1>0, <1>1, <2>1, <2>2 DEF QpType, NumbersInRange
<1>5. UNCHANGED <<flow, rx, acks, stopped, delivered, losses>>
  BY DEF Send
<1>6. data' \in Seq(Packet)
  BY <1>3, SeqOfMore DEF Fits
<1>7. Packet' = Packet /\ Acknowledgement' = Acknowledgement /\ Fits' = Fits /\ Truthful' = Truthful
  BY <1>5 DEF Packet, Acknowledgement, Fits, Truthful
<1> QED
  BY <1>3, <1>4, <1>5, <1>6, <1>7 DEF Inv, TypeOK, QpType, RxType

\* What the first acknowledgement says was delivered, and so was all that Acknowledge
\* makes of it.
LEMMA AckIsDelivered ==
  ASSUME Inv, acks # <<>>,
         NEW una, una = Acknowledged(qp.snd_una, WholeChunks(Head(acks).seq))
  PROVE  una \in qp.snd_una .. delivered
<1>0. NumbersInRange
  BY Numbers DEF Inv
<1>1. Head(acks) \in Truthful
  BY DEF Inv
<1>2. WholeChunks(Head(acks).seq) \in 0 .. Head(acks).seq
  <2>1. Head(acks).seq \in Nat
    BY <1>0, <1>1 DEF NumbersInRange, Truthful
  <2> QED
    BY <2>1, ChunksAtMost
<1> QED
  BY <1>0, <1>1, <1>2 DEF Inv, NumbersInRange, Truthful, Acknowledged, Larger

\* ReceiveAck, with RecoverQueue and QpComplete.
LEMMA ReceiveAckInv == Inv /\ ReceiveAck => Inv'
<1> SUFFICES ASSUME Inv, ReceiveAck PROVE Inv'
  OBVIOUS
<1>0. NumbersInRange
  BY Numbers DEF Inv
<1> DEFINE una == Acknowledged(qp.snd_una, WholeChunks(Head(acks).seq))
<1>1. una \in qp.snd_una .. delivered
  BY AckIsDelivered DEF ReceiveAck
<1>2. qp' \in QpType /\ qp'.snd_una <= delivered
  <2> DEFINE nxt == IF Head(acks).nack THEN una ELSE qp.snd_nxt
  <2>1. una \in 0 .. flow.m_size /\ nxt \in 0 .. flow.m_size
    BY <1>0, <1>1 DEF NumbersInRange
  <2>2. qp' = IF qp.inMap
              THEN [qp EXCEPT !.snd_una = una, !.snd_nxt = nxt, !.inMap = ~IsFinished(una)]
              ELSE qp
    BY DEF ReceiveAck
  <2>3. IsFinished(una) \in BOOLEAN
    BY DEF IsFinished, Inv, TypeOK
  <2>4. qp \in QpType /\ qp.snd_una <= delivered
    BY DEF Inv, TypeOK, QpType
  <2>5. CASE qp.inMap
    <3> DEFINE inMap == ~IsFinished(una)
    <3>1. qp' = [qp EXCEPT !.snd_una = una, !.snd_nxt = nxt, !.inMap = inMap]
      BY <2>2, <2>5
    <3>2. inMap \in BOOLEAN
      BY <2>3
    <3>3. una <= delivered
      BY <1>0, <1>1 DEF NumbersInRange
    <3> HIDE DEF una, nxt, inMap
    <3>4. qp' \in QpType
      BY <2>1, <2>4, <3>1, <3>2 DEF QpType
    <3>5. qp'.snd_una = una
      BY <2>4, <3>1 DEF QpType
    <3> QED
      BY <3>3, <3>4, <3>5
  <2>6. CASE ~qp.inMap
    BY <2>2, <2>4, <2>6
  <2> QED
    BY <2>5, <2>6
<1>3. rx' = NewRx \/ rx' = rx
  BY DEF ReceiveAck
<1>4. rx' \in RxType /\ rx'.ReceiverNextExpectedSeq <= delivered
  <2>1. rx \in RxType /\ rx.ReceiverNextExpectedSeq <= delivered
    BY DEF Inv, TypeOK, RxType
  <2>2. NewRx \in RxType /\ NewRx.ReceiverNextExpectedSeq <= delivered
    BY <1>0 DEF NewRx, RxType, NumbersInRange
  <2> QED
    BY <1>3, <2>1, <2>2
<1>5. acks' \in Seq(Truthful)
  BY DEF Inv, ReceiveAck
<1>6. Truthful \subseteq Acknowledgement
  BY <1>0 DEF Truthful, Acknowledgement, NumbersInRange
<1>7. UNCHANGED <<flow, data, stopped, delivered, losses>>
  BY DEF ReceiveAck
<1>8. Packet' = Packet /\ Acknowledgement' = Acknowledgement /\ Fits' = Fits /\ Truthful' = Truthful
  BY <1>7 DEF Packet, Acknowledgement, Fits, Truthful
<1>9. acks' \in Seq(Acknowledgement)
  BY <1>5, <1>6, SeqOfMore
<1> QED
  BY <1>2, <1>4, <1>5, <1>7, <1>8, <1>9 DEF Inv, TypeOK, QpType, RxType

\* ReceiveUdp of the expected packet: what it acknowledges is delivered by then.
LEMMA ReceiveInOrderInv == Inv /\ ReceiveInOrder => Inv'
<1> SUFFICES ASSUME Inv, ReceiveInOrder PROVE Inv'
  OBVIOUS
<1>0. NumbersInRange
  BY Numbers DEF Inv
<1> DEFINE next == Head(data).seq + Head(data).size
<1>1. next \in 1 .. flow.m_size
  <2>1. Head(data) \in Fits
    BY DEF Inv, ReceiveInOrder
  <2> QED
    BY <1>0, <2>1 DEF NumbersInRange, Fits, Packet
<1>2. delivered' \in delivered .. flow.m_size /\ next <= delivered'
  <2>1. delivered' = Larger(delivered, next)
    BY DEF ReceiveInOrder, InOrder, Inv
  <2> HIDE DEF next
  <2> QED
    BY <1>0, <1>1, <2>1 DEF Larger, NumbersInRange
<1>3. rx' \in RxType /\ rx'.ReceiverNextExpectedSeq = next
  <2>1. rx \in RxType
    BY DEF Inv, TypeOK, RxType
  <2>2. rx' = [rx EXCEPT !.ReceiverNextExpectedSeq = next]
    BY DEF ReceiveInOrder
  <2> HIDE DEF next
  <2> QED
    BY <1>0, <1>1, <2>1, <2>2 DEF RxType, NumbersInRange
<1>4. data' \in Seq(Fits)
  BY DEF Inv, ReceiveInOrder
<1>5. UNCHANGED <<flow, qp, stopped, losses>>
  BY DEF ReceiveInOrder
<1>6. Packet' = Packet /\ Acknowledgement' = Acknowledgement /\ Fits' = Fits
  BY <1>5 DEF Packet, Acknowledgement, Fits
<1>7. acks' \in Seq(Truthful')
  <2>1. Truthful \subseteq Truthful'
    BY <1>0, <1>2 DEF Truthful, NumbersInRange
  <2>2. acks \in Seq(Truthful')
    BY <2>1, SeqOfMore DEF Inv
  <2>3. Ack(next) \in Truthful'
    BY <1>0, <1>1, <1>2 DEF Truthful, Ack, NumbersInRange
  <2>4. acks' = Append(acks, Ack(next)) \/ acks' = acks
    BY DEF ReceiveInOrder
  <2> QED
    BY <2>2, <2>3, <2>4
<1>8. acks' \in Seq(Acknowledgement)
  <2>1. Truthful' \subseteq Acknowledgement
    BY <1>0, <1>2 DEF Truthful, Acknowledgement, NumbersInRange
  <2> QED
    BY <1>7, <2>1, SeqOfMore
<1>9. data' \in Seq(Packet)
  BY <1>4, SeqOfMore DEF Fits
<1> QED
  BY <1>1, <1>2, <1>3, <1>4, <1>5, <1>6, <1>7, <1>8, <1>9 DEF Inv, TypeOK, QpType, RxType

\* ReceiveUdp behind a gap: the NACK asks for bytes from a place up to which all
\* was delivered.
LEMMA ReceiveAheadInv == Inv /\ ReceiveAhead => Inv'
<1> SUFFICES ASSUME Inv, ReceiveAhead PROVE Inv'
  OBVIOUS
<1>0. NumbersInRange
  BY Numbers DEF Inv
<1> DEFINE next == WholeChunks(rx.ReceiverNextExpectedSeq)
<1>1. next \in 0 .. rx.ReceiverNextExpectedSeq
  BY <1>0, ChunksAtMost DEF NumbersInRange
<1>2. UNCHANGED <<flow, qp, stopped, delivered, losses>>
  BY DEF ReceiveAhead
<1>3. Packet' = Packet /\ Acknowledgement' = Acknowledgement /\ Fits' = Fits /\ Truthful' = Truthful
  BY <1>2 DEF Packet, Acknowledgement, Fits, Truthful
<1>4. data' \in Seq(Fits)
  BY DEF Inv, ReceiveAhead
<1>5. data' \in Seq(Packet)
  BY <1>4, SeqOfMore DEF Fits
<1>6. rx' \in RxType /\ rx'.ReceiverNextExpectedSeq <= delivered
  <2>1. rx \in RxType /\ rx.ReceiverNextExpectedSeq <= delivered
    BY DEF Inv, TypeOK, RxType
  <2>2. \/ rx' = [ReceiverNextExpectedSeq |-> next,
                  m_lastNACK |-> rx.ReceiverNextExpectedSeq, waiting |-> TRUE]
        \/ rx' = rx
    BY DEF ReceiveAhead
  <2>3. next \in 0 .. flow.m_size /\ next <= delivered
    BY <1>0, <1>1, <2>1 DEF NumbersInRange
  <2> DEFINE after == [ReceiverNextExpectedSeq |-> next,
                       m_lastNACK |-> rx.ReceiverNextExpectedSeq, waiting |-> TRUE]
  <2>4. after \in RxType /\ after.ReceiverNextExpectedSeq = next
    <3> HIDE DEF next
    <3> QED
      BY <1>0, <2>3 DEF RxType, NumbersInRange
  <2>5. rx' = after \/ rx' = rx
    BY <2>2
  <2> HIDE DEF after, next
  <2> QED
    BY <2>1, <2>3, <2>4, <2>5
<1>7. acks' \in Seq(Truthful)
  <2>1. Nack(next) \in Truthful
    BY <1>0, <1>1 DEF Inv, Truthful, Nack, NumbersInRange
  <2>2. acks' = Append(acks, Nack(next)) \/ acks' = acks
    BY DEF ReceiveAhead
  <2> QED
    BY <2>1, <2>2 DEF Inv
<1>8. acks' \in Seq(Acknowledgement)
  <2>1. Truthful \subseteq Acknowledgement
    BY <1>0 DEF Truthful, Acknowledgement, NumbersInRange
  <2> QED
    BY <1>7, <2>1, SeqOfMore
<1> QED
  BY <1>2, <1>3, <1>4, <1>5, <1>6, <1>7, <1>8 DEF Inv, TypeOK, QpType, RxType

\* A lost packet or acknowledgement takes nothing back (Lose).
LEMMA LoseInv == Inv /\ Lose => Inv'
<1> SUFFICES ASSUME Inv, Lose PROVE Inv'
  OBVIOUS
<1>1. UNCHANGED <<flow, qp, rx, stopped, delivered>>
  BY DEF Lose
<1>2. Packet' = Packet /\ Acknowledgement' = Acknowledgement /\ Fits' = Fits /\ Truthful' = Truthful
  BY <1>1 DEF Packet, Acknowledgement, Fits, Truthful
<1>3. losses' \in 0 .. MaxLoss
  BY TransportConfiguration DEF Lose, Inv, TypeOK
<1>4. data' \in Seq(Fits) /\ data' \in Seq(Packet)
  BY RemovedIsSeq DEF Lose, Inv, TypeOK
<1>5. acks' \in Seq(Truthful) /\ acks' \in Seq(Acknowledgement)
  BY RemovedIsSeq DEF Lose, Inv, TypeOK
<1> QED
  BY <1>1, <1>2, <1>3, <1>4, <1>5 DEF Inv, TypeOK, QpType, RxType

-------------------------------------------------------------------------------
(* The theorems *)

\* Every event of the two NICs and the fabric keeps the invariant.
LEMMA StepInv == Inv /\ [Next]_vars => Inv'
<1> SUFFICES ASSUME Inv, [Next]_vars PROVE Inv'
  OBVIOUS
<1>1. CASE Send
  BY <1>1, SendInv
<1>2. CASE ClearFinished
  <2>1. qp \in QpType
    BY DEF Inv, TypeOK, QpType
  <2>2. qp' = [qp EXCEPT !.inGroup = FALSE]
    BY <1>2 DEF ClearFinished
  <2>3. qp' \in QpType /\ qp'.snd_una = qp.snd_una
    BY <2>1, <2>2 DEF QpType
  <2> QED
    BY <1>2, <2>3 DEF ClearFinished, Inv, TypeOK, QpType, Fits, Truthful, Packet, Acknowledgement
<1>3. CASE ReceiveAck
  BY <1>3, ReceiveAckInv
<1>4. CASE ReceiveInOrder
  BY <1>4, ReceiveInOrderInv
<1>5. CASE ReceiveAhead
  BY <1>5, ReceiveAheadInv
<1>6. CASE ReceiveDuplicate
  <2>1. UNCHANGED <<flow, qp, rx, acks, stopped, delivered, losses>>
    BY <1>6 DEF ReceiveDuplicate
  <2>2. data' \in Seq(Fits) /\ data' \in Seq(Packet)
    BY <1>6 DEF ReceiveDuplicate, Inv, TypeOK
  <2> QED
    BY <2>1, <2>2 DEF Inv, TypeOK, Fits, Truthful, Packet, Acknowledgement
<1>7. CASE NackTimerExpires
  <2>1. rx \in RxType
    BY DEF Inv, TypeOK, RxType
  <2>2. rx' = [rx EXCEPT !.waiting = FALSE]
    BY <1>7 DEF NackTimerExpires
  <2>3. rx' \in RxType /\ rx'.ReceiverNextExpectedSeq = rx.ReceiverNextExpectedSeq
    BY <2>1, <2>2 DEF RxType
  <2> QED
    BY <1>7, <2>3 DEF NackTimerExpires, Inv, TypeOK, RxType, Fits, Truthful, Packet, Acknowledgement
<1>8. CASE Lose
  BY <1>8, LoseInv
<1>9. CASE StopTimePasses
  <2>1. stopped' \in BOOLEAN
    BY <1>9, Zenon DEF StopTimePasses
  <2>2. UNCHANGED <<flow, qp, rx, data, acks, delivered, losses>>
    BY <1>9 DEF StopTimePasses
  <2> QED
    BY <2>1, <2>2 DEF Inv, TypeOK, Fits, Truthful, Packet, Acknowledgement
<1>10. CASE UNCHANGED vars
  BY <1>10 DEF vars, Inv, TypeOK, Fits, Truthful, Packet, Acknowledgement
<1> QED
  BY <1>1, <1>2, <1>3, <1>4, <1>5, <1>6, <1>7, <1>8, <1>9, <1>10 DEF Next, ReceiveUdp

\* Neither side ever knows of more bytes than were delivered, whatever is lost and
\* sent again (ReceiveAck, ReceiverCheckSeq).
THEOREM InvHolds == Spec => []Inv
BY InitInv, StepInv, PTL DEF Spec

\* The sequence numbers of both queue pairs and of all packets under way stay within
\* the message, also that of a last packet shorter than the MTU (GetNxtPacket).
THEOREM TransportTypeCorrect == Spec => []TypeOK
<1>1. Inv => TypeOK
  BY DEF Inv
<1> QED
  BY <1>1, InvHolds, PTL

\* An acknowledgement confirms bytes that were delivered, and completes the pair if
\* they are all (ReceiveAck).
LEMMA ReceiveAckConfirms ==
  ASSUME Inv, ReceiveAck
  PROVE  [Delivery!Next]_Delivery!vars
<1>0. NumbersInRange
  BY Numbers DEF Inv
<1> DEFINE una == Acknowledged(qp.snd_una, WholeChunks(Head(acks).seq))
<1>1. una \in qp.snd_una .. delivered
  BY AckIsDelivered DEF ReceiveAck
<1>2. UNCHANGED <<flow, data, stopped, delivered, losses>>
  BY DEF ReceiveAck
<1>3. CASE qp.inMap
  <2> DEFINE nxt == IF Head(acks).nack THEN una ELSE qp.snd_nxt
             inMap == ~IsFinished(una)
  <2>1. qp' = [qp EXCEPT !.snd_una = una, !.snd_nxt = nxt, !.inMap = inMap]
    BY <1>3 DEF ReceiveAck
  <2>2. inMap = ~(una = flow.m_size \/ stopped)
    BY <1>0, <1>1 DEF IsFinished, NumbersInRange
  <2>3. qp \in QpType
    BY DEF Inv, TypeOK, QpType
  <2>4. qp'.snd_una = una /\ qp'.inMap = inMap
    <3> HIDE DEF una, nxt, inMap
    <3> QED
      BY <2>1, <2>3 DEF QpType
  <2>5. (~qp'.inMap) = (una = flow.m_size \/ stopped)
    BY <2>2, <2>4
  <2> HIDE DEF una, nxt, inMap
  <2>6. Delivery!Confirm
    BY <1>1, <1>2, <1>3, <2>4, <2>5 DEF Delivery!Confirm
  <2> QED
    BY <2>6 DEF Delivery!Next
<1>4. CASE ~qp.inMap
  BY <1>2, <1>4 DEF ReceiveAck, Delivery!vars
<1> QED
  BY <1>3, <1>4

\* A packet that arrives in order delivers bytes, unless it is a repetition that the
\* receiver has gone back to (ReceiveUdp in go-back-to-zero mode).
LEMMA ReceiveInOrderDelivers ==
  ASSUME Inv, ReceiveInOrder
  PROVE  [Delivery!Next]_Delivery!vars
<1>0. NumbersInRange
  BY Numbers DEF Inv
<1> DEFINE next == Head(data).seq + Head(data).size
<1>1. next \in 1 .. flow.m_size
  <2>1. Head(data) \in Fits
    BY DEF Inv, ReceiveInOrder
  <2> QED
    BY <1>0, <2>1 DEF NumbersInRange, Fits, Packet
<1>2. delivered' = Larger(delivered, next) /\ UNCHANGED <<flow, qp, stopped, losses>>
  BY DEF ReceiveInOrder, InOrder, Inv
<1> HIDE DEF next
<1>3. CASE next <= delivered
  BY <1>0, <1>1, <1>2, <1>3 DEF Delivery!vars, Larger, NumbersInRange
<1>4. CASE next > delivered
  <2>1. delivered < flow.m_size /\ delivered' \in delivered + 1 .. flow.m_size
    BY <1>0, <1>1, <1>2, <1>4 DEF Larger, NumbersInRange
  <2> QED
    BY <1>2, <2>1 DEF Delivery!Next, Delivery!Deliver
<1> QED
  BY <1>0, <1>1, <1>3, <1>4 DEF NumbersInRange

\* A message's bytes are delivered in order, the sender takes for delivered only what
\* was, and reports completion once, when all was or the stop time has passed.
THEOREM DeliveryImplemented == Spec => ImplementsDelivery
<1>1. Init => Delivery!Init
  <2> SUFFICES ASSUME Init PROVE Delivery!Init
    OBVIOUS
  <2>1. flow.m_size \in Nat \ {0}
    BY TransportConfiguration DEF Init, FlowType
  <2> QED
    BY <2>1 DEF Init, Delivery!Init, NewQp
<1>2. Inv /\ [Next]_vars => [Delivery!Next]_Delivery!vars
  <2> SUFFICES ASSUME Inv, [Next]_vars PROVE [Delivery!Next]_Delivery!vars
    OBVIOUS
  <2>1. CASE ReceiveAck
    BY <2>1, ReceiveAckConfirms
  <2>2. CASE ReceiveInOrder
    BY <2>2, ReceiveInOrderDelivers
  <2>3. CASE StopTimePasses
    BY <2>3 DEF StopTimePasses, Delivery!Next, Delivery!Expire
  <2>4. CASE Send \/ ClearFinished
    <3>1. qp \in QpType
      BY DEF Inv, TypeOK, QpType
    <3>2. qp'.snd_una = qp.snd_una /\ qp'.inMap = qp.inMap
      BY <2>4, <3>1 DEF QpType, Send, ClearFinished
    <3> QED
      BY <2>4, <3>2 DEF Send, ClearFinished, Delivery!vars
  <2>5. CASE ReceiveAhead \/ ReceiveDuplicate \/ NackTimerExpires \/ Lose
    BY <2>5 DEF ReceiveAhead, ReceiveDuplicate, NackTimerExpires, Lose, Delivery!vars
  <2>6. CASE UNCHANGED vars
    BY <2>6 DEF vars, Delivery!vars
  <2> QED
    BY <2>1, <2>2, <2>3, <2>4, <2>5, <2>6 DEF Next, ReceiveUdp
<1> QED
  BY <1>1, <1>2, InvHolds, PTL DEF Spec, ImplementsDelivery, Delivery!Spec

-------------------------------------------------------------------------------
(* While nothing is lost *)

\* The packets under way continue what the receiver has, each where the one before it
\* ends, up to the sender's next byte.
Contiguous ==
  /\ data = <<>> => qp.snd_nxt = rx.ReceiverNextExpectedSeq
  /\ data # <<>> => /\ data[1].seq = rx.ReceiverNextExpectedSeq
                    /\ data[Len(data)].seq + data[Len(data)].size = qp.snd_nxt
  /\ \A i \in 1 .. Len(data) - 1 : data[i + 1].seq = data[i].seq + data[i].size
  /\ \A i \in 1 .. Len(data) : data[i].seq + data[i].size <= qp.snd_nxt

NoNack == \A i \in 1 .. Len(acks) : ~acks[i].nack

\* An active pair is in step with its receiver.
InStep ==
  /\ Contiguous
  /\ qp.snd_una <= rx.ReceiverNextExpectedSeq
  /\ rx.ReceiverNextExpectedSeq <= qp.snd_nxt
  /\ \A i \in 1 .. Len(acks) : acks[i].seq <= rx.ReceiverNextExpectedSeq
  /\ NoNack

\* A pair that completed because everything arrived leaves nothing under way.
AllDone == data = <<>> /\ qp.snd_nxt = flow.m_size /\ NoNack

QuietInv ==
  losses = 0 =>
    /\ qp.snd_una <= qp.snd_nxt
    /\ qp.inMap => InStep
    /\ ~qp.inMap /\ ~stopped => AllDone

\* A new packet continues those under way, and a sender that is done sends none
\* (GetNxtPacket).
LEMMA SendQuiet == Inv /\ QuietInv /\ Send => QuietInv'
<1> SUFFICES ASSUME Inv, QuietInv, Send, losses = 0
             PROVE  /\ (qp.snd_una <= qp.snd_nxt)'
                    /\ qp'.inMap => InStep'
                    /\ ~qp'.inMap /\ ~stopped' => AllDone'
  BY DEF QuietInv, Send
<1>0. NumbersInRange
  BY Numbers DEF Inv
<1> DEFINE p == [seq |-> qp.snd_nxt, size |-> PayloadSize]
<1>1. PayloadSize \in Nat \ {0} /\ GetBytesLeft > 0
  BY <1>0 DEF NumbersInRange, Send, PayloadSize, GetBytesLeft, Smaller
<1>2. /\ qp'.snd_una = qp.snd_una /\ qp'.inMap = qp.inMap
      /\ qp'.snd_nxt = qp.snd_nxt + PayloadSize
  <2>1. qp \in QpType
    BY DEF Inv, TypeOK, QpType
  <2>2. qp' = [qp EXCEPT !.snd_nxt = @ + PayloadSize]
    BY DEF Send
  <2> QED
    BY <2>1, <2>2 DEF QpType
<1>3. data' = Append(data, p) /\ UNCHANGED <<rx, acks, stopped>>
  BY DEF Send
<1>4. (qp.snd_una <= qp.snd_nxt)'
  BY <1>0, <1>1, <1>2 DEF QuietInv, NumbersInRange
<1>5. CASE qp.inMap
  <2>0. InStep
    BY <1>5 DEF QuietInv
  <2>1. data \in Seq(Fits)
    BY DEF Inv
  <2>2. /\ Len(data') = Len(data) + 1 /\ data'[Len(data) + 1] = p /\ data' # <<>>
        /\ \A i \in 1 .. Len(data) : data'[i] = data[i]
    BY <1>3, <2>1
  <2>3. Len(data) \in Nat /\ (data = <<>> <=> Len(data) = 0)
    BY <2>1
  <2>4. p.seq = qp.snd_nxt /\ p.size = PayloadSize
    OBVIOUS
  <2>5. \A i \in 1 .. Len(data) : data[i].seq \in Nat /\ data[i].size \in Nat
    BY <1>0, <2>1 DEF Fits, Packet, NumbersInRange
  <2> HIDE DEF p
  <2>6. data'[1].seq = rx.ReceiverNextExpectedSeq
    <3>1. CASE data = <<>>
      BY <2>0, <2>2, <2>3, <2>4, <3>1 DEF InStep, Contiguous
    <3>2. CASE data # <<>>
      BY <2>0, <2>2, <2>3, <3>2 DEF InStep, Contiguous
    <3> QED
      BY <3>1, <3>2
  <2>7. data'[Len(data')].seq + data'[Len(data')].size = qp'.snd_nxt
    BY <1>2, <2>2, <2>4
  <2>8. ASSUME NEW i \in 1 .. Len(data') - 1
        PROVE  data'[i + 1].seq = data'[i].seq + data'[i].size
    <3>1. CASE i = Len(data)
      BY <2>0, <2>2, <2>3, <2>4, <3>1 DEF InStep, Contiguous
    <3>2. CASE i # Len(data)
      <4>1. i \in 1 .. Len(data) - 1 /\ i \in 1 .. Len(data) /\ i + 1 \in 1 .. Len(data)
        BY <2>2, <2>3, <3>2
      <4> QED
        BY <2>0, <2>2, <4>1 DEF InStep, Contiguous
    <3> QED
      BY <3>1, <3>2
  <2>9. ASSUME NEW i \in 1 .. Len(data')
        PROVE  data'[i].seq + data'[i].size <= qp'.snd_nxt
    <3>1. CASE i = Len(data) + 1
      BY <1>0, <1>1, <1>2, <2>2, <2>4, <3>1 DEF NumbersInRange
    <3>2. CASE i # Len(data) + 1
      <4>1. i \in 1 .. Len(data) /\ data'[i] = data[i]
        BY <2>2, <2>3, <3>2
      <4>2. data[i].seq + data[i].size <= qp.snd_nxt
        BY <2>0, <4>1 DEF InStep, Contiguous
      <4> QED
        BY <1>0, <1>1, <1>2, <2>5, <4>1, <4>2 DEF NumbersInRange
    <3> QED
      BY <3>1, <3>2
  <2>10. Contiguous'
    BY <1>3, <2>2, <2>6, <2>7, <2>8, <2>9 DEF Contiguous
  <2>11. rx'.ReceiverNextExpectedSeq <= qp'.snd_nxt
    BY <1>0, <1>1, <1>2, <1>3, <2>0 DEF InStep, NumbersInRange
  <2> QED
    BY <1>2, <1>3, <1>4, <1>5, <2>0, <2>10, <2>11 DEF InStep, NoNack
<1>6. CASE ~qp.inMap
  <2>1. stopped
    BY <1>0, <1>1, <1>6 DEF QuietInv, AllDone, GetBytesLeft, NumbersInRange
  <2> QED
    BY <1>2, <1>3, <1>4, <1>6, <2>1
<1> QED
  BY <1>5, <1>6

\* The first packet of an active pair is the expected one (ReceiverCheckSeq).
LEMMA FirstIsExpected ==
  ASSUME QuietInv, losses = 0, qp.inMap, data # <<>>, data \in Seq(Fits)
  PROVE  Head(data).seq = rx.ReceiverNextExpectedSeq
<1>1. Head(data) = data[1]
  OBVIOUS
<1> QED
  BY <1>1 DEF QuietInv, InStep, Contiguous

\* Acknowledgements in step keep both sides in step; the one that completes the pair
\* confirms the last byte there is (ReceiveAck, QpComplete).
LEMMA ReceiveAckQuiet == Inv /\ QuietInv /\ ReceiveAck => QuietInv'
<1> SUFFICES ASSUME Inv, QuietInv, ReceiveAck, losses = 0
             PROVE  /\ (qp.snd_una <= qp.snd_nxt)'
                    /\ qp'.inMap => InStep'
                    /\ ~qp'.inMap /\ ~stopped' => AllDone'
  BY DEF QuietInv, ReceiveAck
<1>0. NumbersInRange
  BY Numbers DEF Inv
<1>1. UNCHANGED <<flow, data, stopped>>
  BY DEF ReceiveAck
<1>2. acks \in Seq(Truthful) /\ acks # <<>> /\ acks' = Tail(acks)
  BY DEF Inv, ReceiveAck
<1>3. /\ Len(acks') = Len(acks) - 1 /\ Len(acks) \in Nat \ {0} /\ Head(acks) = acks[1]
      /\ \A i \in 1 .. Len(acks') : acks'[i] = acks[i + 1] /\ i + 1 \in 1 .. Len(acks)
  BY <1>2
<1>4. NoNack => NoNack'
  BY <1>3 DEF NoNack
<1>5. CASE ~qp.inMap
  <2>1. qp' = qp /\ rx' = rx
    BY <1>5 DEF ReceiveAck
  <2> QED
    BY <1>1, <1>4, <1>5, <2>1 DEF QuietInv, AllDone
<1>6. CASE qp.inMap
  <2> DEFINE una == Acknowledged(qp.snd_una, WholeChunks(Head(acks).seq))
             inMap == ~IsFinished(una)
  <2>0. InStep
    BY <1>6 DEF QuietInv
  <2>1. una \in qp.snd_una .. rx.ReceiverNextExpectedSeq
    <3>1. Head(acks).seq \in 0 .. rx.ReceiverNextExpectedSeq
      <4>1. Head(acks).seq <= rx.ReceiverNextExpectedSeq
        BY <1>3, <2>0 DEF InStep
      <4>2. Head(acks).seq \in Nat
        <5>1. Head(acks) \in Truthful
          BY <1>2
        <5> QED
          BY <1>0, <5>1 DEF Truthful, NumbersInRange
      <4> QED
        BY <1>0, <4>1, <4>2 DEF NumbersInRange
    <3>2. WholeChunks(Head(acks).seq) \in 0 .. Head(acks).seq
      BY <1>0, <3>1, ChunksAtMost DEF NumbersInRange
    <3> QED
      BY <1>0, <2>0, <3>1, <3>2 DEF InStep, Acknowledged, Larger, NumbersInRange
  <2>2. ~Head(acks).nack
    BY <1>3, <2>0 DEF InStep, NoNack
  <2>3. qp' = [qp EXCEPT !.snd_una = una, !.snd_nxt = qp.snd_nxt, !.inMap = inMap]
    BY <1>6, <2>2 DEF ReceiveAck
  <2>4. qp'.snd_una = una /\ qp'.snd_nxt = qp.snd_nxt /\ qp'.inMap = inMap
    <3>1. qp \in QpType
      BY DEF Inv, TypeOK, QpType
    <3> HIDE DEF una, inMap
    <3> QED
      BY <2>3, <3>1 DEF QpType
  <2>5. (qp.snd_una <= qp.snd_nxt)'
    <3> HIDE DEF una
    <3> QED
      BY <1>0, <2>0, <2>1, <2>4 DEF InStep, NumbersInRange
  <2>6. CASE ~IsFinished(una)
    <3>1. rx' = rx
      BY <1>6, <2>6 DEF ReceiveAck
    <3>2. Contiguous'
      BY <1>1, <2>0, <2>4, <3>1 DEF InStep, Contiguous
    <3>3. \A i \in 1 .. Len(acks') : acks'[i].seq <= rx.ReceiverNextExpectedSeq
      BY <1>3, <2>0 DEF InStep
    <3> HIDE DEF una
    <3>4. una <= rx.ReceiverNextExpectedSeq
      BY <1>0, <2>1 DEF NumbersInRange
    <3>5. InStep'
      BY <1>4, <2>0, <2>4, <3>1, <3>2, <3>3, <3>4 DEF InStep
    <3> QED
      BY <2>4, <2>5, <2>6, <3>5
  <2>7. CASE IsFinished(una)
    <3>1. ~qp'.inMap
      BY <2>4, <2>7
    <3>2. ASSUME ~stopped
          PROVE  AllDone'
      <4>1. una >= flow.m_size
        BY <2>7, <3>2 DEF IsFinished
      <4> HIDE DEF una
      <4>2. rx.ReceiverNextExpectedSeq = flow.m_size /\ qp.snd_nxt = flow.m_size
        BY <1>0, <2>0, <2>1, <4>1 DEF InStep, NumbersInRange
      <4>3. data = <<>>
        <5>1. ASSUME data # <<>> PROVE FALSE
          <6>1. data \in Seq(Fits)
            BY DEF Inv
          <6>2. Head(data).seq = flow.m_size
            BY <1>6, <4>2, <5>1, <6>1, FirstIsExpected
          <6>3. Head(data) \in Fits
            BY <5>1, <6>1
          <6> QED
            BY <1>0, <6>2, <6>3 DEF Fits, Packet, NumbersInRange
        <5> QED
          BY <5>1
      <4> QED
        BY <1>1, <1>4, <2>0, <2>4, <4>2, <4>3 DEF AllDone, InStep
    <3> QED
      BY <1>1, <2>5, <3>1, <3>2
  <2> QED
    BY <2>6, <2>7
<1> QED
  BY <1>5, <1>6

\* The expected packet leaves the rest of those under way (ReceiverCheckSeq).
LEMMA ReceiveInOrderQuiet == Inv /\ QuietInv /\ ReceiveInOrder => QuietInv'
<1> SUFFICES ASSUME Inv, QuietInv, ReceiveInOrder, losses = 0
             PROVE  /\ (qp.snd_una <= qp.snd_nxt)'
                    /\ qp'.inMap => InStep'
                    /\ ~qp'.inMap /\ ~stopped' => AllDone'
  BY DEF QuietInv, ReceiveInOrder
<1>0. NumbersInRange
  BY Numbers DEF Inv
<1> DEFINE next == Head(data).seq + Head(data).size
<1>1. data \in Seq(Fits) /\ data # <<>> /\ data' = Tail(data)
  BY DEF Inv, ReceiveInOrder
<1>2. /\ Len(data') = Len(data) - 1 /\ Len(data) \in Nat \ {0} /\ Head(data) = data[1]
      /\ \A i \in 1 .. Len(data') : data'[i] = data[i + 1] /\ i + 1 \in 1 .. Len(data)
      /\ data' # <<>> <=> Len(data) > 1
  BY <1>1
<1>3. rx'.ReceiverNextExpectedSeq = next
  <2>1. rx \in RxType
    BY DEF Inv, TypeOK, RxType
  <2>2. rx' = [rx EXCEPT !.ReceiverNextExpectedSeq = next]
    BY DEF ReceiveInOrder
  <2> HIDE DEF next
  <2> QED
    BY <2>1, <2>2 DEF RxType
<1>4. UNCHANGED <<flow, qp, stopped>>
  BY DEF ReceiveInOrder
<1>5. CASE ~qp.inMap
  <2>1. stopped
    BY <1>1, <1>5 DEF QuietInv, AllDone
  <2> QED
    BY <1>4, <1>5, <2>1 DEF QuietInv
<1>6. CASE qp.inMap
  <2>0. InStep
    BY <1>6 DEF QuietInv
  <2>1. next <= qp.snd_nxt /\ next >= rx.ReceiverNextExpectedSeq /\ next \in Nat
    <3>1. Head(data) \in Fits
      BY <1>1
    <3>2. Head(data).seq \in Nat /\ Head(data).size \in Nat
      BY <1>0, <3>1 DEF Fits, Packet, NumbersInRange
    <3>3. Head(data).seq = rx.ReceiverNextExpectedSeq
      BY <1>1, <1>6, FirstIsExpected
    <3>4. next <= qp.snd_nxt
      BY <1>2, <2>0 DEF InStep, Contiguous
    <3> QED
      BY <1>0, <3>2, <3>3, <3>4 DEF NumbersInRange
  <2>2. ASSUME data' = <<>> PROVE Contiguous'
    <3>1. Len(data) = 1
      BY <1>2, <2>2
    <3>2. next = qp.snd_nxt
      BY <1>1, <1>2, <2>0, <3>1 DEF InStep, Contiguous
    <3>3. Len(data') = 0
      BY <1>2, <3>1
    <3>4. qp'.snd_nxt = rx'.ReceiverNextExpectedSeq
      BY <1>3, <1>4, <3>2
    <3> QED
      BY <2>2, <3>3, <3>4 DEF Contiguous
  <2>3. ASSUME data' # <<>> PROVE Contiguous'
    <3>1. Len(data) > 1
      BY <1>2, <2>3
    <3>2. data'[1].seq = next
      <4>1. 1 \in 1 .. Len(data) - 1 /\ data'[1] = data[2]
        BY <1>2, <3>1
      <4> QED
        BY <1>2, <2>0, <4>1 DEF InStep, Contiguous
    <3>3. data'[Len(data')] = data[Len(data)]
      BY <1>2, <3>1
    <3>4. ASSUME NEW i \in 1 .. Len(data') - 1
          PROVE  data'[i + 1].seq = data'[i].seq + data'[i].size
      <4>1. /\ i + 1 \in 1 .. Len(data) - 1
            /\ data'[i + 1] = data[i + 1 + 1] /\ data'[i] = data[i + 1]
        BY <1>2
      <4> QED
        BY <2>0, <4>1 DEF InStep, Contiguous
    <3>5. ASSUME NEW i \in 1 .. Len(data')
          PROVE  data'[i].seq + data'[i].size <= qp.snd_nxt
      BY <1>2, <2>0 DEF InStep, Contiguous
    <3>6. data'[Len(data')].seq + data'[Len(data')].size = qp.snd_nxt
      BY <1>1, <2>0, <3>3 DEF Contiguous, InStep
    <3>7. qp'.snd_nxt = qp.snd_nxt /\ data'[1].seq = rx'.ReceiverNextExpectedSeq
      BY <1>3, <1>4, <3>2
    <3> QED
      BY <2>3, <3>4, <3>5, <3>6, <3>7 DEF Contiguous
  <2>4. Contiguous'
    BY <2>2, <2>3
  <2>5. qp'.snd_una <= rx'.ReceiverNextExpectedSeq /\ rx'.ReceiverNextExpectedSeq <= qp'.snd_nxt
    <3> HIDE DEF next
    <3> QED
      BY <1>0, <1>3, <1>4, <2>0, <2>1 DEF InStep, NumbersInRange
  <2>6. ASSUME NEW i \in 1 .. Len(acks')
        PROVE  acks'[i].seq <= rx'.ReceiverNextExpectedSeq /\ ~acks'[i].nack
    <3>0. acks \in Seq(Truthful)
      BY DEF Inv
    <3>1. ASSUME NEW j \in 1 .. Len(acks) PROVE acks[j].seq <= next /\ ~acks[j].nack
      <4>1. acks[j].seq <= rx.ReceiverNextExpectedSeq /\ ~acks[j].nack
        BY <2>0 DEF InStep, NoNack
      <4>2. acks[j] \in Truthful
        BY <3>0
      <4>3. acks[j].seq \in Nat
        BY <1>0, <4>2 DEF Truthful, NumbersInRange
      <4> HIDE DEF next
      <4> QED
        BY <1>0, <2>1, <4>1, <4>3 DEF NumbersInRange
    <3>2. Ack(next).seq <= next /\ ~Ack(next).nack
      BY <2>1 DEF Ack
    <3>3. acks' = Append(acks, Ack(next)) \/ acks' = acks
      BY DEF ReceiveInOrder
    <3> HIDE DEF next
    <3>4. CASE acks' = acks
      BY <1>3, <3>1, <3>4
    <3>5. CASE acks' = Append(acks, Ack(next))
      <4>1. (i \in 1 .. Len(acks) /\ acks'[i] = acks[i]) \/ acks'[i] = Ack(next)
        BY <3>0, <3>5
      <4> QED
        BY <1>3, <3>1, <3>2, <4>1
    <3> QED
      BY <3>3, <3>4, <3>5
  <2>7. InStep'
    BY <2>4, <2>5, <2>6 DEF InStep, NoNack
  <2> QED
    BY <1>4, <1>6, <2>7 DEF QuietInv
<1> QED
  BY <1>5, <1>6

\* Without loss an active pair's receiver sees neither a gap nor a repetition.
LEMMA OtherPacketQuiet ==
  Inv /\ QuietInv /\ (ReceiveAhead \/ ReceiveDuplicate) => QuietInv'
<1> SUFFICES ASSUME Inv, QuietInv, ReceiveAhead \/ ReceiveDuplicate, losses = 0
             PROVE  /\ (qp.snd_una <= qp.snd_nxt)'
                    /\ qp'.inMap => InStep'
                    /\ ~qp'.inMap /\ ~stopped' => AllDone'
  BY DEF QuietInv, ReceiveAhead, ReceiveDuplicate
<1>0. NumbersInRange
  BY Numbers DEF Inv
<1>1. UNCHANGED <<flow, qp, stopped>> /\ data # <<>>
  BY DEF ReceiveAhead, ReceiveDuplicate
<1>2. Head(data).seq # rx.ReceiverNextExpectedSeq
  BY <1>0 DEF ReceiveAhead, ReceiveDuplicate, NumbersInRange
<1>3. ~qp.inMap
  BY <1>1, <1>2, FirstIsExpected DEF Inv
<1>4. stopped
  BY <1>1, <1>3 DEF QuietInv, AllDone
<1> QED
  BY <1>1, <1>3, <1>4 DEF QuietInv

\* Every step keeps what holds while nothing is lost.
LEMMA StepQuiet == Inv /\ QuietInv /\ [Next]_vars => QuietInv'
<1> SUFFICES ASSUME Inv, QuietInv, [Next]_vars PROVE QuietInv'
  OBVIOUS
<1>1. CASE Send
  BY <1>1, SendQuiet
<1>2. CASE ClearFinished
  <2>1. qp \in QpType /\ qp' = [qp EXCEPT !.inGroup = FALSE]
    BY <1>2 DEF Inv, TypeOK, QpType, ClearFinished
  <2>2. /\ qp'.snd_una = qp.snd_una /\ qp'.snd_nxt = qp.snd_nxt /\ qp'.inMap = qp.inMap
    BY <2>1 DEF QpType
  <2>3. UNCHANGED <<flow, rx, data, acks, stopped, losses>>
    BY <1>2 DEF ClearFinished
  <2> QED
    BY <2>2, <2>3 DEF QuietInv, InStep, Contiguous, NoNack, AllDone
<1>3. CASE ReceiveAck
  BY <1>3, ReceiveAckQuiet
<1>4. CASE ReceiveInOrder
  BY <1>4, ReceiveInOrderQuiet
<1>5. CASE ReceiveAhead \/ ReceiveDuplicate
  BY <1>5, OtherPacketQuiet
<1>6. CASE NackTimerExpires
  <2>1. rx \in RxType /\ rx' = [rx EXCEPT !.waiting = FALSE]
    BY <1>6 DEF Inv, TypeOK, RxType, NackTimerExpires
  <2>2. rx'.ReceiverNextExpectedSeq = rx.ReceiverNextExpectedSeq
    BY <2>1 DEF RxType
  <2>3. UNCHANGED <<flow, qp, data, acks, stopped, losses>>
    BY <1>6 DEF NackTimerExpires
  <2> QED
    BY <2>2, <2>3 DEF QuietInv, InStep, Contiguous, NoNack, AllDone
<1>7. CASE Lose
  <2>1. losses \in Nat /\ losses' = losses + 1
    BY <1>7, TransportConfiguration DEF Lose, Inv, TypeOK
  <2> QED
    BY <2>1 DEF QuietInv
<1>8. CASE StopTimePasses
  <2>1. stopped' = TRUE /\ UNCHANGED <<flow, qp, rx, data, acks, losses>>
    BY <1>8 DEF StopTimePasses
  <2> QED
    BY <2>1 DEF QuietInv, InStep, Contiguous, NoNack
<1>9. CASE UNCHANGED vars
  BY <1>9 DEF vars, QuietInv, InStep, Contiguous, NoNack, AllDone
<1> QED
  BY <1>1, <1>2, <1>3, <1>4, <1>5, <1>6, <1>7, <1>8, <1>9 DEF Next, ReceiveUdp

\* While nothing is lost no NACK is sent and nothing is sent twice, for any message,
\* window, MTU and chunk size (ReceiverCheckSeq, QpComplete).
THEOREM NoNackWithoutLoss == Spec => []NoSpuriousNack
<1>1. Init => QuietInv
  BY DEF Init, NewQp, NewRx, QuietInv, InStep, Contiguous, NoNack
<1>2. Inv /\ QuietInv => NoSpuriousNack
  BY DEF QuietInv, InStep, NoNack, AllDone, NoSpuriousNack
<1> QED
  BY <1>1, <1>2, StepQuiet, InvHolds, PTL DEF Spec
===============================================================================
