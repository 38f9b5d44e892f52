----------------------------- MODULE MultipleQueue -----------------------------
(***************************************************************************)
(* The transmit queue of an Occamy device (multiple-queue.cc): m_useqCnt   *)
(* FIFO subqueues and four ways to choose the one to serve.  A queue is a  *)
(* record of the class's members; a packet is its size.                    *)
(***************************************************************************)
EXTENDS Integers, Sequences

CONSTANTS
  PacketSize,  \* sizes of packets
  m_weight     \* credit a DRR queue gets when its turn comes

\* One turn's credit, 2000 bytes, pays for any packet of the network.
ASSUME QueueConfiguration ==
  /\ PacketSize \subseteq Nat \ {0} /\ PacketSize # {}
  /\ m_weight \in Nat \ {0}
  /\ \A size \in PacketSize : size <= m_weight

DequeueTypes == {"RR", "PQ", "DRR", "PQDRR"}

Subqueues(mq) == 0 .. mq.m_useqCnt - 1

\* m_deindex and drr_index are set before m_useqCnt is, and used modulo it.
NewMultipleQueue(type, useqCnt) ==
  [m_dequeueType |-> type,
   m_useqCnt |-> useqCnt,
   m_queues |-> [q \in 0 .. useqCnt - 1 |-> <<>>],
   m_deindex |-> 7 % useqCnt,
   drr_index |-> 2 % useqCnt,
   m_drr_num |-> [q \in 0 .. useqCnt - 1 |-> 0]]

\* NULL, as an index: nothing was dequeued.
None == -1

Backlogged(mq, q) == mq.m_queues[q] # <<>>

EnqueueTos(mq, q, size) == [mq EXCEPT !.m_queues[q] = Append(@, size)]

\* Dequeue(index): also how packets are dropped from the head of a queue.
DequeueFrom(mq, q) == [mq EXCEPT !.m_queues[q] = Tail(@)]

First(S) == CHOOSE i \in S : \A j \in S : i <= j

Latest(S) == CHOOSE i \in S : \A j \in S : j <= i

-------------------------------------------------------------------------------
(* Round robin and strict priority *)

\* Fault: the queue served is not remembered.
DequeueRR_Forgets(mq) ==
  LET Turn(i) == (mq.m_deindex + i) % mq.m_useqCnt
      found == {i \in 1 .. mq.m_useqCnt : Backlogged(mq, Turn(i))}
      q == Turn(First(found))
  IN  IF found = {} THEN [queue |-> mq, from |-> None]
      ELSE [queue |-> DequeueFrom(mq, q), from |-> q]

DequeueRR(mq) ==
  LET Turn(i) == (mq.m_deindex + i) % mq.m_useqCnt
      found == {i \in 1 .. mq.m_useqCnt : Backlogged(mq, Turn(i))}
  IN  IF found = {} THEN [queue |-> mq, from |-> None]
      ELSE LET q == Turn(First(found))
           IN  [queue |-> [DequeueFrom(mq, q) EXCEPT !.m_deindex = q], from |-> q]

DequeuePQ(mq) ==
  LET found == {q \in Subqueues(mq) : Backlogged(mq, q)}
      q == First(found)
  IN  IF found = {} THEN [queue |-> mq, from |-> None]
      ELSE [queue |-> [DequeueFrom(mq, q) EXCEPT !.m_deindex = q], from |-> q]

-------------------------------------------------------------------------------
(* Deficit round robin.  The loop looks at the queues in a circle, from the *)
(* current one (look 0) back to the current one (look m_useqCnt).           *)

Current(mq) == IF mq.m_dequeueType = "PQDRR" THEN mq.drr_index ELSE mq.m_deindex

Place(mq, i) == (Current(mq) + i) % mq.m_useqCnt

\* The queues the round skips: those PQDRR serves by priority.
InRound(mq, q) == mq.m_dequeueType = "PQDRR" => q >= 2

\* Fault: the current queue gets new credit every time it is looked at.
Credit_EveryLook(mq, i) == mq.m_drr_num[Place(mq, i)] + m_weight

\* Credit of the queue at look i.  At the last look the current queue may
\* already have lost its credit, at look 0, for being empty.
Credit(mq, i) ==
  LET left == mq.m_drr_num[Place(mq, i)]
  IN  IF i = 0 THEN left
      ELSE IF i = mq.m_useqCnt /\ left > 0 THEN m_weight
      ELSE left + m_weight

Serves(mq, i) ==
  /\ InRound(mq, Place(mq, i))
  /\ Credit(mq, i) > 0
  /\ Backlogged(mq, Place(mq, i))

\* Fault: the loop ends before it is back at the current queue.
Looks_Fewer(mq) == 0 .. mq.m_useqCnt - 1

Looks(mq) == 0 .. mq.m_useqCnt

Serving(mq) == {i \in Looks(mq) : Serves(mq, i)}

\* Fault: a queue that is empty when its turn comes keeps its credit.
Passed_KeepsCredit(mq, i) == Credit(mq, i)

\* What a queue is left with when look i passes it by: a queue with credit that
\* has nothing to send loses it.
Passed(mq, i) == IF Credit(mq, i) > 0 THEN 0 ELSE Credit(mq, i)

\* The credit of queue q after the looks before look n.
PassedBefore(mq, n, q) ==
  LET looks == {i \in 0 .. n - 1 : Place(mq, i) = q}
  IN  IF ~InRound(mq, q) \/ looks = {} THEN mq.m_drr_num[q]
      ELSE Passed(mq, Latest(looks))

\* All looks fail: only credits have changed.
RoundPassed(mq) ==
  [mq EXCEPT !.m_drr_num =
     [q \in Subqueues(mq) |-> PassedBefore(mq, mq.m_useqCnt + 1, q)]]

\* Look n serves its queue, which pays for the packet.
RoundServed(mq, n) ==
  LET t == Place(mq, n)
      cost == Head(mq.m_queues[t])
  IN  [DequeueFrom(mq, t) EXCEPT
         !.m_deindex = t,
         !.drr_index = IF mq.m_dequeueType = "PQDRR" THEN t ELSE @,
         !.m_drr_num = [q \in Subqueues(mq) |->
           IF q = t THEN Credit(mq, n) - cost ELSE PassedBefore(mq, n, q)]]

DequeueDRR(mq) ==
  IF Serving(mq) = {} THEN [queue |-> RoundPassed(mq), from |-> None]
  ELSE LET n == First(Serving(mq))
       IN  [queue |-> RoundServed(mq, n), from |-> Place(mq, n)]

\* Queues 0 and 1 have priority, the others share what is left.
DequeuePQDRR(mq) ==
  LET urgent == {q \in Subqueues(mq) \cap {0, 1} : Backlogged(mq, q)}
      q == First(urgent)
  IN  IF urgent = {} THEN DequeueDRR(mq)
      ELSE [queue |-> [DequeueFrom(mq, q) EXCEPT !.m_deindex = q], from |-> q]

Dequeue(mq) ==
  CASE mq.m_dequeueType = "RR"    -> DequeueRR(mq)
    [] mq.m_dequeueType = "PQ"    -> DequeuePQ(mq)
    [] mq.m_dequeueType = "DRR"   -> DequeueDRR(mq)
    [] mq.m_dequeueType = "PQDRR" -> DequeuePQDRR(mq)
===============================================================================
