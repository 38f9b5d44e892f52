----------------------------- MODULE PortScheduler -----------------------------
(***************************************************************************)
(* One port of an Occamy switch: its MultipleQueue and its transmitter, as *)
(* SendSwitch, TransmitCompleteSwitch and the head-drop passes of          *)
(* shared-memory-point-to-point-net-device.cc use them.  Which packets are *)
(* admitted or dropped is left open here.                                  *)
(***************************************************************************)
EXTENDS MultipleQueue

CONSTANTS
  qCnt,      \* how many subqueues there are at most
  Config,    \* pairs of a dequeue type and a number of subqueues
  MaxLength  \* bound: MaxLength[type][q], packets in queue q

ASSUME SchedulerConfiguration ==
  /\ qCnt \in Nat
  /\ Config \subseteq DequeueTypes \X (1 .. qCnt)

VARIABLES
  mq,       \* the device's m_queue
  serving,  \* the queue whose packet is being transmitted, None when READY
  lead      \* history: lead[<<a, b>>], what a got more than b since both wait
            \* (for queues that share the link by turns)

vars == <<mq, serving, lead>>

\* Queues that take turns, with each other: all of RR's and DRR's, PQDRR's last.
TakesTurns(m, q) == m.m_dequeueType # "PQ" /\ InRound(m, q)

Pairs(m) ==
  {p \in Subqueues(m) \X Subqueues(m) :
     p[1] # p[2] /\ TakesTurns(m, p[1]) /\ TakesTurns(m, p[2])}

Init ==
  \E c \in Config :
    /\ mq = NewMultipleQueue(c[1], c[2])
    /\ serving = None
    /\ lead = [p \in Pairs(mq) |-> 0]

\* Round robin shares packets, deficit round robin bytes.
Share(m, q) == IF m.m_dequeueType = "RR" THEN 1 ELSE Head(m.m_queues[q])

\* The history of a service of queue q (or of none) that leaves the queues as in
\* m: a pair counts while both queues have had packets waiting throughout.
Recorded(before, m, q) ==
  [p \in Pairs(before) |->
     IF ~Backlogged(m, p[1]) \/ ~Backlogged(m, p[2]) THEN 0
     ELSE IF p[1] = q THEN lead[p] + Share(before, q)
     ELSE IF p[2] = q THEN lead[p] - Share(before, q)
     ELSE lead[p]]

\* A READY device dequeues and transmits, if the scheduler finds a packet.
Transmit(m) ==
  LET d == Dequeue(m)
  IN  /\ mq' = d.queue
      /\ serving' = d.from
      /\ lead' = Recorded(m, d.queue, d.from)

\* SendSwitch with a packet that is admitted to queue q.
Send(q, size) ==
  /\ Len(mq.m_queues[q]) < MaxLength[mq.m_dequeueType][q]
  /\ IF serving = None THEN Transmit(EnqueueTos(mq, q, size))
     ELSE /\ mq' = EnqueueTos(mq, q, size)
          /\ UNCHANGED <<serving, lead>>

TransmitComplete ==
  /\ serving # None
  /\ Transmit(mq)

\* A head-drop pass takes the first packet of a queue.
HeadDrop(q) ==
  /\ Backlogged(mq, q)
  /\ mq' = DequeueFrom(mq, q)
  /\ lead' = Recorded(mq, DequeueFrom(mq, q), None)
  /\ UNCHANGED serving

Next ==
  \/ \E q \in Subqueues(mq), size \in PacketSize : Send(q, size)
  \/ \E q \in Subqueues(mq) : HeadDrop(q)
  \/ TransmitComplete

\* A transmission that started completes: its end is scheduled.
Spec == Init /\ [][Next]_vars /\ WF_vars(TransmitComplete)

-------------------------------------------------------------------------------
(* Properties *)

\* No queue ever owes a whole packet or has more than one turn's credit: credits
\* do not build up while a queue is empty, passed by or dropped from.
CreditBounded ==
  \A q \in Subqueues(mq) :
    /\ mq.m_drr_num[q] <= m_weight
    /\ \E size \in PacketSize \cup {1} : mq.m_drr_num[q] > -size

\* A device that is READY has nothing to send.  A scheduler that returns NULL
\* with packets waiting leaves the port idle until the next packet arrives.  It
\* holds as one turn's credit covers the largest packet.
WorkConserving ==
  serving = None => \A q \in Subqueues(mq) : ~Backlogged(mq, q)

MaxSize == CHOOSE s \in PacketSize : \A t \in PacketSize : t <= s

\* While two queues both have packets waiting, neither gets ahead of the other by
\* more than one packet (RR) or one turn's credit and two packets (DRR), whatever
\* the sizes of the packets and whatever is dropped or arrives elsewhere.
Fair ==
  \A p \in Pairs(mq) :
    lead[p] <= IF mq.m_dequeueType = "RR" THEN 1
               ELSE m_weight + 2 * (MaxSize - 1)

\* Queue q has packets waiting although its turn should come: under strict
\* priority only that of queue 0 has to.
Overlooked(q) ==
  /\ q \in Subqueues(mq)
  /\ Backlogged(mq, q) /\ serving # q
  /\ q = 0 \/ mq.m_dequeueType \in {"RR", "DRR"}

\* No queue waits for ever for its turn while the port serves others.
NoStarvation == \A q \in 0 .. qCnt - 1 : []<>(~Overlooked(q))
===============================================================================
