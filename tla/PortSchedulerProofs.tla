-------------------------- MODULE PortSchedulerProofs --------------------------
(***************************************************************************)
(* The schedulers of an Occamy port never return NULL while packets wait,  *)
(* and never let a queue's credit out of its bounds, for any number of     *)
(* queues, any credit per turn and any packets one turn's credit covers.   *)
(***************************************************************************)
EXTENDS PortScheduler, WellFoundedInduction, TLAPS

\* One step round the circle of queues, without %.
LEMMA Circle ==
  ASSUME NEW U \in Nat \ {0}, NEW c \in 0 .. U - 1, NEW i \in 0 .. U
  PROVE  (c + i) % U = IF c + i < U THEN c + i ELSE c + i - U
<1>1. CASE c + i < U
  BY <1>1, SMT
<1>2. CASE c + i >= U
  <2>1. c + i = U + (c + i - U) /\ c + i - U \in 0 .. U - 1
    BY <1>2
  <2>2. \A r \in 0 .. U - 1 : (1 * U + r) % U = r
    BY SMTT(20)
  <2> QED
    BY <1>2, <2>1, <2>2, SMT
<1> QED
  BY <1>1, <1>2

\* First picks the least element of a set of numbers.
LEMMA FirstIsLeast ==
  ASSUME NEW S, S \subseteq Nat, S # {}
  PROVE  First(S) \in S /\ \A j \in S : First(S) <= j
<1> DEFINE Below == {ss \in Nat \X Nat : ss[1] < ss[2]}
<1>1. IsWellFoundedOn(Below, Nat)
  BY NatLessThanWellFounded, Zenon DEF OpToRel
<1>2. PICK x \in S : \A y \in S : ~ (<<y, x>> \in Below)
  <2> HIDE DEF Below
  <2> QED
    BY <1>1, WFMin
<1>3. ASSUME NEW y \in S
      PROVE  x <= y
  <2>1. x \in Nat /\ y \in Nat
    OBVIOUS
  <2>2. y < x => <<y, x>> \in Below
    BY <2>1
  <2> HIDE DEF Below
  <2>3. ~ (y < x)
    BY <1>2, <2>2
  <2> QED
    BY <2>1, <2>3
<1> QED
  BY <1>3 DEF First

\* Latest picks the greatest element of a bounded set of numbers.
LEMMA LatestIsMember ==
  ASSUME NEW n \in Nat, NEW S, S \subseteq 0 .. n, S # {}
  PROVE  Latest(S) \in S /\ \A j \in S : j <= Latest(S)
<1> DEFINE R == {n - j : j \in S}
<1>1. R \subseteq Nat /\ R # {}
  <2>1. PICK s \in S : TRUE
    OBVIOUS
  <2>2. n - s \in R
    OBVIOUS
  <2>3. \A j \in S : n - j \in Nat
    OBVIOUS
  <2> QED
    BY <2>2, <2>3
<1>2. First(R) \in R /\ \A j \in R : First(R) <= j
  <2> HIDE DEF R
  <2> QED
    BY <1>1, FirstIsLeast
<1>3. PICK i \in S : First(R) = n - i
  BY <1>2
<1>4. ASSUME NEW j \in S
      PROVE  j <= i
  <2>1. n - j \in R
    OBVIOUS
  <2>2. First(R) <= n - j
    BY <1>2, <2>1
  <2>3. i \in Int /\ j \in Int
    OBVIOUS
  <2> HIDE DEF R
  <2> QED
    BY <1>3, <2>2, <2>3
<1> QED
  BY <1>4 DEF Latest

\* A MultipleQueue of U subqueues.
QueueType(U) ==
  [m_dequeueType : DequeueTypes, m_useqCnt : {U},
   m_queues : [0 .. U - 1 -> Seq(PacketSize)],
   m_deindex : 0 .. U - 1, drr_index : 0 .. U - 1,
   m_drr_num : [0 .. U - 1 -> Int]]

\* A credit within its bounds: one turn at most, a packet's debt at most.
Payable(credit) ==
  credit <= m_weight /\ \E size \in PacketSize \cup {1} : credit > -size

\* Credits are within bounds, and only the current queue of a round has some.
\* The latter is what keeps the credit of a turn from adding up.
CreditSound(m) ==
  \A q \in Subqueues(m) :
    /\ Payable(m.m_drr_num[q])
    /\ m.m_dequeueType \in {"RR", "PQ"} => m.m_drr_num[q] = 0
    /\ m.m_drr_num[q] > 0 => q = Current(m) /\ InRound(m, q)

\* What a look of the DRR loop finds: some credit at every look but the first.
LEMMA Looked ==
  ASSUME NEW U \in Nat \ {0}, NEW m \in QueueType(U), CreditSound(m),
         NEW i \in 0 .. U, m.m_dequeueType \in {"DRR", "PQDRR"}
  PROVE  /\ Current(m) \in 0 .. U - 1
         /\ Place(m, i) \in 0 .. U - 1
         /\ i = 0 \/ i = U <=> Place(m, i) = Current(m)
         /\ Credit(m, i) \in Int
         /\ Payable(Credit(m, i))
         /\ i # 0 => Credit(m, i) > 0
         /\ Passed(m, i) \in Int
         /\ Passed(m, i) <= 0
         /\ Payable(Passed(m, i))
<1>1. m.m_useqCnt = U /\ Current(m) \in 0 .. U - 1
  BY DEF QueueType, Current
<1>2. Place(m, i) = IF Current(m) + i < U THEN Current(m) + i ELSE Current(m) + i - U
  BY <1>1, Circle DEF Place
<1>3. Place(m, i) \in 0 .. U - 1 /\ (i = 0 \/ i = U <=> Place(m, i) = Current(m))
  BY <1>1, <1>2
<1> DEFINE left == m.m_drr_num[Place(m, i)]
<1>4. left \in Int /\ Payable(left) /\ (left > 0 => Place(m, i) = Current(m))
  BY <1>1, <1>3 DEF QueueType, CreditSound, Subqueues
<1>5. /\ Credit(m, i) = IF i = 0 THEN left
                        ELSE IF i = U /\ left > 0 THEN m_weight ELSE left + m_weight
      /\ Passed(m, i) = IF Credit(m, i) > 0 THEN 0 ELSE Credit(m, i)
  BY <1>1 DEF Credit, Passed
<1> HIDE DEF left
<1>6. Credit(m, i) \in Int /\ Payable(Credit(m, i)) /\ (i # 0 => Credit(m, i) > 0)
  BY <1>3, <1>4, <1>5, QueueConfiguration DEF Payable
<1> QED
  BY <1>1, <1>3, <1>5, <1>6, QueueConfiguration DEF Payable

\* Queues the loop has passed are left without credit, the others unchanged.
LEMMA PassedOver ==
  ASSUME NEW U \in Nat \ {0}, NEW m \in QueueType(U), CreditSound(m),
         m.m_dequeueType \in {"DRR", "PQDRR"},
         NEW n \in 0 .. U + 1, NEW q \in 0 .. U - 1
  PROVE  /\ PassedBefore(m, n, q) \in Int
         /\ Payable(PassedBefore(m, n, q))
         /\ PassedBefore(m, n, q) > 0 => n = 0 /\ q = Current(m)
<1> DEFINE looks == {i \in 0 .. n - 1 : Place(m, i) = q}
<1>1. CASE ~InRound(m, q) \/ looks = {}
  <2>1. PassedBefore(m, n, q) = m.m_drr_num[q]
    BY <1>1 DEF PassedBefore
  <2>2. /\ m.m_drr_num[q] \in Int
        /\ Payable(m.m_drr_num[q])
        /\ m.m_drr_num[q] > 0 => q = Current(m) /\ InRound(m, q)
    BY DEF QueueType, CreditSound, Subqueues
  <2>3. ASSUME looks = {}, q = Current(m)
        PROVE  n = 0
    <3>1. Place(m, 0) = q
      BY <2>3, Looked
    <3>2. 0 \notin 0 .. n - 1
      BY <2>3, <3>1
    <3> QED
      BY <3>2
  <2> QED
    BY <1>1, <2>1, <2>2, <2>3
<1>2. CASE InRound(m, q) /\ looks # {}
  <2>1. PassedBefore(m, n, q) = Passed(m, Latest(looks))
    BY <1>2 DEF PassedBefore
  <2>2. looks \subseteq 0 .. U + 1 /\ U + 1 \in Nat
    OBVIOUS
  <2>3. Latest(looks) \in looks
    <3> HIDE DEF looks
    <3> QED
      BY <1>2, <2>2, LatestIsMember
  <2>4. Latest(looks) \in 0 .. U
    BY <2>3
  <2> HIDE DEF looks
  <2> QED
    BY <2>1, <2>4, Looked
<1> QED
  BY <1>1, <1>2

\* The loop of DequeueDRR keeps the queue sound, and finds nothing only if no
\* queue of the round has packets.
LEMMA RoundTaken ==
  ASSUME NEW U \in Nat \ {0}, NEW m \in QueueType(U), CreditSound(m),
         m.m_dequeueType \in {"DRR", "PQDRR"}
  PROVE  LET d == DequeueDRR(m)
         IN  /\ d.queue \in QueueType(U)
             /\ CreditSound(d.queue)
             /\ d.from \in Subqueues(m) \cup {None}
             /\ d.from = None => \A q \in Subqueues(m) :
                  InRound(m, q) => ~Backlogged(d.queue, q)
             /\ d.queue.m_dequeueType = m.m_dequeueType
             /\ d.from = None => d.queue.m_queues = m.m_queues
<1>u. m.m_useqCnt = U /\ Subqueues(m) = 0 .. U - 1
  BY DEF QueueType, Subqueues
<1>1. CASE Serving(m) = {}
  <2>1. DequeueDRR(m) = [queue |-> RoundPassed(m), from |-> None]
    BY <1>1 DEF DequeueDRR
  <2> DEFINE credits == [q \in 0 .. U - 1 |-> PassedBefore(m, U + 1, q)]
  <2>2. RoundPassed(m) = [m EXCEPT !.m_drr_num = credits]
    BY <1>u DEF RoundPassed
  <2>3. credits \in [0 .. U - 1 -> Int]
    BY PassedOver
  <2>4. \A q \in 0 .. U - 1 : Payable(credits[q]) /\ ~ (credits[q] > 0)
    BY PassedOver
  <2> HIDE DEF credits
  <2>5. /\ RoundPassed(m) \in QueueType(U)
        /\ RoundPassed(m).m_drr_num = credits
        /\ RoundPassed(m).m_queues = m.m_queues
        /\ RoundPassed(m).m_useqCnt = U
        /\ RoundPassed(m).m_dequeueType = m.m_dequeueType
    BY <2>2, <2>3 DEF QueueType
  <2>6. CreditSound(RoundPassed(m))
    BY <2>4, <2>5 DEF CreditSound, Subqueues
  <2>7. ASSUME NEW q \in 0 .. U - 1, InRound(m, q)
        PROVE  ~Backlogged(m, q)
    <3>1. Current(m) \in 0 .. U - 1
      BY Looked
    <3> DEFINE i == IF q > Current(m) THEN q - Current(m) ELSE q - Current(m) + U
    <3>2. i \in 1 .. U
      BY <3>1
    <3>3. Place(m, i) = q
      <4>1. Place(m, i) = (Current(m) + i) % U
        BY <1>u DEF Place
      <4>2. (Current(m) + i) % U =
              IF Current(m) + i < U THEN Current(m) + i ELSE Current(m) + i - U
        <5>1. i \in 0 .. U
          BY <3>2
        <5> HIDE DEF i
        <5> QED
          BY <3>1, <5>1, Circle
      <4> QED
        BY <3>1, <4>1, <4>2
    <3>4. Credit(m, i) > 0 /\ i \in 0 .. U
      BY <3>2, Looked
    <3> HIDE DEF i
    <3>5. ~Serves(m, i)
      BY <1>1, <1>u, <3>4 DEF Serving, Looks
    <3> QED
      BY <2>7, <3>3, <3>4, <3>5 DEF Serves
  <2>8. \A q \in 0 .. U - 1 : Backlogged(RoundPassed(m), q) <=> Backlogged(m, q)
    BY <2>5 DEF Backlogged
  <2> QED
    BY <1>u, <2>1, <2>5, <2>6, <2>7, <2>8
<1>2. CASE Serving(m) # {}
  <2> DEFINE n == First(Serving(m))
             t == Place(m, n)
             cost == Head(m.m_queues[t])
             credits == [q \in 0 .. U - 1 |->
                           IF q = t THEN Credit(m, n) - cost
                           ELSE PassedBefore(m, n, q)]
  <2>1. n \in 0 .. U /\ Serves(m, n)
    <3>1. Serving(m) \subseteq Nat
      BY <1>u DEF Serving, Looks
    <3>2. n \in Serving(m)
      BY <1>2, <3>1, FirstIsLeast
    <3> QED
      BY <1>u, <3>2 DEF Serving, Looks
  <2>2. DequeueDRR(m) = [queue |-> RoundServed(m, n), from |-> t]
    BY <1>2 DEF DequeueDRR
  <2> HIDE DEF n
  <2>3. /\ t \in 0 .. U - 1
        /\ Credit(m, n) \in Int
        /\ Payable(Credit(m, n))
        /\ n = 0 => t = Current(m)
    BY <2>1, Looked
  <2>4. /\ InRound(m, t)
        /\ Credit(m, n) > 0
        /\ m.m_queues[t] # <<>>
    BY <2>1 DEF Serves, Backlogged
  <2>5. m.m_queues[t] \in Seq(PacketSize)
    BY <2>3 DEF QueueType
  <2>6. cost \in PacketSize /\ Tail(m.m_queues[t]) \in Seq(PacketSize)
    BY <2>4, <2>5
  <2>7. credits \in [0 .. U - 1 -> Int]
    <3>1. \A q \in 0 .. U - 1 : PassedBefore(m, n, q) \in Int
      BY <2>1, PassedOver
    <3> HIDE DEF cost, t
    <3>2. Credit(m, n) - cost \in Int
      BY <2>3, <2>6, QueueConfiguration
    <3> QED
      BY <3>1, <3>2
  <2>8. \A q \in 0 .. U - 1 : Payable(credits[q]) /\ (credits[q] > 0 => q = t)
    <3>1. ASSUME NEW q \in 0 .. U - 1, q # t
          PROVE  Payable(credits[q]) /\ ~ (credits[q] > 0)
      BY <2>1, <2>3, <3>1, PassedOver
    <3>2. Payable(Credit(m, n) - cost)
      <4> HIDE DEF t, cost
      <4>1. Credit(m, n) - cost > -cost /\ Credit(m, n) - cost <= m_weight
        BY <2>3, <2>4, <2>6, QueueConfiguration DEF Payable
      <4> QED
        BY <2>6, <4>1 DEF Payable
    <3>3. credits[t] = Credit(m, n) - cost
      BY <2>3
    <3> HIDE DEF t, cost, credits
    <3> QED
      BY <3>1, <3>2, <3>3
  <2> DEFINE queues == [m.m_queues EXCEPT ![t] = Tail(@)]
             dindex == IF m.m_dequeueType = "PQDRR" THEN t ELSE m.drr_index
  <2>9. RoundServed(m, n) =
          [[m EXCEPT !.m_queues = queues] EXCEPT
             !.m_deindex = t, !.drr_index = dindex, !.m_drr_num = credits]
    BY <1>u DEF RoundServed, DequeueFrom, QueueType
  <2>10. queues \in [0 .. U - 1 -> Seq(PacketSize)] /\ dindex \in 0 .. U - 1
    BY <2>3, <2>6 DEF QueueType
  <2> HIDE DEF credits, cost, t, queues, dindex
  <2>11. /\ RoundServed(m, n) \in QueueType(U)
         /\ RoundServed(m, n).m_drr_num = credits
         /\ RoundServed(m, n).m_useqCnt = U
         /\ RoundServed(m, n).m_dequeueType = m.m_dequeueType
         /\ RoundServed(m, n).m_deindex = t
         /\ RoundServed(m, n).drr_index = dindex
    BY <2>3, <2>7, <2>9, <2>10 DEF QueueType
  <2>12. Current(RoundServed(m, n)) = t
    BY <2>11 DEF Current, dindex
  <2>13. InRound(RoundServed(m, n), t)
    BY <2>4, <2>11 DEF InRound
  <2>14. CreditSound(RoundServed(m, n))
    BY <2>8, <2>11, <2>12, <2>13 DEF CreditSound, Subqueues
  <2>15. t # None
    BY <2>3 DEF None
  <2> QED
    BY <1>u, <2>2, <2>3, <2>11, <2>14, <2>15
<1> QED
  BY <1>1, <1>2

\* Taking a packet keeps the queue sound; so does moving m_deindex, except
\* under DRR, whose current queue it names.
LEMMA TakeOne ==
  ASSUME NEW U \in Nat \ {0}, NEW m \in QueueType(U), CreditSound(m),
         NEW q \in 0 .. U - 1, Backlogged(m, q)
  PROVE  /\ DequeueFrom(m, q) \in QueueType(U)
         /\ CreditSound(DequeueFrom(m, q))
         /\ m.m_dequeueType # "DRR" =>
              /\ [DequeueFrom(m, q) EXCEPT !.m_deindex = q] \in QueueType(U)
              /\ CreditSound([DequeueFrom(m, q) EXCEPT !.m_deindex = q])
<1> DEFINE queues == [m.m_queues EXCEPT ![q] = Tail(@)]
<1>1. queues \in [0 .. U - 1 -> Seq(PacketSize)]
  <2>1. m.m_queues[q] \in Seq(PacketSize) /\ m.m_queues[q] # <<>>
    BY DEF QueueType, Backlogged
  <2>2. Tail(m.m_queues[q]) \in Seq(PacketSize)
    BY <2>1
  <2> QED
    BY <2>2 DEF QueueType
<1>2. DequeueFrom(m, q) = [m EXCEPT !.m_queues = queues]
  BY DEF DequeueFrom, QueueType
<1> HIDE DEF queues
<1>3. ASSUME NEW d, d \in {DequeueFrom(m, q), [DequeueFrom(m, q) EXCEPT !.m_deindex = q]},
             d = DequeueFrom(m, q) \/ m.m_dequeueType # "DRR"
      PROVE  d \in QueueType(U) /\ CreditSound(d)
  <2>1. /\ d \in QueueType(U)
        /\ d.m_drr_num = m.m_drr_num
        /\ d.m_useqCnt = U
        /\ d.m_dequeueType = m.m_dequeueType
        /\ d.drr_index = m.drr_index
        /\ d.m_deindex = m.m_deindex \/ m.m_dequeueType # "DRR"
    BY <1>1, <1>2, <1>3 DEF QueueType
  <2>2. m.m_dequeueType \in DequeueTypes /\ m.m_useqCnt = U
    BY DEF QueueType
  <2>3. \A p \in 0 .. U - 1 :
          /\ m.m_drr_num[p] \in Int
          /\ Payable(m.m_drr_num[p])
          /\ m.m_dequeueType \in {"RR", "PQ"} => m.m_drr_num[p] = 0
          /\ m.m_drr_num[p] > 0 => p = Current(m) /\ InRound(m, p)
    BY <2>2 DEF CreditSound, Subqueues, QueueType
  <2>4. m.m_dequeueType \in {"DRR", "PQDRR"} => Current(d) = Current(m)
    BY <2>1 DEF Current
  <2>5. \A p \in 0 .. U - 1 : InRound(d, p) <=> InRound(m, p)
    BY <2>1 DEF InRound
  <2>6. m.m_dequeueType \in {"RR", "PQ"} \/ m.m_dequeueType \in {"DRR", "PQDRR"}
    BY <2>2 DEF DequeueTypes
  <2>7. ASSUME NEW p \in 0 .. U - 1
        PROVE  m.m_drr_num[p] > 0 => p = Current(d) /\ InRound(d, p)
    BY <2>3, <2>4, <2>5, <2>6
  <2> QED
    BY <2>1, <2>3, <2>7 DEF CreditSound, Subqueues
<1> QED
  BY <1>3

\* The same as RoundTaken for each of the four schedulers.
LEMMA Dequeued ==
  ASSUME NEW U \in Nat \ {0}, NEW m \in QueueType(U), CreditSound(m)
  PROVE  /\ Dequeue(m).queue \in QueueType(U)
         /\ CreditSound(Dequeue(m).queue)
         /\ Dequeue(m).from \in Subqueues(m) \cup {None}
         /\ Dequeue(m).from = None =>
              \A q \in Subqueues(m) : ~Backlogged(Dequeue(m).queue, q)
<1>u. m.m_useqCnt = U /\ Subqueues(m) = 0 .. U - 1
  BY DEF QueueType, Subqueues
<1>t. m.m_dequeueType \in DequeueTypes
  BY DEF QueueType
<1>n. \A q \in Subqueues(m) : q # None
  BY <1>u DEF None
<1>1. CASE m.m_dequeueType = "RR"
  <2>d. Dequeue(m) = DequeueRR(m)
    BY <1>1 DEF Dequeue
  <2> DEFINE Turn(i) == (m.m_deindex + i) % U
             found == {i \in 1 .. U : Backlogged(m, Turn(i))}
             q == Turn(First(found))
  <2>c. m.m_deindex \in 0 .. U - 1
    BY DEF QueueType
  <2>i. ASSUME NEW i \in 0 .. U
        PROVE  Turn(i) = IF m.m_deindex + i < U THEN m.m_deindex + i
                         ELSE m.m_deindex + i - U
    BY <2>c, Circle
  <2>1. CASE found = {}
    <3>1. DequeueRR(m) = [queue |-> m, from |-> None]
      BY <1>u, <2>1 DEF DequeueRR
    <3>2. ASSUME NEW p \in 0 .. U - 1
          PROVE  ~Backlogged(m, p)
      <4> DEFINE i == IF p > m.m_deindex THEN p - m.m_deindex
                      ELSE p - m.m_deindex + U
      <4>1. i \in 1 .. U
        BY <2>c
      <4>2. Turn(i) = p
        <5>1. Turn(i) = IF m.m_deindex + i < U THEN m.m_deindex + i
                         ELSE m.m_deindex + i - U
          <6> HIDE DEF i, Turn
          <6> QED
            BY <2>i, <4>1
        <5> HIDE DEF Turn
        <5> QED
          BY <2>c, <5>1
      <4> HIDE DEF i
      <4> QED
        BY <2>1, <4>1, <4>2
    <3> QED
      BY <1>u, <2>d, <3>1, <3>2
  <2>2. CASE found # {}
    <3>1. DequeueRR(m) = [queue |-> [DequeueFrom(m, q) EXCEPT !.m_deindex = q],
                          from |-> q]
      BY <1>u, <2>2 DEF DequeueRR
    <3>2. First(found) \in found
      <4>1. found \subseteq Nat
        OBVIOUS
      <4> HIDE DEF found
      <4> QED
        BY <2>2, <4>1, FirstIsLeast
    <3>3. q \in 0 .. U - 1 /\ Backlogged(m, q)
      <4>1. First(found) \in 0 .. U
        BY <3>2
      <4>2. Turn(First(found)) \in 0 .. U - 1
        <5> HIDE DEF Turn, found
        <5> QED
          BY <2>c, <2>i, <4>1
      <4> QED
        BY <3>2, <4>2
    <3> HIDE DEF q
    <3> QED
      BY <1>1, <1>u, <1>n, <2>d, <3>1, <3>3, TakeOne
  <2> QED
    BY <2>1, <2>2
<1>2. CASE m.m_dequeueType = "PQ"
  <2>d. Dequeue(m) = DequeuePQ(m)
    BY <1>2 DEF Dequeue
  <2> DEFINE found == {q \in Subqueues(m) : Backlogged(m, q)}
             q == First(found)
  <2>1. CASE found = {}
    <3>1. DequeuePQ(m) = [queue |-> m, from |-> None]
      BY <2>1 DEF DequeuePQ
    <3> QED
      BY <2>1, <2>d, <3>1
  <2>2. CASE found # {}
    <3>1. DequeuePQ(m) = [queue |-> [DequeueFrom(m, q) EXCEPT !.m_deindex = q],
                          from |-> q]
      BY <2>2 DEF DequeuePQ
    <3>2. First(found) \in found
      <4>1. found \subseteq Nat
        BY <1>u
      <4> HIDE DEF found
      <4> QED
        BY <2>2, <4>1, FirstIsLeast
    <3>3. q \in 0 .. U - 1 /\ Backlogged(m, q)
      BY <1>u, <3>2
    <3> HIDE DEF q
    <3> QED
      BY <1>2, <1>u, <1>n, <2>d, <3>1, <3>3, TakeOne
  <2> QED
    BY <2>1, <2>2
<1>3. CASE m.m_dequeueType = "DRR"
  <2>d. Dequeue(m) = DequeueDRR(m)
    BY <1>3 DEF Dequeue
  <2> QED
    BY <1>3, <2>d, RoundTaken DEF InRound
<1>4. CASE m.m_dequeueType = "PQDRR"
  <2>d. Dequeue(m) = DequeuePQDRR(m)
    BY <1>4 DEF Dequeue
  <2> DEFINE urgent == {q \in Subqueues(m) \cap {0, 1} : Backlogged(m, q)}
             q == First(urgent)
  <2>1. CASE urgent = {}
    <3>1. DequeuePQDRR(m) = DequeueDRR(m)
      BY <2>1 DEF DequeuePQDRR
    <3>2. ASSUME DequeueDRR(m).from = None, NEW p \in Subqueues(m)
          PROVE  ~Backlogged(DequeueDRR(m).queue, p)
      <4>1. CASE p >= 2
        BY <1>4, <3>2, <4>1, RoundTaken DEF InRound
      <4>2. CASE p \in {0, 1}
        <5>1. ~Backlogged(m, p)
          BY <2>1, <4>2
        <5> QED
          BY <1>4, <3>2, <5>1, RoundTaken DEF Backlogged
      <4> QED
        BY <1>u, <4>1, <4>2
    <3> QED
      BY <1>4, <2>d, <3>1, <3>2, RoundTaken
  <2>2. CASE urgent # {}
    <3>1. DequeuePQDRR(m) = [queue |-> [DequeueFrom(m, q) EXCEPT !.m_deindex = q],
                             from |-> q]
      BY <2>2 DEF DequeuePQDRR
    <3>2. First(urgent) \in urgent
      <4>1. urgent \subseteq Nat
        BY <1>u
      <4> HIDE DEF urgent
      <4> QED
        BY <2>2, <4>1, FirstIsLeast
    <3>3. q \in 0 .. U - 1 /\ Backlogged(m, q)
      BY <1>u, <3>2
    <3> HIDE DEF q
    <3> QED
      BY <1>4, <1>u, <1>n, <2>d, <3>1, <3>3, TakeOne
  <2> QED
    BY <2>1, <2>2
<1> QED
  BY <1>1, <1>2, <1>3, <1>4, <1>t DEF DequeueTypes

\* Adding a packet keeps the queue sound.
LEMMA AddOne ==
  ASSUME NEW U \in Nat \ {0}, NEW m \in QueueType(U), CreditSound(m),
         NEW q \in 0 .. U - 1, NEW size \in PacketSize
  PROVE  /\ EnqueueTos(m, q, size) \in QueueType(U)
         /\ CreditSound(EnqueueTos(m, q, size))
<1> DEFINE queues == [m.m_queues EXCEPT ![q] = Append(@, size)]
           e == EnqueueTos(m, q, size)
<1>1. queues \in [0 .. U - 1 -> Seq(PacketSize)]
  <2>1. m.m_queues[q] \in Seq(PacketSize)
    BY DEF QueueType
  <2>2. Append(m.m_queues[q], size) \in Seq(PacketSize)
    BY <2>1
  <2> QED
    BY <2>2 DEF QueueType
<1>2. e = [m EXCEPT !.m_queues = queues]
  BY DEF EnqueueTos, QueueType
<1> HIDE DEF queues, e
<1>3. /\ e \in QueueType(U)
      /\ e.m_drr_num = m.m_drr_num
      /\ e.m_useqCnt = m.m_useqCnt
      /\ e.m_dequeueType = m.m_dequeueType
      /\ e.drr_index = m.drr_index
      /\ e.m_deindex = m.m_deindex
  BY <1>1, <1>2 DEF QueueType
<1>4. CreditSound(e)
  BY <1>3 DEF CreditSound, Subqueues, Current, InRound
<1> QED
  BY <1>3, <1>4 DEF e

-------------------------------------------------------------------------------
(* Turns *)

\* How many queues on from the current one queue q's next turn is.
Rank(m, q) ==
  IF q > Current(m) THEN q - Current(m) ELSE q - Current(m) + m.m_useqCnt

\* What a turn gives, in the unit of Share.
Gain(m) == IF m.m_dequeueType = "RR" THEN 1 ELSE m_weight

\* The effect of a dequeue on the credit of the queues that wait for their turn.
Charged(m, d, gain) ==
  \A a \in Subqueues(m) :
    TakesTurns(m, a) /\ Backlogged(m, a) =>
      d.queue.m_drr_num[a] =
        m.m_drr_num[a] + IF a = d.from THEN gain - Share(m, d.from) ELSE 0

\* A dequeue within the turn of the current queue, or by priority.
TurnKept(m, d) ==
  /\ Current(d.queue) = Current(m)
  /\ Charged(m, d, 0)

\* A dequeue that gives the turn to the first queue that waits for it.
TurnTaken(m, d) ==
  /\ Current(d.queue) = d.from
  /\ TakesTurns(m, d.from)
  /\ \A a \in Subqueues(m) :
       TakesTurns(m, a) /\ Backlogged(m, a) /\ a # d.from => Rank(m, d.from) < Rank(m, a)
  /\ Charged(m, d, Gain(m))

\* A dequeue that finds a packet.
Taken(m, d) ==
  /\ d.from \in Subqueues(m) /\ Backlogged(m, d.from)
  /\ \A a \in Subqueues(m) : Backlogged(d.queue, a) => Backlogged(m, a)
  /\ m.m_dequeueType # "PQ" => TurnKept(m, d) \/ TurnTaken(m, d)

\* The look that is a queue's turn.
LEMMA Ranked ==
  ASSUME NEW U \in Nat \ {0}, NEW m \in QueueType(U), NEW q \in 0 .. U - 1
  PROVE  /\ Rank(m, q) \in 1 .. U
         /\ (Current(m) + Rank(m, q)) % U = q
         /\ Place(m, Rank(m, q)) = q
         /\ \A i \in 1 .. U : (Current(m) + i) % U = q => i = Rank(m, q)
<1>1. m.m_useqCnt = U /\ Current(m) \in 0 .. U - 1
  BY DEF QueueType, Current
<1> DEFINE c == Current(m)
<1>2. Rank(m, q) = IF q > c THEN q - c ELSE q - c + U
  BY <1>1 DEF Rank
<1>3. \A i \in 0 .. U : (c + i) % U = IF c + i < U THEN c + i ELSE c + i - U
  BY <1>1, Circle
<1>4. Place(m, Rank(m, q)) = (c + Rank(m, q)) % U
  BY <1>1 DEF Place
<1> HIDE DEF c
<1>5. c \in 0 .. U - 1
  BY <1>1 DEF c
<1>6. Rank(m, q) \in 1 .. U
  BY <1>2, <1>5
<1>7. (c + Rank(m, q)) % U = q
  <2>1. Rank(m, q) \in 0 .. U
    BY <1>6
  <2> QED
    BY <1>2, <1>3, <1>5, <2>1
<1>8. ASSUME NEW i \in 1 .. U, (c + i) % U = q
      PROVE  i = Rank(m, q)
  <2>1. i \in 0 .. U
    OBVIOUS
  <2>2. q = IF c + i < U THEN c + i ELSE c + i - U
    BY <1>3, <1>8, <2>1
  <2> QED
    BY <1>2, <1>5, <2>2
<1> QED
  BY <1>4, <1>6, <1>7, <1>8 DEF c

\* The dequeue loop of DRR serves the current queue within its turn, or takes the
\* next turn.
LEMMA LoopTakes ==
  ASSUME NEW U \in Nat \ {0}, NEW m \in QueueType(U), CreditSound(m),
         m.m_dequeueType \in {"DRR", "PQDRR"}, DequeueDRR(m).from # None
  PROVE  Taken(m, DequeueDRR(m))
<1> DEFINE d == DequeueDRR(m)
           n == First(Serving(m))
           t == Place(m, n)
           cost == Head(m.m_queues[t])
           credits == [q \in 0 .. U - 1 |->
                         IF q = t THEN Credit(m, n) - cost ELSE PassedBefore(m, n, q)]
           queues == [m.m_queues EXCEPT ![t] = Tail(@)]
<1>u. m.m_useqCnt = U /\ Subqueues(m) = 0 .. U - 1
  BY DEF QueueType, Subqueues
<1>1. Serving(m) # {}
  BY DEF DequeueDRR
<1>2. d = [queue |-> RoundServed(m, n), from |-> t]
  BY <1>1 DEF DequeueDRR
<1>3. n \in 0 .. U /\ Serves(m, n) /\ \A i \in 0 .. U : Serves(m, i) => n <= i
  <2>1. Serving(m) \subseteq Nat
    BY <1>u DEF Serving, Looks
  <2>2. n \in Serving(m) /\ \A i \in Serving(m) : n <= i
    BY <1>1, <2>1, FirstIsLeast
  <2> QED
    BY <1>u, <2>2 DEF Serving, Looks
<1>s. \A i \in 0 .. U : Credit(m, i) > 0 /\ InRound(m, Place(m, i)) /\ Backlogged(m, Place(m, i))
                          => n <= i
  BY <1>3 DEF Serves
<1> HIDE DEF n
<1>4. t \in 0 .. U - 1 /\ InRound(m, t) /\ Backlogged(m, t)
  BY <1>3, Looked DEF Serves
<1>5. cost \in PacketSize
  BY <1>4 DEF QueueType, Backlogged
<1>6. ASSUME NEW a \in 0 .. U - 1, InRound(m, a), Backlogged(m, a), a # t
      PROVE  PassedBefore(m, n, a) = m.m_drr_num[a]
  <2> DEFINE looks == {i \in 0 .. n - 1 : Place(m, i) = a}
  <2>1. CASE looks = {}
    BY <2>1 DEF PassedBefore
  <2>2. CASE looks # {}
    <3>1. PassedBefore(m, n, a) = Passed(m, Latest(looks))
      BY <1>6, <2>2 DEF PassedBefore
    <3>2. Latest(looks) \in looks
      <4>1. looks \subseteq 0 .. U /\ U \in Nat
        BY <1>3
      <4> HIDE DEF looks
      <4> QED
        BY <2>2, <4>1, LatestIsMember
    <3> DEFINE i == Latest(looks)
    <3>3. i \in 0 .. U /\ i < n /\ Place(m, i) = a
      BY <1>3, <3>2
    <3> HIDE DEF i, looks
    <3>4. ~ (Credit(m, i) > 0)
      BY <1>3, <1>6, <1>s, <3>3
    <3>5. i = 0
      BY <3>3, <3>4, Looked
    <3>6. Passed(m, i) = Credit(m, i) /\ Credit(m, i) = m.m_drr_num[a]
      BY <3>3, <3>4, <3>5 DEF Passed, Credit
    <3> QED
      BY <3>1, <3>6 DEF i
  <2> QED
    BY <2>1, <2>2
<1>7. Credit(m, n) = m.m_drr_num[t] + IF n = 0 THEN 0 ELSE m_weight
  <2> DEFINE left == m.m_drr_num[t]
  <2>1. left \in Int
    BY <1>4 DEF QueueType
  <2>2. Credit(m, n) = IF n = 0 THEN left
                       ELSE IF n = U /\ left > 0 THEN m_weight ELSE left + m_weight
    BY <1>u DEF Credit
  <2>3. ~ (n = U /\ left > 0)
    <3> SUFFICES ASSUME n = U, left > 0 PROVE FALSE
      OBVIOUS
    <3>1. Place(m, 0) = t
      <4>1. Place(m, 0) = Current(m) /\ t = Current(m)
        BY Looked
      <4> QED
        BY <4>1
    <3>2. Credit(m, 0) = left
      BY <3>1 DEF Credit
    <3>3. n <= 0
      BY <1>4, <1>s, <3>1, <3>2
    <3> QED
      BY <3>3
  <2> HIDE DEF left
  <2>4. Credit(m, n) = left + IF n = 0 THEN 0 ELSE m_weight
    BY <2>1, <2>2, <2>3
  <2> QED
    BY <2>4 DEF left
<1>8. credits \in [0 .. U - 1 -> Int]
  <2>1. \A q \in 0 .. U - 1 : PassedBefore(m, n, q) \in Int
    BY <1>3, PassedOver
  <2>2. Credit(m, n) \in Int
    BY <1>3, Looked
  <2> HIDE DEF cost, t
  <2>3. Credit(m, n) - cost \in Int
    BY <1>5, <2>2, QueueConfiguration
  <2> QED
    BY <2>1, <2>3
<1>9. queues \in [0 .. U - 1 -> Seq(PacketSize)]
  <2>1. m.m_queues[t] \in Seq(PacketSize) /\ m.m_queues[t] # <<>>
    BY <1>4 DEF QueueType, Backlogged
  <2>2. Tail(m.m_queues[t]) \in Seq(PacketSize)
    BY <2>1
  <2> QED
    BY <2>2 DEF QueueType
<1> DEFINE dindex == IF m.m_dequeueType = "PQDRR" THEN t ELSE m.drr_index
<1>10. RoundServed(m, n) =
         [[m EXCEPT !.m_queues = queues] EXCEPT
            !.m_deindex = t, !.drr_index = dindex, !.m_drr_num = credits]
  BY <1>u DEF RoundServed, DequeueFrom, QueueType
<1>11. dindex \in 0 .. U - 1
  BY <1>4 DEF QueueType
<1>c. \A a \in 0 .. U - 1 : credits[a] = IF a = t THEN Credit(m, n) - cost
                                          ELSE PassedBefore(m, n, a)
  OBVIOUS
<1>q. \A a \in 0 .. U - 1 : queues[a] # <<>> => m.m_queues[a] # <<>>
  BY <1>4 DEF QueueType, Backlogged
<1> HIDE DEF credits, queues, dindex
<1>12. /\ d.queue.m_drr_num = credits
       /\ d.queue.m_queues = queues
       /\ d.queue.m_dequeueType = m.m_dequeueType
       /\ d.queue.m_deindex = t
       /\ d.queue.drr_index = dindex
       /\ d.from = t
  <2> HIDE DEF t, d
  <2> QED
    BY <1>2, <1>8, <1>9, <1>10, <1>11 DEF QueueType
<1>13. Current(d.queue) = t
  BY <1>12 DEF Current, dindex
<1>14. Share(m, t) = cost
  BY DEF Share
<1>15. Charged(m, d, IF n = 0 THEN 0 ELSE m_weight)
  <2> SUFFICES ASSUME NEW a \in Subqueues(m), TakesTurns(m, a), Backlogged(m, a)
               PROVE  d.queue.m_drr_num[a] =
                        m.m_drr_num[a] + IF a = d.from
                                         THEN (IF n = 0 THEN 0 ELSE m_weight) - Share(m, d.from)
                                         ELSE 0
    BY DEF Charged
  <2>0. a \in 0 .. U - 1 /\ InRound(m, a) /\ m.m_drr_num[a] \in Int
    BY <1>u DEF TakesTurns, QueueType
  <2>1. CASE a = t
    <3>1. d.queue.m_drr_num[a] = Credit(m, n) - cost
      BY <1>12, <1>c, <2>0, <2>1
    <3> HIDE DEF t, cost, d
    <3>2. cost \in Int
      BY <1>5, QueueConfiguration
    <3> QED
      BY <1>7, <1>12, <1>14, <2>0, <2>1, <3>1, <3>2, QueueConfiguration
  <2>2. CASE a # t
    <3>1. d.queue.m_drr_num[a] = m.m_drr_num[a]
      BY <1>6, <1>12, <1>c, <2>0, <2>2
    <3> HIDE DEF t, d
    <3> QED
      BY <1>12, <2>0, <2>2, <3>1
  <2> QED
    BY <2>1, <2>2
<1>16. \A a \in Subqueues(m) : Backlogged(d.queue, a) => Backlogged(m, a)
  BY <1>12, <1>q, <1>u DEF Backlogged
<1>17. CASE n = 0
  <2>1. t = Current(m)
    BY <1>17, Looked
  <2>2. Charged(m, d, 0)
    BY <1>15, <1>17
  <2> HIDE DEF t, d
  <2> QED
    BY <1>4, <1>12, <1>13, <1>16, <1>u, <2>1, <2>2 DEF Taken, TurnKept, d
<1>18. CASE n # 0
  <2>1. Charged(m, d, Gain(m))
    BY <1>15, <1>18 DEF Gain
  <2>2. Rank(m, t) = n
    <3>1. t = (Current(m) + n) % U /\ n \in 1 .. U
      BY <1>3, <1>18, <1>u DEF Place
    <3> HIDE DEF t
    <3> QED
      BY <1>4, <3>1, Ranked
  <2>3. ASSUME NEW a \in Subqueues(m), TakesTurns(m, a), Backlogged(m, a), a # t
        PROVE  n < Rank(m, a)
    <3>1. Rank(m, a) \in 1 .. U /\ Place(m, Rank(m, a)) = a
      BY <1>u, Ranked
    <3>2. Credit(m, Rank(m, a)) > 0
      BY <3>1, Looked
    <3>3. n <= Rank(m, a)
      BY <1>s, <2>3, <3>1, <3>2 DEF TakesTurns
    <3>4. n # Rank(m, a)
      BY <2>3, <3>1
    <3> QED
      BY <1>3, <3>1, <3>3, <3>4
  <2>4. TakesTurns(m, t)
    BY <1>4 DEF TakesTurns
  <2> HIDE DEF t, d
  <2>5. TurnTaken(m, d)
    BY <1>12, <1>13, <2>1, <2>2, <2>3, <2>4 DEF TurnTaken
  <2> QED
    BY <1>4, <1>12, <1>16, <1>u, <2>5 DEF Taken, d
<1> QED
  BY <1>17, <1>18

\* Every scheduler serves the current queue within its turn, or takes the next turn.
LEMMA Takes ==
  ASSUME NEW U \in Nat \ {0}, NEW m \in QueueType(U), CreditSound(m),
         Dequeue(m).from # None
  PROVE  Taken(m, Dequeue(m))
<1>u. m.m_useqCnt = U /\ Subqueues(m) = 0 .. U - 1
  BY DEF QueueType, Subqueues
<1>t. m.m_dequeueType \in DequeueTypes
  BY DEF QueueType
\* Taking a packet from q, which becomes the last queue served, changes neither
\* credits nor the backlog of other queues.
<1> DEFINE After(q) == [DequeueFrom(m, q) EXCEPT !.m_deindex = q]
<1>a. ASSUME NEW q \in 0 .. U - 1, Backlogged(m, q)
      PROVE  /\ After(q).m_drr_num = m.m_drr_num
             /\ After(q).drr_index = m.drr_index
             /\ After(q).m_deindex = q
             /\ After(q).m_dequeueType = m.m_dequeueType
             /\ \A a \in Subqueues(m) : Backlogged(After(q), a) => Backlogged(m, a)
  <2> DEFINE queues == [m.m_queues EXCEPT ![q] = Tail(@)]
  <2>1. After(q) = [[m EXCEPT !.m_queues = queues] EXCEPT !.m_deindex = q]
    BY DEF DequeueFrom, QueueType
  <2>2. \A a \in 0 .. U - 1 : queues[a] # <<>> => m.m_queues[a] # <<>>
    BY <1>a DEF QueueType, Backlogged
  <2> HIDE DEF queues
  <2>3. After(q).m_queues = queues
    BY <2>1 DEF QueueType
  <2> QED
    BY <1>u, <2>1, <2>2, <2>3 DEF QueueType, Backlogged
<1> HIDE DEF After
<1>1. CASE m.m_dequeueType = "RR"
  <2> DEFINE Turn(i) == (m.m_deindex + i) % U
             found == {i \in 1 .. U : Backlogged(m, Turn(i))}
             n == First(found)
             q == Turn(n)
             d == Dequeue(m)
  <2>1. Dequeue(m) = DequeueRR(m)
    BY <1>1 DEF Dequeue
  <2>2. found # {}
    <3> SUFFICES ASSUME found = {} PROVE FALSE
      OBVIOUS
    <3>1. DequeueRR(m).from = None
      BY <1>u DEF DequeueRR
    <3> QED
      BY <2>1, <3>1
  <2>3. d = [queue |-> After(q), from |-> q]
    BY <1>u, <2>1, <2>2 DEF DequeueRR, After
  <2>4. n \in found /\ \A i \in found : n <= i
    <3>1. found \subseteq Nat
      OBVIOUS
    <3> HIDE DEF found
    <3> QED
      BY <2>2, <3>1, FirstIsLeast
  <2>5. n \in 1 .. U /\ Backlogged(m, q)
    BY <2>4
  <2>6. Current(m) = m.m_deindex /\ m.m_deindex \in 0 .. U - 1
    BY <1>1 DEF Current, QueueType
  <2>7. q \in 0 .. U - 1
    <3>1. n \in 0 .. U
      BY <2>5
    <3>2. q = IF m.m_deindex + n < U THEN m.m_deindex + n ELSE m.m_deindex + n - U
      <4> HIDE DEF n
      <4> QED
        BY <2>6, <3>1, Circle
    <3> HIDE DEF q, n
    <3> QED
      BY <2>6, <3>1, <3>2
  <2>8. Rank(m, q) = n
    <3>1. (Current(m) + n) % U = q
      BY <2>6
    <3> HIDE DEF q, n
    <3> QED
      BY <2>5, <2>7, <3>1, Ranked
  <2>9. ASSUME NEW a \in Subqueues(m), Backlogged(m, a), a # q
        PROVE  n < Rank(m, a)
    <3>1. Rank(m, a) \in 1 .. U /\ (Current(m) + Rank(m, a)) % U = a
      BY <1>u, Ranked
    <3>2. Rank(m, a) \in found
      BY <2>6, <2>9, <3>1
    <3>3. n <= Rank(m, a) /\ n # Rank(m, a)
      BY <2>4, <2>6, <2>9, <3>1, <3>2
    <3> HIDE DEF n, found, q
    <3> QED
      BY <2>5, <3>1, <3>3
  <2> HIDE DEF n, found, q
  <2>10. /\ d.from = q
         /\ d.queue = After(q)
    BY <2>3
  <2> HIDE DEF d
  <2>11. Charged(m, d, Gain(m))
    <3>1. Gain(m) - Share(m, q) = 0
      BY <1>1 DEF Gain, Share
    <3>2. \A a \in Subqueues(m) : m.m_drr_num[a] \in Int
      BY <1>u DEF QueueType
    <3>3. \A a \in Subqueues(m) : d.queue.m_drr_num[a] = m.m_drr_num[a]
      BY <1>a, <2>5, <2>7, <2>10
    <3>4. \A a \in Subqueues(m) : m.m_drr_num[a] + 0 = m.m_drr_num[a]
      BY <3>2
    <3> QED
      BY <2>10, <3>1, <3>3, <3>4 DEF Charged
  <2>12. Current(d.queue) = q
    BY <1>1, <1>a, <2>5, <2>7, <2>10 DEF Current
  <2>13. TakesTurns(m, q)
    BY <1>1 DEF TakesTurns, InRound
  <2>14. TurnTaken(m, d)
    BY <2>8, <2>9, <2>10, <2>11, <2>12, <2>13 DEF TurnTaken
  <2> QED
    BY <1>a, <1>u, <2>5, <2>7, <2>10, <2>14 DEF Taken, d
<1>2. CASE m.m_dequeueType = "PQ"
  <2> DEFINE found == {q \in Subqueues(m) : Backlogged(m, q)}
             q == First(found)
             d == Dequeue(m)
  <2>1. Dequeue(m) = DequeuePQ(m)
    BY <1>2 DEF Dequeue
  <2>2. found # {}
    BY <2>1 DEF DequeuePQ
  <2>3. d = [queue |-> After(q), from |-> q]
    BY <2>1, <2>2 DEF DequeuePQ, After
  <2>4. q \in found
    <3>1. found \subseteq Nat
      BY <1>u
    <3> HIDE DEF found
    <3> QED
      BY <2>2, <3>1, FirstIsLeast
  <2>5. q \in 0 .. U - 1 /\ Backlogged(m, q)
    BY <1>u, <2>4
  <2> HIDE DEF q, found
  <2>6. d.from = q /\ d.queue = After(q)
    BY <2>3
  <2> HIDE DEF d
  <2> QED
    BY <1>2, <1>a, <1>u, <2>5, <2>6 DEF Taken, d
<1>3. CASE m.m_dequeueType = "DRR"
  <2>1. Dequeue(m) = DequeueDRR(m)
    BY <1>3 DEF Dequeue
  <2> QED
    BY <1>3, <2>1, LoopTakes
<1>4. CASE m.m_dequeueType = "PQDRR"
  <2> DEFINE urgent == {q \in Subqueues(m) \cap {0, 1} : Backlogged(m, q)}
             q == First(urgent)
             d == Dequeue(m)
  <2>1. Dequeue(m) = DequeuePQDRR(m)
    BY <1>4 DEF Dequeue
  <2>2. CASE urgent = {}
    <3>1. Dequeue(m) = DequeueDRR(m)
      BY <2>1, <2>2 DEF DequeuePQDRR
    <3> QED
      BY <1>4, <3>1, LoopTakes
  <2>3. CASE urgent # {}
    <3>1. d = [queue |-> After(q), from |-> q]
      BY <2>1, <2>3 DEF DequeuePQDRR, After
    <3>2. q \in urgent
      <4>1. urgent \subseteq Nat
        BY <1>u
      <4> HIDE DEF urgent
      <4> QED
        BY <2>3, <4>1, FirstIsLeast
    <3>3. q \in 0 .. U - 1 /\ Backlogged(m, q) /\ q \in {0, 1}
      BY <1>u, <3>2
    <3> HIDE DEF q, urgent
    <3>4. d.from = q /\ d.queue = After(q)
      BY <3>1
    <3> HIDE DEF d
    <3>5. Charged(m, d, 0)
      <4> SUFFICES ASSUME NEW a \in Subqueues(m), TakesTurns(m, a)
                   PROVE  d.queue.m_drr_num[a] = m.m_drr_num[a] + 0 /\ a # q
        BY <3>4 DEF Charged
      <4>1. a # q
        BY <1>4, <3>3 DEF TakesTurns, InRound
      <4>2. d.queue.m_drr_num = m.m_drr_num
        BY <1>a, <3>3, <3>4
      <4>3. m.m_drr_num[a] \in Int
        BY <1>u DEF QueueType
      <4> QED
        BY <4>1, <4>2, <4>3
    <3>6. Current(d.queue) = Current(m)
      BY <1>4, <1>a, <3>3, <3>4 DEF Current
    <3>7. TurnKept(m, d)
      BY <3>5, <3>6 DEF TurnKept
    <3> QED
      BY <1>a, <1>u, <3>3, <3>4, <3>7 DEF Taken, d
  <2> QED
    BY <2>2, <2>3
<1> QED
  BY <1>1, <1>2, <1>3, <1>4, <1>t DEF DequeueTypes

\* A dequeue does not change the dequeue type.
LEMMA SameType ==
  ASSUME NEW U \in Nat \ {0}, NEW m \in QueueType(U), CreditSound(m)
  PROVE  Dequeue(m).queue.m_dequeueType = m.m_dequeueType
<1> DEFINE After(q) == [DequeueFrom(m, q) EXCEPT !.m_deindex = q]
<1>t. m.m_dequeueType \in DequeueTypes
  BY DEF QueueType
<1>a. \A q : After(q).m_dequeueType = m.m_dequeueType
  BY DEF DequeueFrom, QueueType
<1>1. CASE m.m_dequeueType = "RR"
  <2>1. Dequeue(m) = DequeueRR(m)
    BY <1>1 DEF Dequeue
  <2>2. DequeueRR(m).queue = m \/ \E q : DequeueRR(m).queue = After(q)
    BY DEF DequeueRR
  <2> HIDE DEF After
  <2> QED
    BY <1>a, <2>1, <2>2
<1>2. CASE m.m_dequeueType = "PQ"
  <2>1. Dequeue(m) = DequeuePQ(m)
    BY <1>2 DEF Dequeue
  <2>2. DequeuePQ(m).queue = m \/ \E q : DequeuePQ(m).queue = After(q)
    BY DEF DequeuePQ
  <2> HIDE DEF After
  <2> QED
    BY <1>a, <2>1, <2>2
<1>3. CASE m.m_dequeueType = "DRR"
  <2>1. Dequeue(m) = DequeueDRR(m)
    BY <1>3 DEF Dequeue
  <2> QED
    BY <1>3, <2>1, RoundTaken
<1>4. CASE m.m_dequeueType = "PQDRR"
  <2>1. Dequeue(m) = DequeuePQDRR(m)
    BY <1>4 DEF Dequeue
  <2>2. DequeuePQDRR(m) = DequeueDRR(m) \/ \E q : DequeuePQDRR(m).queue = After(q)
    BY DEF DequeuePQDRR
  <2> HIDE DEF After
  <2> QED
    BY <1>4, <1>a, <2>1, <2>2, RoundTaken
<1> QED
  BY <1>1, <1>2, <1>3, <1>4, <1>t DEF DequeueTypes

-------------------------------------------------------------------------------
(* The lead of one queue over another *)

\* What a packet may take beyond its turn, in the unit of Share.
Slack(m) == IF m.m_dequeueType = "RR" THEN 0 ELSE MaxSize - 1

\* What queue p[1] got and may still take, less the same of p[2], is no more
\* than one packet's excess and, when p[2] has the next turn, one turn.
Ahead(m, p, l) ==
  l + m.m_drr_num[p[1]] - m.m_drr_num[p[2]]
    <= Slack(m) + IF Rank(m, p[2]) < Rank(m, p[1]) THEN Gain(m) ELSE 0

\* The leads, counted while both queues of a pair have packets waiting.
LeadSound(m, leads) ==
  /\ leads \in [Pairs(m) -> Int]
  /\ \A p \in Pairs(m) :
       /\ ~Backlogged(m, p[1]) \/ ~Backlogged(m, p[2]) => leads[p] = 0
       /\ Ahead(m, p, leads[p])

\* MaxSize is the size of a packet, and of no smaller one than any.
LEMMA MaxSizeIsLargest ==
  MaxSize \in PacketSize /\ MaxSize \in Nat \ {0} /\ \A size \in PacketSize : size <= MaxSize
<1>1. PacketSize \subseteq 0 .. m_weight /\ m_weight \in Nat /\ PacketSize # {}
  BY QueueConfiguration
<1>2. Latest(PacketSize) \in PacketSize /\ \A size \in PacketSize : size <= Latest(PacketSize)
  BY <1>1, LatestIsMember
<1>3. MaxSize = Latest(PacketSize)
  BY DEF MaxSize, Latest
<1> QED
  BY <1>2, <1>3, QueueConfiguration

\* The queues of a pair, their credit and their turns.
LEMMA PairFacts ==
  ASSUME NEW U \in Nat \ {0}, NEW m \in QueueType(U), CreditSound(m), NEW p \in Pairs(m)
  PROVE  /\ p = <<p[1], p[2]>> /\ <<p[2], p[1]>> \in Pairs(m)
         /\ \A i \in {1, 2} :
              /\ p[i] \in 0 .. U - 1 /\ p[i] \in Subqueues(m)
              /\ TakesTurns(m, p[i]) /\ InRound(m, p[i])
              /\ Rank(m, p[i]) \in 1 .. U
              /\ m.m_drr_num[p[i]] \in Int
              /\ m.m_drr_num[p[i]] <= m_weight
              /\ m.m_drr_num[p[i]] >= 1 - MaxSize
              /\ m.m_dequeueType = "RR" => m.m_drr_num[p[i]] = 0
              /\ Rank(m, p[i]) < U => m.m_drr_num[p[i]] <= 0
         /\ Rank(m, p[1]) # Rank(m, p[2])
<1>u. m.m_useqCnt = U /\ Subqueues(m) = 0 .. U - 1
  BY DEF QueueType, Subqueues
<1>1. /\ p = <<p[1], p[2]>> /\ <<p[2], p[1]>> \in Pairs(m)
      /\ p[1] # p[2]
      /\ \A i \in {1, 2} : p[i] \in Subqueues(m) /\ TakesTurns(m, p[i])
  BY DEF Pairs
<1>2. ASSUME NEW q \in 0 .. U - 1
      PROVE  /\ Rank(m, q) \in 1 .. U /\ Place(m, Rank(m, q)) = q
             /\ m.m_drr_num[q] \in Int
             /\ m.m_drr_num[q] <= m_weight
             /\ m.m_drr_num[q] >= 1 - MaxSize
             /\ m.m_dequeueType = "RR" => m.m_drr_num[q] = 0
             /\ Rank(m, q) < U => m.m_drr_num[q] <= 0
  <2>1. Rank(m, q) \in 1 .. U /\ Place(m, Rank(m, q)) = q
    BY Ranked
  <2> DEFINE credit == m.m_drr_num[q]
  <2>2. /\ credit \in Int
        /\ Payable(credit)
        /\ m.m_dequeueType \in {"RR", "PQ"} => credit = 0
        /\ credit > 0 => q = Current(m)
    BY <1>u DEF CreditSound, QueueType
  <2>3. q = Current(m) => Rank(m, q) = U
    BY <1>u DEF Rank, QueueType, Current
  <2> HIDE DEF credit
  <2>4. credit <= m_weight /\ credit >= 1 - MaxSize
    <3>1. PICK size \in PacketSize \cup {1} : credit > -size
      BY <2>2 DEF Payable
    <3>2. size <= MaxSize /\ size \in Nat /\ MaxSize \in Nat
      BY <3>1, MaxSizeIsLargest, QueueConfiguration
    <3> QED
      BY <2>2, <3>1, <3>2 DEF Payable
  <2>5. Rank(m, q) < U => credit <= 0
    BY <2>1, <2>2, <2>3
  <2> QED
    BY <2>1, <2>2, <2>4, <2>5 DEF credit
<1>3. Rank(m, p[1]) # Rank(m, p[2])
  BY <1>1, <1>2, <1>u
<1>4. \A i \in {1, 2} : InRound(m, p[i])
  BY <1>1 DEF TakesTurns
<1> QED
  BY <1>1, <1>2, <1>3, <1>4, <1>u

\* Two queues start to wait with a lead that their credits allow.
LEMMA LeadStarts ==
  ASSUME NEW U \in Nat \ {0}, NEW m \in QueueType(U), CreditSound(m), NEW p \in Pairs(m)
  PROVE  Ahead(m, p, 0)
<1> DEFINE a == m.m_drr_num[p[1]]
           b == m.m_drr_num[p[2]]
           ra == Rank(m, p[1])
           rb == Rank(m, p[2])
<1>1. /\ a \in Int /\ a <= m_weight /\ b \in Int /\ b >= 1 - MaxSize
      /\ m.m_dequeueType = "RR" => a = 0 /\ b = 0
      /\ ra \in 1 .. U /\ rb \in 1 .. U /\ ra # rb
      /\ ra < U => a <= 0
  BY PairFacts
<1>2. Ahead(m, p, 0) <=> 0 + a - b <= Slack(m) + IF rb < ra THEN Gain(m) ELSE 0
  BY DEF Ahead
<1> HIDE DEF a, b, ra, rb
<1>3. 0 + a - b <= Slack(m) + IF rb < ra THEN Gain(m) ELSE 0
  BY <1>1, MaxSizeIsLargest, QueueConfiguration DEF Slack, Gain
<1> QED
  BY <1>2, <1>3

\* A step of a queue that is neither a service nor a change of turn.
SameTurns(m, e) ==
  /\ e.m_dequeueType = m.m_dequeueType
  /\ e.m_useqCnt = m.m_useqCnt
  /\ e.m_deindex = m.m_deindex
  /\ e.drr_index = m.drr_index
  /\ e.m_drr_num = m.m_drr_num

\* Such a step changes neither the pairs nor what their lead is bounded by.
LEMMA LeadUnmoved ==
  ASSUME NEW m, NEW e, SameTurns(m, e)
  PROVE  /\ Pairs(e) = Pairs(m)
         /\ \A p, l : Ahead(e, p, l) <=> Ahead(m, p, l)
<1>1. /\ Subqueues(e) = Subqueues(m)
      /\ \A q : TakesTurns(e, q) <=> TakesTurns(m, q)
      /\ \A q : Rank(e, q) = Rank(m, q)
      /\ Slack(e) = Slack(m) /\ Gain(e) = Gain(m)
  BY DEF SameTurns, Subqueues, TakesTurns, InRound, Rank, Current, Slack, Gain
<1>2. e.m_drr_num = m.m_drr_num
  BY DEF SameTurns
<1>3. Pairs(e) = Pairs(m)
  BY <1>1 DEF Pairs
<1>4. \A p, l : Ahead(e, p, l) <=> Ahead(m, p, l)
  BY <1>1, <1>2 DEF Ahead
<1> QED
  BY <1>3, <1>4

\* An arrival keeps the leads sound.
LEMMA LeadAdd ==
  ASSUME NEW U \in Nat \ {0}, NEW m \in QueueType(U), NEW leads, LeadSound(m, leads),
         NEW q \in 0 .. U - 1, NEW size \in PacketSize
  PROVE  LeadSound(EnqueueTos(m, q, size), leads)
<1> DEFINE e == EnqueueTos(m, q, size)
           queues == [m.m_queues EXCEPT ![q] = Append(@, size)]
<1>1. e = [m EXCEPT !.m_queues = queues]
  BY DEF EnqueueTos, QueueType
<1>2. ASSUME NEW a \in 0 .. U - 1, m.m_queues[a] # <<>>
      PROVE  queues[a] # <<>>
  <2>1. CASE a # q
    BY <1>2, <2>1 DEF QueueType
  <2>2. CASE a = q
    <3>1. m.m_queues[q] \in Seq(PacketSize) /\ queues[a] = Append(m.m_queues[q], size)
      BY <2>2 DEF QueueType
    <3>2. Append(m.m_queues[q], size) # <<>>
      <4> DEFINE x == m.m_queues[q]
      <4>1. x \in Seq(PacketSize)
        BY <3>1
      <4> HIDE DEF x
      <4>2. Append(x, size) # <<>>
        BY <4>1
      <4> QED
        BY <4>2 DEF x
    <3> QED
      BY <3>1, <3>2
  <2> QED
    BY <2>1, <2>2
<1> HIDE DEF queues, e
<1>3. SameTurns(m, e) /\ e.m_queues = queues /\ m.m_useqCnt = U
  BY <1>1 DEF SameTurns, QueueType
<1>4. Pairs(e) = Pairs(m) /\ \A p, l : Ahead(e, p, l) <=> Ahead(m, p, l)
  BY <1>3, LeadUnmoved
<1>5. \A p \in Pairs(m) : p[1] \in 0 .. U - 1 /\ p[2] \in 0 .. U - 1
  BY <1>3 DEF Pairs, Subqueues
<1>6. ASSUME NEW p \in Pairs(m), ~Backlogged(e, p[1]) \/ ~Backlogged(e, p[2])
      PROVE  leads[p] = 0
  <2>1. ~Backlogged(m, p[1]) \/ ~Backlogged(m, p[2])
    BY <1>2, <1>3, <1>5, <1>6 DEF Backlogged
  <2> QED
    BY <2>1 DEF LeadSound
<1>7. leads \in [Pairs(e) -> Int] /\ \A p \in Pairs(e) : Ahead(e, p, leads[p])
  BY <1>4 DEF LeadSound
<1> QED
  BY <1>4, <1>6, <1>7 DEF LeadSound, e

\* A packet dropped from the head keeps them sound: it is no service.
LEMMA LeadDrop ==
  ASSUME NEW U \in Nat \ {0}, NEW m \in QueueType(U), CreditSound(m), LeadSound(m, lead),
         NEW q \in 0 .. U - 1, Backlogged(m, q)
  PROVE  LeadSound(DequeueFrom(m, q), Recorded(m, DequeueFrom(m, q), None))
<1> DEFINE e == DequeueFrom(m, q)
           queues == [m.m_queues EXCEPT ![q] = Tail(@)]
<1>1. e = [m EXCEPT !.m_queues = queues]
  BY DEF DequeueFrom, QueueType
<1>2. e \in QueueType(U) /\ CreditSound(e)
  BY TakeOne
<1> HIDE DEF queues, e
<1>3. SameTurns(m, e) /\ m.m_useqCnt = U
  BY <1>1 DEF SameTurns, QueueType
<1>4. Pairs(e) = Pairs(m) /\ \A p, l : Ahead(e, p, l) <=> Ahead(m, p, l)
  BY <1>3, LeadUnmoved
<1> DEFINE leads == Recorded(m, e, None)
<1>5. ASSUME NEW p \in Pairs(m)
      PROVE  leads[p] = IF ~Backlogged(e, p[1]) \/ ~Backlogged(e, p[2]) THEN 0 ELSE lead[p]
  <2>1. p[1] # None /\ p[2] # None
    BY <1>3 DEF Pairs, Subqueues, None
  <2> QED
    BY <2>1 DEF Recorded
<1>6. leads = [p \in Pairs(m) |-> leads[p]]
  BY DEF Recorded
<1> HIDE DEF leads
<1>7. \A p \in Pairs(m) : lead[p] \in Int /\ Ahead(m, p, lead[p])
  BY DEF LeadSound
<1>8. \A p \in Pairs(m) : leads[p] \in Int
  BY <1>5, <1>7
<1>9. \A p \in Pairs(m) : Ahead(e, p, leads[p])
  BY <1>2, <1>4, <1>5, <1>7, LeadStarts
<1>10. leads \in [Pairs(m) -> Int]
  BY <1>6, <1>8
<1>11. LeadSound(e, leads)
  BY <1>4, <1>5, <1>9, <1>10 DEF LeadSound
<1> QED
  BY <1>11 DEF leads, e

\* The turns that are still to come keep their order when a queue takes its turn.
LEMMA RankMoves ==
  ASSUME NEW U \in Nat \ {0}, NEW m \in QueueType(U), NEW e \in QueueType(U),
         Current(e) \in 0 .. U - 1,
         NEW a \in 0 .. U - 1
  PROVE  /\ a = Current(e) => Rank(e, a) = U
         /\ a # Current(e) /\ Rank(m, Current(e)) < Rank(m, a) =>
              /\ Rank(e, a) < U
              /\ Rank(e, a) = Rank(m, a) - Rank(m, Current(e))
<1>1. m.m_useqCnt = U /\ e.m_useqCnt = U /\ Current(m) \in 0 .. U - 1
  BY DEF QueueType, Current
<1> DEFINE c == Current(m)
           t == Current(e)
<1>2. /\ Rank(m, a) = IF a > c THEN a - c ELSE a - c + U
      /\ Rank(m, t) = IF t > c THEN t - c ELSE t - c + U
      /\ Rank(e, a) = IF a > t THEN a - t ELSE a - t + U
  BY <1>1 DEF Rank
<1>3. c \in 0 .. U - 1 /\ t \in 0 .. U - 1
  BY <1>1
<1> HIDE DEF c, t
<1>4. a = t => Rank(e, a) = U
  BY <1>2, <1>3
<1>5. a # t /\ Rank(m, t) < Rank(m, a) =>
        Rank(e, a) < U /\ Rank(e, a) = Rank(m, a) - Rank(m, t)
  BY <1>2, <1>3
<1> QED
  BY <1>4, <1>5 DEF t

\* The packet at the head of a queue is a share.
LEMMA ShareType ==
  ASSUME NEW U \in Nat \ {0}, NEW m \in QueueType(U),
         NEW q \in 0 .. U - 1, Backlogged(m, q)
  PROVE  Share(m, q) \in Int
<1>1. m.m_queues[q] \in Seq(PacketSize) /\ m.m_queues[q] # <<>>
  BY DEF QueueType, Backlogged
<1> DEFINE size == Head(m.m_queues[q])
<1>2. size \in PacketSize
  BY <1>1
<1>3. Share(m, q) = IF m.m_dequeueType = "RR" THEN 1 ELSE size
  BY DEF Share
<1> HIDE DEF size
<1>4. size \in Int
  BY <1>2, QueueConfiguration
<1> QED
  BY <1>3, <1>4

\* A service, in its turn or in the next, keeps the lead of a pair that waits on
\* within its bound.
LEMMA LeadServed ==
  ASSUME NEW U \in Nat \ {0}, NEW m \in QueueType(U), CreditSound(m),
         NEW d, d.queue \in QueueType(U), d.queue.m_dequeueType = m.m_dequeueType,
         Taken(m, d),
         NEW p \in Pairs(m), NEW l \in Int, Ahead(m, p, l),
         Backlogged(m, p[1]), Backlogged(m, p[2])
  PROVE  Ahead(d.queue, p, IF p[1] = d.from THEN l + Share(m, d.from)
                           ELSE IF p[2] = d.from THEN l - Share(m, d.from)
                           ELSE l)
<1> DEFINE e == d.queue
           q == d.from
           x == p[1]
           y == p[2]
<1>u. m.m_useqCnt = U /\ Subqueues(m) = 0 .. U - 1 /\ e.m_useqCnt = U
  BY DEF QueueType, Subqueues
<1>1. /\ x \in 0 .. U - 1 /\ y \in 0 .. U - 1 /\ x # y
      /\ TakesTurns(m, x) /\ TakesTurns(m, y)
      /\ m.m_drr_num[x] \in Int /\ m.m_drr_num[y] \in Int
      /\ Rank(m, x) \in 1 .. U /\ Rank(m, y) \in 1 .. U
  BY PairFacts DEF Pairs
<1>2. m.m_dequeueType # "PQ" /\ q \in 0 .. U - 1 /\ Backlogged(m, q)
  BY <1>1, <1>u DEF TakesTurns, Taken
<1>3. Slack(e) = Slack(m) /\ Gain(e) = Gain(m)
  BY DEF Slack, Gain
<1>4. Share(m, q) \in Int /\ Gain(m) \in Nat
  BY <1>2, ShareType, QueueConfiguration DEF Gain
<1>5. Slack(m) \in Int
  BY MaxSizeIsLargest DEF Slack
<1> DEFINE new == IF x = q THEN l + Share(m, q) ELSE IF y = q THEN l - Share(m, q) ELSE l
           before == IF Rank(m, y) < Rank(m, x) THEN Gain(m) ELSE 0
           after == IF Rank(e, y) < Rank(e, x) THEN Gain(m) ELSE 0
<1>6. l + m.m_drr_num[x] - m.m_drr_num[y] <= Slack(m) + before
  BY DEF Ahead
<1>7. Ahead(e, p, new) <=> new + e.m_drr_num[x] - e.m_drr_num[y] <= Slack(m) + after
  BY <1>3 DEF Ahead
<1>8. ASSUME TurnKept(m, d)
      PROVE  new + e.m_drr_num[x] - e.m_drr_num[y] <= Slack(m) + after
  <2>1. after = before
    BY <1>8, <1>u DEF TurnKept, Rank
  <2>2. \A a \in {x, y} : e.m_drr_num[a] = m.m_drr_num[a] + IF a = q THEN 0 - Share(m, q) ELSE 0
    BY <1>1, <1>8, <1>u DEF TurnKept, Charged
  <2> DEFINE credits == m.m_drr_num
             left == e.m_drr_num
             share == Share(m, q)
  <2>3. /\ left[x] = credits[x] + IF x = q THEN 0 - share ELSE 0
        /\ left[y] = credits[y] + IF y = q THEN 0 - share ELSE 0
    BY <2>2
  <2>4. new + left[x] - left[y] = l + credits[x] - credits[y]
    <3>1. credits[x] \in Int /\ credits[y] \in Int /\ share \in Int
      BY <1>1, <1>4
    <3>2. new = IF x = q THEN l + share ELSE IF y = q THEN l - share ELSE l
      OBVIOUS
    <3> HIDE DEF credits, left, share, x, y, q, new
    <3> QED
      BY <1>1, <2>3, <3>1, <3>2
  <2> QED
    BY <1>6, <2>1, <2>4
<1>9. ASSUME TurnTaken(m, d)
      PROVE  new + e.m_drr_num[x] - e.m_drr_num[y] <= Slack(m) + after
  <2> DEFINE credits == m.m_drr_num
             left == e.m_drr_num
             share == Share(m, q)
             gain == Gain(m)
  <2>1. /\ left[x] = credits[x] + IF x = q THEN gain - share ELSE 0
        /\ left[y] = credits[y] + IF y = q THEN gain - share ELSE 0
    BY <1>1, <1>9, <1>u DEF TurnTaken, Charged
  <2>2. Current(e) = q
    BY <1>9 DEF TurnTaken
  <2>3. \A a \in {x, y} : a # q => Rank(m, q) < Rank(m, a)
    BY <1>1, <1>9, <1>u DEF TurnTaken
  <2>4. \A a \in {x, y} : IF a = q THEN Rank(e, a) = U
                          ELSE Rank(e, a) < U /\ Rank(e, a) = Rank(m, a) - Rank(m, q)
    BY <1>1, <1>2, <2>2, <2>3, RankMoves
  <2>5. Rank(m, q) \in 1 .. U
    BY <1>2, Ranked
  <2>6. credits[x] \in Int /\ credits[y] \in Int /\ share \in Int /\ gain \in Nat
    BY <1>1, <1>4
  <2>7. new = IF x = q THEN l + share ELSE IF y = q THEN l - share ELSE l
    OBVIOUS
  <2>8. new + left[x] - left[y] =
          l + credits[x] - credits[y] + IF x = q THEN gain ELSE IF y = q THEN 0 - gain ELSE 0
    <3> DEFINE cx == credits[x]
               cy == credits[y]
               lx == left[x]
               ly == left[y]
    <3>1. /\ lx = cx + IF x = q THEN gain - share ELSE 0
          /\ ly = cy + IF y = q THEN gain - share ELSE 0
      BY <2>1
    <3>2. cx \in Int /\ cy \in Int /\ share \in Int /\ gain \in Int
      BY <2>6
    <3> HIDE DEF cx, cy, lx, ly, share, gain, x, y, q, new
    <3>3. new + lx - ly = l + cx - cy + IF x = q THEN gain ELSE IF y = q THEN 0 - gain ELSE 0
      BY <1>1, <2>7, <3>1, <3>2
    <3> QED
      BY <3>3 DEF cx, cy, lx, ly
  <2> DEFINE rx == Rank(m, x)
             ry == Rank(m, y)
             rq == Rank(m, q)
             sx == Rank(e, x)
             sy == Rank(e, y)
  <2>9. /\ x = q => rx = rq /\ rx < ry /\ sx = U /\ sy < U
        /\ y = q => ry = rq /\ ry < rx /\ sy = U /\ sx < U
        /\ x # q /\ y # q => sx = rx - rq /\ sy = ry - rq
    BY <1>1, <2>3, <2>4
  <2>10. /\ before = IF ry < rx THEN gain ELSE 0
         /\ after = IF sy < sx THEN gain ELSE 0
    OBVIOUS
  <2>11. rx \in 1 .. U /\ ry \in 1 .. U /\ rq \in 1 .. U
    BY <1>1, <2>5
  <2>12. /\ x = q => before = 0 /\ after = gain
         /\ y = q => before = gain /\ after = 0
         /\ x # q /\ y # q => after = before
    <3>1. CASE x = q
      <4>1. rx < ry /\ sx = U /\ sy < U /\ y # q
        BY <1>1, <2>9, <3>1
      <4>2. before = 0
        <5> HIDE DEF rx, ry, before
        <5> QED
          BY <2>10, <2>11, <4>1
      <4>3. after = gain
        <5> HIDE DEF sx, sy, after
        <5> QED
          BY <2>10, <4>1
      <4> QED
        BY <3>1, <4>1, <4>2, <4>3
    <3>2. CASE y = q
      <4>1. ry < rx /\ sy = U /\ sx < U /\ x # q
        BY <1>1, <2>9, <3>2
      <4>2. before = gain
        <5> HIDE DEF rx, ry, before
        <5> QED
          BY <2>10, <2>11, <4>1
      <4>3. after = 0
        <5>1. sx \in Int
          <6>1. sx = rx - rq
            BY <2>4, <4>1
          <6> HIDE DEF rx, rq, sx
          <6> QED
            BY <2>11, <6>1
        <5> HIDE DEF sx, sy, after
        <5> QED
          BY <2>10, <4>1, <5>1
      <4> QED
        BY <3>2, <4>1, <4>2, <4>3
    <3>3. CASE x # q /\ y # q
      <4>1. sx = rx - rq /\ sy = ry - rq
        BY <2>9, <3>3
      <4>2. after = before
        <5> HIDE DEF rx, ry, rq, sx, sy, before, after
        <5> QED
          BY <2>10, <2>11, <4>1
      <4> QED
        BY <3>3, <4>2
    <3> QED
      BY <3>1, <3>2, <3>3
  <2> DEFINE V == l + credits[x] - credits[y]
             W == new + left[x] - left[y]
  <2>13. V \in Int /\ V <= Slack(m) + before
    BY <1>6, <2>6
  <2>14. W = V + IF x = q THEN gain ELSE IF y = q THEN 0 - gain ELSE 0
    BY <2>8
  <2> HIDE DEF V, W, before, after, gain, x, y, q
  <2>15. W <= Slack(m) + after
    BY <1>1, <1>5, <2>6, <2>12, <2>13, <2>14
  <2> QED
    BY <2>15 DEF W
<1>10. TurnKept(m, d) \/ TurnTaken(m, d)
  BY <1>2 DEF Taken
<1> QED
  BY <1>7, <1>8, <1>9, <1>10

\* A dequeue keeps the leads sound.
LEMMA LeadDequeue ==
  ASSUME NEW U \in Nat \ {0}, NEW m \in QueueType(U), CreditSound(m), LeadSound(m, lead)
  PROVE  LeadSound(Dequeue(m).queue, Recorded(m, Dequeue(m).queue, Dequeue(m).from))
<1> DEFINE d == Dequeue(m)
           e == d.queue
           q == d.from
           leads == Recorded(m, e, q)
<1>u. m.m_useqCnt = U /\ Subqueues(m) = 0 .. U - 1
  BY DEF QueueType, Subqueues
<1>1. /\ e \in QueueType(U)
      /\ CreditSound(e)
      /\ q \in Subqueues(m) \cup {None}
      /\ q = None => \A a \in Subqueues(m) : ~Backlogged(e, a)
      /\ e.m_dequeueType = m.m_dequeueType
  BY Dequeued, SameType
<1>2. Pairs(e) = Pairs(m)
  <2>1. Subqueues(e) = Subqueues(m) /\ \A a : TakesTurns(e, a) <=> TakesTurns(m, a)
    BY <1>1, <1>u DEF QueueType, Subqueues, TakesTurns, InRound
  <2> QED
    BY <2>1 DEF Pairs
<1>3. q # None => Taken(m, d) /\ Backlogged(m, q)
  BY Takes DEF Taken
<1> HIDE DEF d
<1>4. ASSUME NEW p \in Pairs(m)
      PROVE  leads[p] = IF ~Backlogged(e, p[1]) \/ ~Backlogged(e, p[2]) THEN 0
                        ELSE IF p[1] = q THEN lead[p] + Share(m, q)
                        ELSE IF p[2] = q THEN lead[p] - Share(m, q)
                        ELSE lead[p]
  BY DEF Recorded
<1>5. leads = [p \in Pairs(m) |-> leads[p]]
  BY DEF Recorded
<1> HIDE DEF leads
<1>6. ASSUME NEW p \in Pairs(m)
      PROVE  leads[p] \in Int /\ Ahead(e, p, leads[p])
  <2>0. p[1] \in Subqueues(m) /\ p[2] \in Subqueues(m)
    BY DEF Pairs
  <2>1. CASE ~Backlogged(e, p[1]) \/ ~Backlogged(e, p[2])
    <3>1. leads[p] = 0
      BY <1>4, <2>1
    <3> QED
      BY <1>1, <1>2, <3>1, LeadStarts
  <2>2. CASE ~ (~Backlogged(e, p[1]) \/ ~Backlogged(e, p[2]))
    <3>1. q # None
      BY <1>1, <2>0, <2>2
    <3>2. Taken(m, d) /\ Backlogged(m, q) /\ q \in 0 .. U - 1
      BY <1>1, <1>3, <1>u, <3>1
    <3>3. Backlogged(m, p[1]) /\ Backlogged(m, p[2])
      BY <2>0, <2>2, <3>2 DEF Taken
    <3>4. lead[p] \in Int /\ Ahead(m, p, lead[p])
      BY DEF LeadSound
    <3> DEFINE new == IF p[1] = q THEN lead[p] + Share(m, q)
                      ELSE IF p[2] = q THEN lead[p] - Share(m, q) ELSE lead[p]
    <3>5. leads[p] = new
      BY <1>4, <2>2
    <3>6. Ahead(e, p, new)
      BY <1>1, <3>2, <3>3, <3>4, LeadServed
    <3>7. Share(m, q) \in Int
      BY <3>2, ShareType
    <3>8. new \in Int
      BY <3>4, <3>7
    <3> HIDE DEF new
    <3> QED
      BY <3>5, <3>6, <3>8
  <2> QED
    BY <2>1, <2>2
<1>7. leads \in [Pairs(m) -> Int]
  BY <1>5, <1>6
<1>8. \A p \in Pairs(e) : ~Backlogged(e, p[1]) \/ ~Backlogged(e, p[2]) => leads[p] = 0
  BY <1>2, <1>4
<1>9. LeadSound(e, leads)
  BY <1>2, <1>6, <1>7, <1>8 DEF LeadSound
<1> QED
  BY <1>9 DEF leads, d

-------------------------------------------------------------------------------
(* The port *)

\* The inductive invariant.
SchedulerInv ==
  /\ \E U \in Nat \ {0} : mq \in QueueType(U)
  /\ CreditSound(mq)
  /\ serving \in Subqueues(mq) \cup {None}
  /\ WorkConserving

\* A dequeue by a READY device establishes the invariant.
LEMMA TransmitKeepsInv ==
  ASSUME NEW U \in Nat \ {0}, NEW m \in QueueType(U), CreditSound(m), Transmit(m)
  PROVE  SchedulerInv'
<1>1. mq' = Dequeue(m).queue /\ serving' = Dequeue(m).from
  BY DEF Transmit
<1>2. /\ mq' \in QueueType(U)
      /\ CreditSound(mq')
      /\ serving' \in Subqueues(m) \cup {None}
      /\ serving' = None => \A q \in Subqueues(m) : ~Backlogged(mq', q)
  BY <1>1, Dequeued
<1>3. Subqueues(mq') = Subqueues(m)
  BY <1>2 DEF Subqueues, QueueType
<1> QED
  BY <1>2, <1>3 DEF SchedulerInv, WorkConserving

\* A new queue is sound.
LEMMA InvInit == Init => SchedulerInv
<1> SUFFICES ASSUME Init PROVE SchedulerInv
  OBVIOUS
<1>1. PICK c \in Config : mq = NewMultipleQueue(c[1], c[2])
  BY DEF Init
<1>2. c[1] \in DequeueTypes /\ c[2] \in Nat \ {0}
  BY SchedulerConfiguration
<1> DEFINE U == c[2]
<1>3. 7 % U \in 0 .. U - 1 /\ 2 % U \in 0 .. U - 1
  <2> HIDE DEF U
  <2>1. U \in Nat \ {0}
    BY <1>2 DEF U
  <2> QED
    BY <2>1
<1>4. mq \in QueueType(U)
  <2>1. <<>> \in Seq(PacketSize) /\ 0 \in Int
    OBVIOUS
  <2> QED
    BY <1>1, <1>2, <1>3, <2>1 DEF NewMultipleQueue, QueueType
<1>5. /\ Subqueues(mq) = 0 .. U - 1
      /\ \A q \in 0 .. U - 1 : mq.m_drr_num[q] = 0 /\ mq.m_queues[q] = <<>>
  BY <1>1 DEF NewMultipleQueue, Subqueues
<1>6. Payable(0)
  BY QueueConfiguration DEF Payable
<1>7. CreditSound(mq)
  BY <1>5, <1>6 DEF CreditSound
<1>8. WorkConserving
  BY <1>5 DEF WorkConserving, Backlogged
<1>9. serving = None
  BY DEF Init
<1> QED
  BY <1>2, <1>4, <1>7, <1>8, <1>9 DEF SchedulerInv

\* Every step keeps the invariant.
LEMMA InvStep == SchedulerInv /\ [Next]_vars => SchedulerInv'
<1> SUFFICES ASSUME SchedulerInv, [Next]_vars PROVE SchedulerInv'
  OBVIOUS
<1>1. PICK U \in Nat \ {0} : mq \in QueueType(U)
  BY DEF SchedulerInv
<1>2. CreditSound(mq) /\ Subqueues(mq) = 0 .. U - 1
  BY <1>1 DEF SchedulerInv, Subqueues, QueueType
<1>3. ASSUME NEW q \in Subqueues(mq), NEW size \in PacketSize, Send(q, size)
      PROVE  SchedulerInv'
  <2>1. /\ EnqueueTos(mq, q, size) \in QueueType(U)
        /\ CreditSound(EnqueueTos(mq, q, size))
    BY <1>1, <1>2, <1>3, AddOne
  <2>2. CASE serving = None
    <3>1. Transmit(EnqueueTos(mq, q, size))
      BY <1>3, <2>2 DEF Send
    <3> QED
      BY <2>1, <3>1, TransmitKeepsInv
  <2>3. CASE serving # None
    <3>1. mq' = EnqueueTos(mq, q, size) /\ serving' = serving
      BY <1>3, <2>3 DEF Send
    <3>2. Subqueues(mq') = Subqueues(mq)
      BY <1>2, <2>1, <3>1 DEF Subqueues, QueueType
    <3> QED
      BY <2>1, <2>3, <3>1, <3>2 DEF SchedulerInv, WorkConserving
  <2> QED
    BY <2>2, <2>3
<1>4. ASSUME NEW q \in Subqueues(mq), HeadDrop(q)
      PROVE  SchedulerInv'
  <2>1. Backlogged(mq, q) /\ mq' = DequeueFrom(mq, q) /\ serving' = serving
    BY <1>4 DEF HeadDrop
  <2>2. mq' \in QueueType(U) /\ CreditSound(mq')
    BY <1>1, <1>2, <2>1, TakeOne
  <2>3. Subqueues(mq') = Subqueues(mq)
    BY <1>2, <2>2 DEF Subqueues, QueueType
  <2>4. serving # None
    BY <2>1 DEF SchedulerInv, WorkConserving
  <2> QED
    BY <2>1, <2>2, <2>3, <2>4 DEF SchedulerInv, WorkConserving
<1>5. ASSUME TransmitComplete
      PROVE  SchedulerInv'
  BY <1>1, <1>2, <1>5, TransmitKeepsInv DEF TransmitComplete
<1>6. CASE UNCHANGED vars
  BY <1>6 DEF vars, SchedulerInv, WorkConserving, CreditSound, Subqueues, Current,
              InRound, Backlogged, QueueType
<1> QED
  BY <1>3, <1>4, <1>5, <1>6 DEF Next

\* The inductive invariant: sound queues, credit with the current queue only, and
\* an idle port only without packets.
THEOREM SchedulerInvHolds == Spec => []SchedulerInv
  BY InvInit, InvStep, PTL DEF Spec

\* CreditBounded: for any number of queues, weight and packet sizes that one
\* turn's credit covers, no queue's credit leaves its bounds.
THEOREM CreditStaysBounded == Spec => []CreditBounded
<1>1. SchedulerInv => CreditBounded
  BY DEF SchedulerInv, CreditSound, CreditBounded, Payable
<1> QED
  BY <1>1, SchedulerInvHolds, PTL

\* WorkConserving: every scheduler finds a packet whenever one is waiting.
THEOREM NeverIdle == Spec => []WorkConserving
<1>1. SchedulerInv => WorkConserving
  BY DEF SchedulerInv
<1> QED
  BY <1>1, SchedulerInvHolds, PTL

\* What the leads' soundness says of the port: Fair.
LEMMA LeadIsFair ==
  ASSUME SchedulerInv, LeadSound(mq, lead)
  PROVE  Fair
<1> SUFFICES ASSUME NEW p \in Pairs(mq)
             PROVE  lead[p] <= IF mq.m_dequeueType = "RR" THEN 1
                               ELSE m_weight + 2 * (MaxSize - 1)
  BY DEF Fair
<1>1. PICK U \in Nat \ {0} : mq \in QueueType(U)
  BY DEF SchedulerInv
<1> DEFINE a == mq.m_drr_num[p[1]]
           b == mq.m_drr_num[p[2]]
           ra == Rank(mq, p[1])
           rb == Rank(mq, p[2])
           l == lead[p]
<1>2. /\ a \in Int /\ a >= 1 - MaxSize /\ b \in Int /\ b <= m_weight
      /\ mq.m_dequeueType = "RR" => a = 0 /\ b = 0
      /\ ra \in 1 .. U /\ rb \in 1 .. U /\ ra # rb
      /\ rb < U => b <= 0
  BY <1>1, PairFacts DEF SchedulerInv
<1>3. l \in Int /\ l + a - b <= Slack(mq) + IF rb < ra THEN Gain(mq) ELSE 0
  BY DEF LeadSound, Ahead
<1> HIDE DEF a, b, ra, rb, l
<1>4. m_weight \in Nat /\ MaxSize \in Nat \ {0}
  BY MaxSizeIsLargest, QueueConfiguration
<1>5. CASE mq.m_dequeueType = "RR"
  <2>1. l + a - b <= 0 + IF rb < ra THEN 1 ELSE 0
    BY <1>3, <1>5 DEF Slack, Gain
  <2>2. l <= 1
    BY <1>2, <1>3, <1>5, <2>1
  <2> QED
    BY <1>5, <2>2 DEF l
<1>6. CASE mq.m_dequeueType # "RR"
  <2>1. l + a - b <= MaxSize - 1 + IF rb < ra THEN m_weight ELSE 0
    BY <1>3, <1>6 DEF Slack, Gain
  <2>2. l <= m_weight + 2 * (MaxSize - 1)
    BY <1>2, <1>3, <1>4, <2>1
  <2> QED
    BY <1>6, <2>2 DEF l
<1> QED
  BY <1>5, <1>6

\* At first nobody is ahead.
LEMMA LeadInit ==
  ASSUME Init
  PROVE  LeadSound(mq, lead)
<1>1. SchedulerInv
  BY InvInit
<1>2. PICK U \in Nat \ {0} : mq \in QueueType(U)
  BY <1>1 DEF SchedulerInv
<1>3. lead = [p \in Pairs(mq) |-> 0]
  BY DEF Init
<1>4. \A p \in Pairs(mq) : Ahead(mq, p, 0)
  BY <1>1, <1>2, LeadStarts DEF SchedulerInv
<1> QED
  BY <1>3, <1>4 DEF LeadSound

\* Every step keeps the leads sound.
LEMMA LeadStep ==
  ASSUME SchedulerInv, LeadSound(mq, lead), [Next]_vars
  PROVE  LeadSound(mq, lead)'
<1>1. PICK U \in Nat \ {0} : mq \in QueueType(U)
  BY DEF SchedulerInv
<1>2. CreditSound(mq) /\ Subqueues(mq) = 0 .. U - 1
  BY <1>1 DEF SchedulerInv, Subqueues, QueueType
<1>3. ASSUME NEW m \in QueueType(U), CreditSound(m), LeadSound(m, lead), Transmit(m)
      PROVE  LeadSound(mq, lead)'
  <2>1. mq' = Dequeue(m).queue /\ lead' = Recorded(m, Dequeue(m).queue, Dequeue(m).from)
    BY <1>3 DEF Transmit
  <2>2. LeadSound(mq', lead')
    BY <1>3, <2>1, LeadDequeue
  <2> QED
    BY <2>2 DEF LeadSound, Pairs, Backlogged, Ahead, Subqueues, TakesTurns, InRound, Slack,
                Gain, Rank, Current
<1>4. ASSUME NEW q \in Subqueues(mq), NEW size \in PacketSize, Send(q, size)
      PROVE  LeadSound(mq, lead)'
  <2> DEFINE e == EnqueueTos(mq, q, size)
  <2>1. e \in QueueType(U) /\ CreditSound(e) /\ LeadSound(e, lead)
    BY <1>1, <1>2, AddOne, LeadAdd
  <2>2. CASE serving = None
    <3>1. Transmit(e)
      BY <1>4, <2>2 DEF Send
    <3> QED
      BY <1>3, <2>1, <3>1
  <2>3. CASE serving # None
    <3>1. mq' = e /\ lead' = lead
      BY <1>4, <2>3 DEF Send
    <3>2. LeadSound(mq', lead')
      BY <2>1, <3>1
    <3> QED
      BY <3>2
  <2> QED
    BY <2>2, <2>3
<1>5. ASSUME NEW q \in Subqueues(mq), HeadDrop(q)
      PROVE  LeadSound(mq, lead)'
  <2>1. /\ Backlogged(mq, q)
        /\ mq' = DequeueFrom(mq, q)
        /\ lead' = Recorded(mq, DequeueFrom(mq, q), None)
    BY <1>5 DEF HeadDrop
  <2>2. LeadSound(mq', lead')
    BY <1>1, <1>2, <2>1, LeadDrop
  <2> QED
    BY <2>2
<1>6. ASSUME TransmitComplete
      PROVE  LeadSound(mq, lead)'
  BY <1>1, <1>2, <1>3, <1>6 DEF TransmitComplete
<1>7. CASE UNCHANGED vars
  <2>1. mq' = mq /\ lead' = lead
    BY <1>7 DEF vars
  <2>2. LeadSound(mq', lead')
    BY <2>1
  <2> QED
    BY <2>2
<1> QED
  BY <1>4, <1>5, <1>6, <1>7 DEF Next

\* Fair: for any number of queues, any sizes of packets and any credit that covers
\* them, no waiting queue gets ahead of another by more than one packet (RR) or one
\* turn's credit and two packets (DRR, PQDRR).
THEOREM SharesFairly == Spec => []Fair
<1>1. Init => LeadSound(mq, lead)
  BY LeadInit
<1>2. SchedulerInv /\ LeadSound(mq, lead) /\ [Next]_vars => LeadSound(mq, lead)'
  BY LeadStep
<1>3. SchedulerInv /\ LeadSound(mq, lead) => Fair
  BY LeadIsFair
<1> QED
  BY <1>1, <1>2, <1>3, SchedulerInvHolds, PTL DEF Spec
===============================================================================
