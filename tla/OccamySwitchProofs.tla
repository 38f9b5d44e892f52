-------------------------- MODULE OccamySwitchProofs --------------------------
(***************************************************************************)
(* The shared memory of an Occamy switch, for any number of devices,       *)
(* queues and MMUs, any memory and packets, and every way to admit and to  *)
(* drop them.                                                              *)
(***************************************************************************)
EXTENDS OccamySwitch, ByteTotalsProofs

-------------------------------------------------------------------------------
(* Bytes of a queue *)

\* An empty queue.
LEMMA EmptyQueue == NBytes(<<>>) = 0
<1>1. DOMAIN <<>> = {}
  OBVIOUS
<1> QED
  BY <1>1, TotalEmpty DEF NBytes

\* A queue of packets has a number of bytes.
LEMMA QueueBytes ==
  ASSUME NEW Z, Z \subseteq Nat \ {0}, NEW queue \in Seq(Z)
  PROVE  NBytes(queue) \in Nat
<1>1. DOMAIN queue = 1 .. Len(queue) /\ Len(queue) \in Nat
  OBVIOUS
<1>2. IsFiniteSet(1 .. Len(queue))
  BY <1>1, FS_Interval
<1>3. \A i \in 1 .. Len(queue) : queue[i] \in Nat
  <2>1. \A i \in 1 .. Len(queue) : queue[i] \in Z
    OBVIOUS
  <2> QED
    BY <2>1
<1> QED
  BY <1>1, <1>2, <1>3, TotalType DEF NBytes

\* A packet at the end of a queue adds its bytes.
LEMMA AppendedBytes ==
  ASSUME NEW Z, Z \subseteq Nat \ {0}, NEW queue \in Seq(Z), NEW size \in Z
  PROVE  NBytes(Append(queue, size)) = NBytes(queue) + size
<1> DEFINE n == Len(queue)
           longer == Append(queue, size)
<1>1. /\ n \in Nat /\ DOMAIN queue = 1 .. n /\ DOMAIN longer = 1 .. n + 1
      /\ \A i \in 1 .. n : longer[i] = queue[i] /\ queue[i] \in Nat
      /\ longer[n + 1] = size
  <2>1. /\ n \in Nat /\ DOMAIN queue = 1 .. n
        /\ \A i \in 1 .. n : queue[i] \in Z
    OBVIOUS
  <2>2. DOMAIN longer = 1 .. n + 1 /\ longer[n + 1] = size
    <3>1. Len(longer) = n + 1 /\ longer \in Seq(Z)
      OBVIOUS
    <3> QED
      BY <3>1
  <2>3. \A i \in 1 .. n : longer[i] = queue[i]
    OBVIOUS
  <2> HIDE DEF n, longer
  <2> QED
    BY <2>1, <2>2, <2>3
<1>2. (1 .. n) \cup {n + 1} = 1 .. n + 1
  BY <1>1
<1>3. IsFiniteSet(1 .. n) /\ n + 1 \notin 1 .. n
  BY <1>1, FS_Interval
<1> HIDE DEF n, longer
<1>4. Total((1 .. n) \cup {n + 1}, longer) = Total(1 .. n, longer) + longer[n + 1]
  <2> DEFINE S == 1 .. n
             x == n + 1
  <2>1. IsFiniteSet(S) /\ x \notin S /\ longer[x] \in Nat /\ \A y \in S : longer[y] \in Nat
    BY <1>1, <1>3
  <2> HIDE DEF S, x
  <2>2. Total(S \cup {x}, longer) = Total(S, longer) + longer[x]
    BY <2>1, TotalAdd
  <2> QED
    BY <2>2 DEF S, x
<1>5. Total(1 .. n, longer) = Total(1 .. n, queue)
  BY <1>1, TotalSame
<1> QED
  BY <1>1, <1>2, <1>4, <1>5 DEF NBytes, longer

\* A packet that leaves the head of a queue takes its bytes.
LEMMA LeftBytes ==
  ASSUME NEW Z, Z \subseteq Nat \ {0}, NEW queue \in Seq(Z), queue # <<>>
  PROVE  /\ Head(queue) \in Z
         /\ Tail(queue) \in Seq(Z)
         /\ NBytes(Tail(queue)) \in Nat
         /\ NBytes(queue) = NBytes(Tail(queue)) + Head(queue)
<1> DEFINE n == Len(queue)
           rest == Tail(queue)
           b == [i \in 1 .. n - 1 |-> i + 1]
<1>1. /\ n \in Nat \ {0} /\ DOMAIN queue = 1 .. n /\ DOMAIN rest = 1 .. n - 1
      /\ \A i \in 1 .. n : queue[i] \in Nat
      /\ \A i \in 1 .. n - 1 : rest[i] = queue[i + 1]
      /\ Head(queue) = queue[1] /\ Head(queue) \in Z /\ rest \in Seq(Z)
  <2>1. n \in Nat \ {0} /\ DOMAIN queue = 1 .. n /\ Len(rest) = n - 1
    OBVIOUS
  <2>2. \A i \in 1 .. n : queue[i] \in Z
    OBVIOUS
  <2>3. rest \in Seq(Z) /\ \A i \in 1 .. n - 1 : rest[i] = queue[i + 1]
    OBVIOUS
  <2>4. DOMAIN rest = 1 .. n - 1
    BY <2>1, <2>3
  <2>5. Head(queue) = queue[1]
    OBVIOUS
  <2>6. 1 \in 1 .. n
    BY <2>1
  <2> HIDE DEF n, rest
  <2> QED
    BY <2>1, <2>2, <2>3, <2>4, <2>5, <2>6
<1>2. IsFiniteSet(1 .. n) /\ IsFiniteSet(1 .. n - 1) /\ 1 \in 1 .. n
  <2>1. n \in Int /\ n - 1 \in Int
    BY <1>1
  <2> HIDE DEF n
  <2> QED
    BY <1>1, <2>1, FS_Interval
<1>3. Total(1 .. n, queue) = Total((1 .. n) \ {1}, queue) + queue[1]
  <2> DEFINE S == 1 .. n
  <2>1. IsFiniteSet(S) /\ 1 \in S /\ \A y \in S : queue[y] \in Nat
    BY <1>1, <1>2
  <2> HIDE DEF S
  <2>2. Total(S, queue) = Total(S \ {1}, queue) + queue[1]
    BY <2>1, TotalRemove
  <2> QED
    BY <2>2 DEF S
<1>4. b \in Bijection(1 .. n - 1, (1 .. n) \ {1})
  <2> HIDE DEF n
  <2>1. b \in [1 .. n - 1 -> (1 .. n) \ {1}]
    BY <1>1
  <2>2. \A x, y \in 1 .. n - 1 : b[x] = b[y] => x = y
    OBVIOUS
  <2>3. ASSUME NEW t \in (1 .. n) \ {1}
        PROVE  \E x \in 1 .. n - 1 : b[x] = t
    <3>1. t - 1 \in 1 .. n - 1 /\ b[t - 1] = t
      BY <1>1
    <3> QED
      BY <3>1
  <2> HIDE DEF b
  <2> QED
    BY <2>1, <2>2, <2>3 DEF Bijection, Injection, Surjection, IsInjective
<1>5. \A x \in 1 .. n - 1 : rest[x] \in Nat /\ queue[b[x]] = rest[x]
  <2> SUFFICES ASSUME NEW x \in 1 .. n - 1
               PROVE  rest[x] \in Nat /\ queue[b[x]] = rest[x]
    OBVIOUS
  <2>1. b[x] = x + 1 /\ x + 1 \in 1 .. n
    BY <1>1
  <2> HIDE DEF b, rest, n
  <2> QED
    BY <1>1, <2>1
<1> HIDE DEF b, n, rest
<1>6. Total((1 .. n) \ {1}, queue) = Total(1 .. n - 1, rest)
  <2> DEFINE S == 1 .. n - 1
             T == (1 .. n) \ {1}
  <2>1. IsFiniteSet(S) /\ b \in Bijection(S, T)
    BY <1>2, <1>4
  <2>2. \A x \in S : rest[x] \in Nat /\ queue[b[x]] = rest[x]
    BY <1>5
  <2> HIDE DEF S, T
  <2>3. Total(T, queue) = Total(S, rest)
    BY <2>1, <2>2, TotalRenamed
  <2> QED
    BY <2>3 DEF S, T
<1>7. NBytes(rest) \in Nat
  BY <1>1, QueueBytes
<1> QED
  BY <1>1, <1>3, <1>6, <1>7 DEF NBytes, rest

\* A queue with bytes has packets.
LEMMA HasBytes ==
  ASSUME NEW Z, NEW queue \in Seq(Z), NBytes(queue) > 0
  PROVE  queue # <<>>
BY EmptyQueue

-------------------------------------------------------------------------------
(* The static bytes of a queue *)

\* The bytes of some packets of size z.
PacketsOf(x, z) == \E k \in Nat : x = k * z

\* One packet more or less.
LEMMA OnePacket ==
  ASSUME NEW z \in Nat \ {0}, NEW x \in Int, PacketsOf(x, z)
  PROVE  /\ x = 0 \/ x >= z
         /\ PacketsOf(x + z, z)
         /\ x >= z => PacketsOf(x - z, z)
<1>1. PICK k \in Nat : x = k * z
  BY DEF PacketsOf
<1>2. (k + 1) * z = k * z + z /\ (k - 1) * z = k * z - z /\ k * z \in Int
  OBVIOUS
<1>3. k = 0 => k * z = 0
  OBVIOUS
<1>4. k # 0 => (k - 1) * z >= 0 /\ k - 1 \in Nat
  OBVIOUS
<1>5. x = 0 \/ x >= z
  BY <1>1, <1>2, <1>3, <1>4
<1>6. PacketsOf(x + z, z)
  BY <1>1, <1>2 DEF PacketsOf
<1>7. x >= z => PacketsOf(x - z, z)
  BY <1>1, <1>2, <1>3, <1>4 DEF PacketsOf
<1> QED
  BY <1>5, <1>6, <1>7

\* A queue of b bytes, t of which are static: no more than may be; those that are
\* not are whole packets; and there are such bytes only if no packet of the
\* switch still fits the static memory.
Split(c, b, t) ==
  /\ t \in 0 .. c.staticBuffer
  /\ b - t \in Nat
  /\ \A z \in c.sizes : /\ c.staticBuffer > 0 => PacketsOf(b - t, z)
                        /\ b - t > 0 => t + z > c.staticBuffer

\* What the splits of a configuration rest on.
SplitBasis(c) ==
  /\ c.staticBuffer \in Nat
  /\ c.sizes \subseteq Nat \ {0}
  /\ c.staticBuffer > 0 => \A y, z \in c.sizes : y = z

\* Configurations have it.
LEMMA SplitsAreSound ==
  ASSUME NEW c \in Config, StaticSizes
  PROVE  SplitBasis(c)
BY OccamyConfiguration, QueueConfiguration DEF SplitBasis, StaticSizes

\* An empty queue.
LEMMA SplitEmpty ==
  ASSUME NEW c, SplitBasis(c)
  PROVE  Split(c, 0, 0)
<1>1. ASSUME NEW z \in c.sizes
      PROVE  PacketsOf(0 - 0, z)
  <2>1. 0 * z = 0 /\ 0 \in Nat
    BY DEF SplitBasis
  <2> QED
    BY <2>1 DEF PacketsOf
<1> QED
  BY <1>1 DEF Split, SplitBasis

\* A packet enters static memory if it fits.
LEMMA PutStatic ==
  ASSUME NEW c, SplitBasis(c), NEW size \in c.sizes, NEW b \in Int, NEW t \in Int,
         Split(c, b, t), t + size <= c.staticBuffer
  PROVE  Split(c, b + size, t + size)
<1>1. size \in Nat \ {0} /\ t \in Nat /\ c.staticBuffer \in Nat /\ c.staticBuffer > 0
  BY DEF SplitBasis, Split
<1>2. b + size - (t + size) = b - t /\ b - t \in Nat /\ t + size \in 0 .. c.staticBuffer
  BY <1>1 DEF Split
<1>3. ~ (b - t > 0)
  BY <1>1 DEF Split
<1> QED
  BY <1>1, <1>2, <1>3 DEF Split

\* Otherwise it enters the memory that is shared.
LEMMA PutShared ==
  ASSUME NEW c, SplitBasis(c), NEW size \in c.sizes, NEW b \in Int, NEW t \in Int,
         Split(c, b, t), t + size > c.staticBuffer
  PROVE  Split(c, b + size, t)
<1>1. size \in Nat \ {0} /\ t \in Nat /\ c.staticBuffer \in Nat /\ b - t \in Nat
  BY DEF SplitBasis, Split
<1>2. b + size - t = b - t + size
  BY <1>1
<1>3. ASSUME NEW z \in c.sizes, c.staticBuffer > 0
      PROVE  z = size /\ PacketsOf(b - t + size, z)
  <2>1. z = size /\ PacketsOf(b - t, size)
    BY <1>3 DEF SplitBasis, Split
  <2> QED
    BY <1>1, <2>1, OnePacket
<1>4. ASSUME NEW z \in c.sizes
      PROVE  t + z > c.staticBuffer
  <2>1. z \in Nat \ {0}
    BY DEF SplitBasis
  <2> QED
    BY <1>1, <1>3, <2>1
<1> QED
  BY <1>1, <1>2, <1>3, <1>4 DEF Split

\* A packet that leaves fewer bytes than are static was static, and so were all.
LEMMA TakeStatic ==
  ASSUME NEW c, SplitBasis(c), NEW size \in c.sizes, NEW b \in Int, NEW t \in Int,
         Split(c, b, t), b - size \in Nat, t > b - size
  PROVE  /\ b = t
         /\ Split(c, b - size, t - size)
<1>1. /\ size \in Nat \ {0} /\ t \in Nat /\ c.staticBuffer \in Nat /\ b - t \in Nat
      /\ t <= c.staticBuffer
  BY DEF SplitBasis, Split
<1>2. PacketsOf(b - t, size)
  BY <1>1 DEF Split
<1>3. b = t
  BY <1>1, <1>2, OnePacket
<1>4. /\ b - size - (t - size) = b - t /\ ~ (b - t > 0)
      /\ t - size \in 0 .. c.staticBuffer
  BY <1>1, <1>3
<1> QED
  BY <1>1, <1>3, <1>4 DEF Split

\* Otherwise it was not.
LEMMA TakeShared ==
  ASSUME NEW c, SplitBasis(c), NEW size \in c.sizes, NEW b \in Int, NEW t \in Int,
         Split(c, b, t), t <= b - size
  PROVE  Split(c, b - size, t)
<1>1. size \in Nat \ {0} /\ t \in Nat /\ c.staticBuffer \in Nat /\ b - t \in Nat
  BY DEF SplitBasis, Split
<1>2. b - size - t = b - t - size /\ b - t >= size /\ b - t - size \in Nat
  BY <1>1
<1>3. ASSUME NEW z \in c.sizes, c.staticBuffer > 0
      PROVE  PacketsOf(b - t - size, z)
  <2>1. z = size /\ PacketsOf(b - t, size)
    BY <1>3 DEF SplitBasis, Split
  <2> QED
    BY <1>1, <1>2, <2>1, OnePacket
<1>4. ASSUME NEW z \in c.sizes
      PROVE  t + z > c.staticBuffer
  BY <1>1, <1>2 DEF Split
<1> QED
  BY <1>1, <1>2, <1>3, <1>4 DEF Split

\* A queue with more bytes than may be static has a packet that is not.
LEMMA TakeExcess ==
  ASSUME NEW c, SplitBasis(c), NEW size \in c.sizes, NEW b \in Int, NEW t \in Int,
         Split(c, b, t), b > c.staticBuffer, b - size \in Nat
  PROVE  t <= b - size
<1>1. size \in Nat \ {0} /\ t \in Nat /\ c.staticBuffer \in Nat /\ t <= c.staticBuffer
  BY DEF SplitBasis, Split
<1>2. ~ (t > b - size)
  BY <1>1, TakeStatic
<1> QED
  BY <1>1, <1>2

\* A queue with no more bytes than may be static has no others.
LEMMA NoExcess ==
  ASSUME NEW c, SplitBasis(c), NEW size \in c.sizes, NEW b \in Int, NEW t \in Int,
         Split(c, b, t), b <= c.staticBuffer
  PROVE  b - t = 0
<1>1. /\ size \in Nat \ {0} /\ t \in Nat /\ c.staticBuffer \in Nat /\ b - t \in Nat
      /\ t <= c.staticBuffer
  BY DEF SplitBasis, Split
<1>2. CASE c.staticBuffer > 0 /\ b - t > 0
  <2>1. PacketsOf(b - t, size) /\ t + size > c.staticBuffer
    BY <1>2 DEF Split
  <2>2. b - t >= size
    BY <1>1, <1>2, <2>1, OnePacket
  <2> QED
    BY <1>1, <2>1, <2>2
<1> QED
  BY <1>1, <1>2

-------------------------------------------------------------------------------
(* What a device dequeues *)

\* The queues of a device.
SwitchQueue(c) ==
  [m_dequeueType : {c.dequeueType}, m_useqCnt : {c.useqCnt},
   m_queues : [0 .. c.useqCnt - 1 -> Seq(c.sizes)],
   m_deindex : 0 .. c.useqCnt - 1, drr_index : 0 .. c.useqCnt - 1,
   m_drr_num : [0 .. c.useqCnt - 1 -> Int]]

\* Only the head of one queue, or nothing, leaves: t is the result of Dequeue.
Served(c, mq, t) ==
  /\ t.queue \in SwitchQueue(c)
  /\ \/ t.from = None /\ t.queue.m_queues = mq.m_queues
     \/ /\ t.from \in 0 .. c.useqCnt - 1
        /\ mq.m_queues[t.from] # <<>>
        /\ t.queue.m_queues = [mq.m_queues EXCEPT ![t.from] = Tail(@)]

\* First picks an element of a set of numbers.
LEMMA FirstIsMember ==
  ASSUME NEW S, S \subseteq Nat, S # {}
  PROVE  First(S) \in S
<1>1. PICK x \in S : \A y \in S : x <= y
  BY LeastNumber
<1> QED
  BY <1>1 DEF First

\* Latest picks an element of a bounded set of numbers.
LEMMA LatestIsElement ==
  ASSUME NEW n \in Nat, NEW S, S \subseteq 0 .. n, S # {}
  PROVE  Latest(S) \in S
<1>1. PICK x \in S : \A y \in S : y <= x
  BY GreatestNumber
<1> QED
  BY <1>1 DEF Latest

\* A place in a circle of queues.
LEMMA Around ==
  ASSUME NEW U \in Nat \ {0}, NEW i \in Nat
  PROVE  i % U \in 0 .. U - 1
OBVIOUS

\* The head of queue q leaves: DequeueFrom and changes of the other fields.
LEMMA HeadLeaves ==
  ASSUME NEW c, c.useqCnt \in Nat \ {0}, NEW mq \in SwitchQueue(c),
         NEW q \in 0 .. c.useqCnt - 1, Backlogged(mq, q)
  PROVE  /\ DequeueFrom(mq, q) \in SwitchQueue(c)
         /\ mq.m_queues[q] # <<>>
         /\ DequeueFrom(mq, q) = [mq EXCEPT !.m_queues = [mq.m_queues EXCEPT ![q] = Tail(@)]]
<1>1. mq.m_queues[q] \in Seq(c.sizes) /\ mq.m_queues[q] # <<>>
  BY DEF SwitchQueue, Backlogged
<1>2. Tail(mq.m_queues[q]) \in Seq(c.sizes)
  <2> DEFINE line == mq.m_queues[q]
  <2>1. line \in Seq(c.sizes) /\ line # <<>>
    BY <1>1
  <2> HIDE DEF line
  <2>2. Tail(line) \in Seq(c.sizes)
    BY <2>1
  <2> QED
    BY <2>2 DEF line
<1> DEFINE queues == [mq.m_queues EXCEPT ![q] = Tail(@)]
<1>3. queues \in [0 .. c.useqCnt - 1 -> Seq(c.sizes)]
  BY <1>2 DEF SwitchQueue
<1>4. DequeueFrom(mq, q) = [mq EXCEPT !.m_queues = queues]
  BY DEF DequeueFrom, SwitchQueue
<1> HIDE DEF queues
<1>5. [mq EXCEPT !.m_queues = queues] \in SwitchQueue(c)
  BY <1>3 DEF SwitchQueue
<1> QED
  BY <1>1, <1>4, <1>5 DEF queues

\* Round robin.
LEMMA ServedRR ==
  ASSUME NEW c, c.useqCnt \in Nat \ {0}, NEW mq \in SwitchQueue(c)
  PROVE  Served(c, mq, DequeueRR(mq))
<1> DEFINE U == c.useqCnt
           Turn(i) == (mq.m_deindex + i) % mq.m_useqCnt
           found == {i \in 1 .. mq.m_useqCnt : Backlogged(mq, Turn(i))}
           q == Turn(First(found))
<1>1. mq.m_useqCnt = U /\ mq.m_deindex \in Nat
  BY DEF SwitchQueue
<1>2. CASE found = {}
  <2>1. DequeueRR(mq) = [queue |-> mq, from |-> None]
    BY <1>2 DEF DequeueRR
  <2> QED
    BY <2>1 DEF Served
<1>3. CASE found # {}
  <2>1. First(found) \in found
    <3>1. found \subseteq Nat
      BY <1>1
    <3> HIDE DEF found
    <3> QED
      BY <1>3, <3>1, FirstIsMember
  <2>2. Backlogged(mq, q) /\ mq.m_deindex + First(found) \in Nat
    <3> DEFINE i == First(found)
    <3>1. i \in 1 .. U /\ Backlogged(mq, Turn(i))
      BY <1>1, <2>1
    <3> HIDE DEF i
    <3>2. mq.m_deindex + i \in Nat
      BY <1>1, <3>1
    <3> QED
      BY <3>1, <3>2 DEF i
  <2>3. q \in 0 .. U - 1
    <3> HIDE DEF found
    <3> QED
      BY <1>1, <2>2, Around
  <2>4. DequeueRR(mq) = [queue |-> [DequeueFrom(mq, q) EXCEPT !.m_deindex = q], from |-> q]
    BY <1>3 DEF DequeueRR
  <2> HIDE DEF q
  <2>5. /\ DequeueFrom(mq, q) \in SwitchQueue(c)
        /\ mq.m_queues[q] # <<>>
        /\ DequeueFrom(mq, q) = [mq EXCEPT !.m_queues = [mq.m_queues EXCEPT ![q] = Tail(@)]]
    BY <2>2, <2>3, HeadLeaves
  <2>6. /\ [DequeueFrom(mq, q) EXCEPT !.m_deindex = q] \in SwitchQueue(c)
        /\ [DequeueFrom(mq, q) EXCEPT !.m_deindex = q].m_queues
             = [mq.m_queues EXCEPT ![q] = Tail(@)]
    BY <2>3, <2>5 DEF SwitchQueue
  <2>7. Served(c, mq, [queue |-> [DequeueFrom(mq, q) EXCEPT !.m_deindex = q], from |-> q])
    BY <2>3, <2>5, <2>6 DEF Served
  <2> QED
    BY <2>4, <2>7
<1> QED
  BY <1>2, <1>3

\* A queue chosen by priority.
LEMMA ServedUrgent ==
  ASSUME NEW c, c.useqCnt \in Nat \ {0}, NEW mq \in SwitchQueue(c),
         NEW S, S \subseteq 0 .. c.useqCnt - 1, S # {}, \A q \in S : Backlogged(mq, q)
  PROVE  Served(c, mq, [queue |-> [DequeueFrom(mq, First(S)) EXCEPT !.m_deindex = First(S)],
                        from |-> First(S)])
<1> DEFINE q == First(S)
<1>1. S \subseteq Nat
  OBVIOUS
<1>2. q \in S
  BY <1>1, FirstIsMember
<1> HIDE DEF q
<1>3. q \in 0 .. c.useqCnt - 1 /\ Backlogged(mq, q)
  BY <1>2
<1>4. /\ DequeueFrom(mq, q) \in SwitchQueue(c)
      /\ mq.m_queues[q] # <<>>
      /\ DequeueFrom(mq, q) = [mq EXCEPT !.m_queues = [mq.m_queues EXCEPT ![q] = Tail(@)]]
  BY <1>3, HeadLeaves
<1>5. /\ [DequeueFrom(mq, q) EXCEPT !.m_deindex = q] \in SwitchQueue(c)
      /\ [DequeueFrom(mq, q) EXCEPT !.m_deindex = q].m_queues
           = [mq.m_queues EXCEPT ![q] = Tail(@)]
  BY <1>3, <1>4 DEF SwitchQueue
<1>6. Served(c, mq, [queue |-> [DequeueFrom(mq, q) EXCEPT !.m_deindex = q], from |-> q])
  BY <1>3, <1>4, <1>5 DEF Served
<1> QED
  BY <1>6 DEF q

\* Strict priority.
LEMMA ServedPQ ==
  ASSUME NEW c, c.useqCnt \in Nat \ {0}, NEW mq \in SwitchQueue(c)
  PROVE  Served(c, mq, DequeuePQ(mq))
<1> DEFINE found == {q \in Subqueues(mq) : Backlogged(mq, q)}
<1>1. CASE found = {}
  <2>1. DequeuePQ(mq) = [queue |-> mq, from |-> None]
    BY <1>1 DEF DequeuePQ
  <2> QED
    BY <2>1 DEF Served
<1>2. CASE found # {}
  <2>1. found \subseteq 0 .. c.useqCnt - 1 /\ \A q \in found : Backlogged(mq, q)
    BY DEF Subqueues, SwitchQueue
  <2>2. DequeuePQ(mq) = [queue |-> [DequeueFrom(mq, First(found)) EXCEPT !.m_deindex = First(found)],
                         from |-> First(found)]
    BY <1>2 DEF DequeuePQ
  <2> HIDE DEF found
  <2> QED
    BY <1>2, <2>1, <2>2, ServedUrgent
<1> QED
  BY <1>1, <1>2

\* Credits are numbers.
LEMMA CreditsAreNumbers ==
  ASSUME NEW c, c.useqCnt \in Nat \ {0}, NEW mq \in SwitchQueue(c),
         NEW n \in 0 .. c.useqCnt + 1, NEW q \in 0 .. c.useqCnt - 1
  PROVE  PassedBefore(mq, n, q) \in Int
<1> DEFINE looks == {i \in 0 .. n - 1 : Place(mq, i) = q}
<1>1. mq.m_drr_num[q] \in Int /\ mq.m_useqCnt = c.useqCnt /\ m_weight \in Int
  BY QueueConfiguration DEF SwitchQueue
<1>2. CASE ~InRound(mq, q) \/ looks = {}
  <2>1. PassedBefore(mq, n, q) = mq.m_drr_num[q]
    BY <1>2 DEF PassedBefore
  <2> QED
    BY <1>1, <2>1
<1>3. CASE ~ (~InRound(mq, q) \/ looks = {})
  <2>1. PassedBefore(mq, n, q) = Passed(mq, Latest(looks))
    BY <1>3 DEF PassedBefore
  <2>2. looks \subseteq 0 .. c.useqCnt + 1 /\ c.useqCnt + 1 \in Nat
    OBVIOUS
  <2>3. Latest(looks) \in looks
    <3> HIDE DEF looks
    <3> QED
      BY <1>3, <2>2, LatestIsElement
  <2>4. Place(mq, Latest(looks)) = q
    BY <2>3
  <2> HIDE DEF looks
  <2>5. Credit(mq, Latest(looks)) \in Int
    BY <1>1, <2>4 DEF Credit
  <2> QED
    BY <2>1, <2>5 DEF Passed
<1> QED
  BY <1>2, <1>3

\* Deficit round robin.
LEMMA ServedDRR ==
  ASSUME NEW c, c.useqCnt \in Nat \ {0}, c.sizes \subseteq Nat, NEW mq \in SwitchQueue(c)
  PROVE  Served(c, mq, DequeueDRR(mq))
<1> DEFINE U == c.useqCnt
<1>u. mq.m_useqCnt = U /\ Subqueues(mq) = 0 .. U - 1
  BY DEF SwitchQueue, Subqueues
<1>1. CASE Serving(mq) = {}
  <2>1. DequeueDRR(mq) = [queue |-> RoundPassed(mq), from |-> None]
    BY <1>1 DEF DequeueDRR
  <2> DEFINE credits == [q \in 0 .. U - 1 |-> PassedBefore(mq, U + 1, q)]
  <2>2. RoundPassed(mq) = [mq EXCEPT !.m_drr_num = credits]
    BY <1>u DEF RoundPassed
  <2>3. credits \in [0 .. U - 1 -> Int]
    BY CreditsAreNumbers
  <2> HIDE DEF credits
  <2>4. RoundPassed(mq) \in SwitchQueue(c) /\ RoundPassed(mq).m_queues = mq.m_queues
    BY <2>2, <2>3 DEF SwitchQueue
  <2> QED
    BY <2>1, <2>4 DEF Served
<1>2. CASE Serving(mq) # {}
  <2> DEFINE n == First(Serving(mq))
             t == Place(mq, n)
             cost == Head(mq.m_queues[t])
             credits == [q \in 0 .. U - 1 |->
                           IF q = t THEN Credit(mq, n) - cost
                           ELSE PassedBefore(mq, n, q)]
  <2>1. n \in 0 .. U /\ Serves(mq, n)
    <3>1. Serving(mq) \subseteq Nat
      BY <1>u DEF Serving, Looks
    <3>2. n \in Serving(mq)
      BY <1>2, <3>1, FirstIsMember
    <3> QED
      BY <1>u, <3>2 DEF Serving, Looks
  <2>2. DequeueDRR(mq) = [queue |-> RoundServed(mq, n), from |-> t]
    BY <1>2 DEF DequeueDRR
  <2> HIDE DEF n
  <2>3. t \in 0 .. U - 1
    <3>1. Current(mq) \in Nat
      BY DEF Current, SwitchQueue
    <3>2. Current(mq) + n \in Nat
      BY <2>1, <3>1
    <3> QED
      BY <1>u, <3>2, Around DEF Place
  <2>4. Backlogged(mq, t)
    BY <2>1 DEF Serves
  <2>5. Credit(mq, n) \in Int /\ cost \in Int
    <3>1. mq.m_drr_num[t] \in Int /\ m_weight \in Int
      BY <2>3, QueueConfiguration DEF SwitchQueue
    <3>2. mq.m_queues[t] \in Seq(c.sizes) /\ mq.m_queues[t] # <<>>
      BY <2>3, <2>4 DEF SwitchQueue, Backlogged
    <3>3. cost \in c.sizes
      BY <3>2
    <3> QED
      BY <3>1, <3>3 DEF Credit
  <2>6. credits \in [0 .. U - 1 -> Int]
    <3>1. \A q \in 0 .. U - 1 : PassedBefore(mq, n, q) \in Int
      BY <2>1, CreditsAreNumbers
    <3> HIDE DEF t, cost
    <3> QED
      BY <2>5, <3>1
  <2>7. RoundServed(mq, n) =
          [DequeueFrom(mq, t) EXCEPT
             !.m_deindex = t,
             !.drr_index = IF mq.m_dequeueType = "PQDRR" THEN t ELSE @,
             !.m_drr_num = credits]
    BY <1>u DEF RoundServed
  <2> HIDE DEF t, credits
  <2>8. /\ DequeueFrom(mq, t) \in SwitchQueue(c)
        /\ mq.m_queues[t] # <<>>
        /\ DequeueFrom(mq, t) = [mq EXCEPT !.m_queues = [mq.m_queues EXCEPT ![t] = Tail(@)]]
    BY <2>3, <2>4, HeadLeaves
  <2>9. /\ RoundServed(mq, n) \in SwitchQueue(c)
        /\ RoundServed(mq, n).m_queues = [mq.m_queues EXCEPT ![t] = Tail(@)]
    BY <2>3, <2>6, <2>7, <2>8 DEF SwitchQueue
  <2> QED
    BY <2>2, <2>3, <2>8, <2>9 DEF Served
<1> QED
  BY <1>1, <1>2

\* Every scheduler takes the head of one queue, or nothing.
LEMMA DequeueServes ==
  ASSUME NEW c \in Config, NEW mq \in SwitchQueue(c)
  PROVE  Served(c, mq, Dequeue(mq))
<1>1. /\ c.useqCnt \in Nat \ {0} /\ c.sizes \subseteq Nat /\ c.dequeueType \in DequeueTypes
  BY OccamyConfiguration, QueueConfiguration
<1>2. mq.m_dequeueType = c.dequeueType
  BY DEF SwitchQueue
<1>3. CASE c.dequeueType = "RR"
  BY <1>1, <1>2, <1>3, ServedRR DEF Dequeue
<1>4. CASE c.dequeueType = "PQ"
  BY <1>1, <1>2, <1>4, ServedPQ DEF Dequeue
<1>5. CASE c.dequeueType = "DRR"
  BY <1>1, <1>2, <1>5, ServedDRR DEF Dequeue
<1>6. CASE c.dequeueType = "PQDRR"
  <2>1. Dequeue(mq) = DequeuePQDRR(mq)
    BY <1>2, <1>6 DEF Dequeue
  <2> DEFINE urgent == {q \in Subqueues(mq) \cap {0, 1} : Backlogged(mq, q)}
  <2>2. CASE urgent = {}
    <3>1. DequeuePQDRR(mq) = DequeueDRR(mq)
      BY <2>2 DEF DequeuePQDRR
    <3> QED
      BY <1>1, <2>1, <3>1, ServedDRR
  <2>3. CASE urgent # {}
    <3>1. urgent \subseteq 0 .. c.useqCnt - 1 /\ \A q \in urgent : Backlogged(mq, q)
      BY DEF Subqueues, SwitchQueue
    <3>2. DequeuePQDRR(mq)
            = [queue |-> [DequeueFrom(mq, First(urgent)) EXCEPT !.m_deindex = First(urgent)],
               from |-> First(urgent)]
      BY <2>3 DEF DequeuePQDRR
    <3> HIDE DEF urgent
    <3> QED
      BY <1>1, <2>1, <2>3, <3>1, <3>2, ServedUrgent
  <2> QED
    BY <2>2, <2>3
<1> QED
  BY <1>1, <1>3, <1>4, <1>5, <1>6 DEF DequeueTypes

-------------------------------------------------------------------------------
(* A sound switch *)

\* The MMU of a device, all MMUs, all queues and those of an MMU.
MmuOf(c, d) == (d - 1) \div c.group
Mmus(c) == {MmuOf(c, e) : e \in Device}
Places(c) == Device \X (0 .. c.useqCnt - 1)
QueuesOf(c, m) == {p \in Places(c) : MmuOf(c, p[1]) = m}

\* The types of the switch's state.
SwitchType(c) ==
  [mq : [Device -> SwitchQueue(c)],
   usedStaticBuffer : [Device -> [0 .. c.useqCnt - 1 -> Int]],
   m_usedBuffer : [Mmus(c) -> Int],
   remaining : [Device -> Nat \cup {Idle}],
   token_num : Int,
   generator : Device \cup {None},
   last_head_drop : Nat \X Nat]

\* The bytes of a queue, and those of them that are static.
Held(s, p) == NBytes(s.mq[p[1]].m_queues[p[2]])
Static(s, p) == s.usedStaticBuffer[p[1]][p[2]]

\* What MMU m should count as used.
SharedOf(c, s, m) ==
  Total(QueuesOf(c, m), [p \in QueuesOf(c, m) |-> Held(s, p) - Static(s, p)])

\* The inductive invariant of the memory: the queues are split soundly, and each
\* MMU counts the bytes that are not static, never more than there are.
Sound(c, s) ==
  /\ s \in SwitchType(c)
  /\ \A p \in Places(c) : Split(c, Held(s, p), Static(s, p))
  /\ \A m \in Mmus(c) : /\ s.m_usedBuffer[m] = SharedOf(c, s, m)
                        /\ s.m_usedBuffer[m] <= c.maxBuffer

\* There are finitely many queues.
LEMMA PlacesFinite ==
  ASSUME NEW c \in Config
  PROVE  /\ IsFiniteSet(Device)
         /\ IsFiniteSet(Places(c))
         /\ \A m : IsFiniteSet(QueuesOf(c, m))
<1>1. IsFiniteSet(Device)
  BY SwitchEarnsTokens DEF Budget!BudgetConfiguration, Budget!IsFiniteSet, IsFiniteSet
<1>2. IsFiniteSet(0 .. c.useqCnt - 1)
  <2>1. c.useqCnt - 1 \in Int /\ 0 \in Int
    BY OccamyConfiguration
  <2> QED
    BY <2>1, FS_Interval
<1>3. IsFiniteSet(Places(c))
  <2> DEFINE S == 0 .. c.useqCnt - 1
  <2>1. IsFiniteSet(S)
    BY <1>2
  <2> HIDE DEF S
  <2>2. IsFiniteSet(Device \X S)
    BY <1>1, <2>1, FS_Product
  <2> QED
    BY <2>2 DEF S, Places
<1>4. ASSUME NEW m
      PROVE  IsFiniteSet(QueuesOf(c, m))
  <2>1. QueuesOf(c, m) \subseteq Places(c)
    BY DEF QueuesOf
  <2> QED
    BY <1>3, <2>1, FS_Subset
<1> QED
  BY <1>1, <1>3, <1>4

\* What the facts about an admissible state are.
LEMMA PlaceType ==
  ASSUME NEW c \in Config, NEW s \in SwitchType(c), NEW p \in Places(c)
  PROVE  /\ p[1] \in Device /\ p[2] \in 0 .. c.useqCnt - 1 /\ p = <<p[1], p[2]>>
         /\ s.mq[p[1]] \in SwitchQueue(c)
         /\ s.mq[p[1]].m_queues[p[2]] \in Seq(c.sizes)
         /\ Held(s, p) \in Nat
         /\ Static(s, p) \in Int
         /\ MmuOf(c, p[1]) \in Mmus(c)
<1>1. p[1] \in Device /\ p[2] \in 0 .. c.useqCnt - 1 /\ p = <<p[1], p[2]>>
  BY DEF Places
<1>2. s.mq[p[1]] \in SwitchQueue(c) /\ Static(s, p) \in Int
  BY <1>1 DEF SwitchType, Static
<1>3. s.mq[p[1]].m_queues[p[2]] \in Seq(c.sizes)
  BY <1>1, <1>2 DEF SwitchQueue
<1>4. c.sizes \subseteq Nat \ {0}
  BY OccamyConfiguration, QueueConfiguration
<1>5. Held(s, p) \in Nat
  BY <1>3, <1>4, QueueBytes DEF Held
<1> QED
  BY <1>1, <1>2, <1>3, <1>5 DEF Mmus

\* What an MMU counts is not negative, and covers each of its queues.
LEMMA UsedCovers ==
  ASSUME NEW c \in Config, NEW s, Sound(c, s), NEW m \in Mmus(c)
  PROVE  /\ s.m_usedBuffer[m] \in 0 .. c.maxBuffer
         /\ \A p \in QueuesOf(c, m) : Held(s, p) - Static(s, p) <= s.m_usedBuffer[m]
         /\ (\A p \in QueuesOf(c, m) : Held(s, p) - Static(s, p) = 0) => s.m_usedBuffer[m] = 0
<1> DEFINE S == QueuesOf(c, m)
           w == [p \in S |-> Held(s, p) - Static(s, p)]
<1>1. IsFiniteSet(S)
  BY PlacesFinite
<1>2. \A p \in S : w[p] \in Nat
  BY DEF QueuesOf, Sound, Split
<1>3. s.m_usedBuffer[m] = Total(S, w) /\ s.m_usedBuffer[m] <= c.maxBuffer
  BY DEF Sound, SharedOf
<1>4. c.maxBuffer \in Nat
  BY OccamyConfiguration
<1>5. \A p \in S : w[p] = Held(s, p) - Static(s, p)
  OBVIOUS
<1> HIDE DEF S, w
<1>6. Total(S, w) \in Nat
  BY <1>1, <1>2, TotalType
<1>7. \A p \in S : w[p] <= Total(S, w)
  BY <1>1, <1>2, TotalBounds
<1>8. (\A p \in S : w[p] = 0) => Total(S, w) = 0
  BY TotalZero
<1> QED
  BY <1>3, <1>4, <1>5, <1>6, <1>7, <1>8 DEF S

\* How a step on one queue keeps the switch sound.
LEMMA OneQueue ==
  ASSUME NEW c \in Config, NEW s, Sound(c, s), NEW t \in SwitchType(c), NEW p \in Places(c),
         \A r \in Places(c) \ {p} : Held(t, r) = Held(s, r) /\ Static(t, r) = Static(s, r),
         Split(c, Held(t, p), Static(t, p)),
         \A m \in Mmus(c) :
           t.m_usedBuffer[m] =
             IF m = MmuOf(c, p[1])
             THEN s.m_usedBuffer[m] + (Held(t, p) - Static(t, p)) - (Held(s, p) - Static(s, p))
             ELSE s.m_usedBuffer[m],
         \A m \in Mmus(c) : t.m_usedBuffer[m] <= c.maxBuffer
  PROVE  Sound(c, t)
<1>1. ASSUME NEW r \in Places(c)
      PROVE  Split(c, Held(t, r), Static(t, r))
  <2>1. CASE r = p
    BY <2>1
  <2>2. CASE r # p
    <3>1. Held(t, r) = Held(s, r) /\ Static(t, r) = Static(s, r)
      BY <2>2
    <3>2. Split(c, Held(s, r), Static(s, r))
      BY DEF Sound
    <3> QED
      BY <3>1, <3>2
  <2> QED
    BY <2>1, <2>2
<1>2. ASSUME NEW m \in Mmus(c)
      PROVE  t.m_usedBuffer[m] = SharedOf(c, t, m)
  <2> DEFINE S == QueuesOf(c, m)
             v == [r \in S |-> Held(s, r) - Static(s, r)]
             w == [r \in S |-> Held(t, r) - Static(t, r)]
  <2>1. IsFiniteSet(S) /\ S \subseteq Places(c)
    BY PlacesFinite DEF QueuesOf
  <2>2. \A r \in S : v[r] \in Nat /\ w[r] \in Nat
    BY <1>1, <2>1 DEF Sound, Split
  <2>3. \A r \in S \ {p} : v[r] = w[r]
    BY <2>1
  <2>4. s.m_usedBuffer[m] = Total(S, v) /\ SharedOf(c, t, m) = Total(S, w)
    BY DEF Sound, SharedOf
  <2>5. p \in S <=> m = MmuOf(c, p[1])
    BY DEF QueuesOf
  <2>6. p \in S => v[p] = Held(s, p) - Static(s, p) /\ w[p] = Held(t, p) - Static(t, p)
    OBVIOUS
  <2>7. Total(S, v) \in Nat /\ Total(S, w) \in Nat
    <3> HIDE DEF S, v, w
    <3> QED
      BY <2>1, <2>2, TotalType
  <2>8. CASE p \in S
    <3>1. Total(S, v) + w[p] = Total(S, w) + v[p]
      <4> HIDE DEF S, v, w
      <4> QED
        BY <2>1, <2>2, <2>3, <2>8, TotalChange
    <3>2. t.m_usedBuffer[m] = Total(S, v) + w[p] - v[p]
      <4>1. /\ Held(s, p) \in Int /\ Static(s, p) \in Int
            /\ Held(t, p) \in Int /\ Static(t, p) \in Int
        BY PlaceType DEF Sound
      <4>2. t.m_usedBuffer[m] =
              s.m_usedBuffer[m] + (Held(t, p) - Static(t, p)) - (Held(s, p) - Static(s, p))
        BY <2>5, <2>8
      <4> QED
        BY <2>4, <2>6, <2>8, <4>2
    <3>3. v[p] \in Nat /\ w[p] \in Nat
      BY <2>2, <2>8
    <3> HIDE DEF S, v, w
    <3> QED
      BY <2>4, <2>7, <3>1, <3>2, <3>3
  <2>9. CASE p \notin S
    <3>1. Total(S, v) = Total(S, w)
      <4>1. \A r \in S : v[r] = w[r]
        BY <2>3, <2>9
      <4> HIDE DEF S, v, w
      <4> QED
        BY <4>1, TotalSame
    <3>2. t.m_usedBuffer[m] = s.m_usedBuffer[m]
      BY <2>5, <2>9
    <3> HIDE DEF S, v, w
    <3> QED
      BY <2>4, <3>1, <3>2
  <2> QED
    BY <2>8, <2>9
<1> QED
  BY <1>1, <1>2 DEF Sound

\* A step that leaves queues and counters alone.
LEMMA NoQueue ==
  ASSUME NEW c \in Config, NEW s, Sound(c, s), NEW t \in SwitchType(c),
         \A r \in Places(c) : Held(t, r) = Held(s, r) /\ Static(t, r) = Static(s, r),
         t.m_usedBuffer = s.m_usedBuffer
  PROVE  Sound(c, t)
<1>1. ASSUME NEW m \in Mmus(c)
      PROVE  SharedOf(c, t, m) = SharedOf(c, s, m)
  <2>1. \A r \in QueuesOf(c, m) : Held(t, r) - Static(t, r) = Held(s, r) - Static(s, r)
    BY DEF QueuesOf
  <2>2. [r \in QueuesOf(c, m) |-> Held(t, r) - Static(t, r)]
          = [r \in QueuesOf(c, m) |-> Held(s, r) - Static(s, r)]
    BY <2>1
  <2> QED
    BY <2>2 DEF SharedOf
<1>2. \A r \in Places(c) : Split(c, Held(t, r), Static(t, r))
  <2>1. \A r \in Places(c) : Split(c, Held(s, r), Static(s, r))
    BY DEF Sound
  <2> QED
    BY <2>1
<1>3. \A m \in Mmus(c) : s.m_usedBuffer[m] = SharedOf(c, s, m) /\ s.m_usedBuffer[m] <= c.maxBuffer
  BY DEF Sound
<1> QED
  BY <1>1, <1>2, <1>3 DEF Sound

-------------------------------------------------------------------------------
(* Packets that enter and leave *)

\* Packets have sizes.
LEMMA SizesAreNumbers ==
  ASSUME NEW c \in Config, NEW size \in c.sizes
  PROVE  size \in PacketSize /\ size \in Nat \ {0}
<1>1. c.sizes \subseteq PacketSize
  BY OccamyConfiguration
<1> QED
  BY <1>1, QueueConfiguration

\* How the counters of the code read a sound state.
LEMMA Views ==
  ASSUME conf \in Config, NEW s \in SwitchType(conf), NEW d \in Device
  PROVE  /\ Mmu(d) = MmuOf(conf, d)
         /\ Mmu(d) \in Mmus(conf)
         /\ Subqueues(s.mq[d]) = 0 .. conf.useqCnt - 1
         /\ \A q \in 0 .. conf.useqCnt - 1 :
              /\ <<d, q>> \in Places(conf)
              /\ Bytes(s, d, q) = Held(s, <<d, q>>)
              /\ StaticBytes(s, d, q) = Static(s, <<d, q>>)
              /\ s.usedStaticBuffer[d][q] = Static(s, <<d, q>>)
<1>1. Mmu(d) = MmuOf(conf, d) /\ MmuOf(conf, d) \in Mmus(conf)
  BY DEF Mmu, MmuOf, Mmus
<1>2. Subqueues(s.mq[d]) = 0 .. conf.useqCnt - 1
  BY DEF Subqueues, SwitchType, SwitchQueue
<1>3. ASSUME NEW q \in 0 .. conf.useqCnt - 1
      PROVE  /\ <<d, q>> \in Places(conf)
             /\ Bytes(s, d, q) = Held(s, <<d, q>>)
             /\ StaticBytes(s, d, q) = Static(s, <<d, q>>)
             /\ s.usedStaticBuffer[d][q] = Static(s, <<d, q>>)
  BY <1>2 DEF Places, Bytes, StaticBytes, Held, Static
<1> QED
  BY <1>1, <1>2, <1>3

\* Steps that change neither queues nor counters.
LEMMA OtherFields ==
  ASSUME NEW c \in Config, NEW s, Sound(c, s), NEW t \in SwitchType(c),
         t.mq = s.mq, t.usedStaticBuffer = s.usedStaticBuffer,
         t.m_usedBuffer = s.m_usedBuffer
  PROVE  Sound(c, t)
BY NoQueue DEF Held, Static

\* Transmissions and head drops change one queue, the counters and the tokens, but
\* not what the turns of the head drops depend on.
SameTurn(s, t) ==
  t.generator = s.generator /\ t.last_head_drop = s.last_head_drop

\* A change of one static counter.
LEMMA CountersChanged ==
  ASSUME NEW Q, NEW w \in [Device -> [Q -> Int]], NEW d \in Device, NEW q \in Q,
         NEW k \in Int, NEW v, v = [w EXCEPT ![d][q] = k]
  PROVE  /\ v \in [Device -> [Q -> Int]]
         /\ v[d][q] = k
         /\ \A e \in Device, y \in Q : e # d \/ y # q => v[e][y] = w[e][y]
<1>1. [w[d] EXCEPT ![q] = k] \in [Q -> Int]
  OBVIOUS
<1>2. v = [w EXCEPT ![d] = [w[d] EXCEPT ![q] = k]]
  OBVIOUS
<1>3. v \in [Device -> [Q -> Int]] /\ v[d] = [w[d] EXCEPT ![q] = k]
  BY <1>1, <1>2
<1>4. \A e \in Device \ {d} : v[e] = w[e]
  BY <1>2
<1> QED
  BY <1>3, <1>4

\* The static counters when that of queue p becomes k.
Recounted(s, p, k) == [s.usedStaticBuffer EXCEPT ![p[1]][p[2]] = k]

\* What they read then.
LEMMA StaticChanged ==
  ASSUME NEW c, NEW s \in SwitchType(c), NEW p \in Places(c), NEW k \in Int, NEW u,
         u.usedStaticBuffer = Recounted(s, p, k)
  PROVE  /\ u.usedStaticBuffer \in [Device -> [0 .. c.useqCnt - 1 -> Int]]
         /\ Static(u, p) = k
         /\ \A x \in Places(c) \ {p} : Static(u, x) = Static(s, x)
<1> DEFINE Q == 0 .. c.useqCnt - 1
           w == s.usedStaticBuffer
           v == u.usedStaticBuffer
           d == p[1]
           q == p[2]
<1>1. w \in [Device -> [Q -> Int]] /\ d \in Device /\ q \in Q /\ v = [w EXCEPT ![d][q] = k]
  BY DEF SwitchType, Places, Recounted
<1>2. /\ v \in [Device -> [Q -> Int]]
      /\ v[d][q] = k
      /\ \A e \in Device, y \in Q : e # d \/ y # q => v[e][y] = w[e][y]
  <2> HIDE DEF Q, w, v, d, q
  <2> QED
    BY <1>1, CountersChanged
<1>3. \A x \in Places(c) \ {p} : x[1] \in Device /\ x[2] \in Q /\ (x[1] # d \/ x[2] # q)
  BY DEF Places
<1> QED
  BY <1>2, <1>3 DEF Static

\* DeleteUsed and AddUsed change what one MMU counts.
LEMMA UsedDeleted ==
  ASSUME NEW c, NEW s \in SwitchType(c), NEW d, Mmu(d) \in Mmus(c), NEW size \in Int
  PROVE  /\ DeleteUsed(s, d, size) \in SwitchType(c)
         /\ DeleteUsed(s, d, size).mq = s.mq
         /\ DeleteUsed(s, d, size).usedStaticBuffer = s.usedStaticBuffer
         /\ DeleteUsed(s, d, size).m_usedBuffer = [s.m_usedBuffer EXCEPT ![Mmu(d)] = @ - size]
         /\ DeleteUsed(s, d, size).remaining = s.remaining
         /\ DeleteUsed(s, d, size).token_num = s.token_num
         /\ SameTurn(s, DeleteUsed(s, d, size))
<1> DEFINE used == [s.m_usedBuffer EXCEPT ![Mmu(d)] = @ - size]
           t == [s EXCEPT !.m_usedBuffer = used]
<1>1. used \in [Mmus(c) -> Int]
  BY DEF SwitchType
<1>2. DeleteUsed(s, d, size) = t
  BY DEF SwitchType, DeleteUsed
<1> HIDE DEF used
<1>3. /\ t \in SwitchType(c)
      /\ t.mq = s.mq /\ t.usedStaticBuffer = s.usedStaticBuffer
      /\ t.m_usedBuffer = used
      /\ t.remaining = s.remaining /\ t.token_num = s.token_num /\ SameTurn(s, t)
  BY <1>1 DEF SwitchType, SameTurn
<1> HIDE DEF t
<1> QED
  BY <1>2, <1>3 DEF used

\* The other way round.
LEMMA UsedAdded ==
  ASSUME NEW c, NEW s \in SwitchType(c), NEW d, Mmu(d) \in Mmus(c), NEW size \in Int
  PROVE  /\ AddUsed(s, d, size) \in SwitchType(c)
         /\ AddUsed(s, d, size).mq = s.mq
         /\ AddUsed(s, d, size).usedStaticBuffer = s.usedStaticBuffer
         /\ AddUsed(s, d, size).m_usedBuffer = [s.m_usedBuffer EXCEPT ![Mmu(d)] = @ + size]
         /\ AddUsed(s, d, size).remaining = s.remaining
         /\ AddUsed(s, d, size).token_num = s.token_num
         /\ SameTurn(s, AddUsed(s, d, size))
<1> DEFINE used == [s.m_usedBuffer EXCEPT ![Mmu(d)] = @ + size]
           t == [s EXCEPT !.m_usedBuffer = used]
<1>1. used \in [Mmus(c) -> Int]
  BY DEF SwitchType
<1>2. AddUsed(s, d, size) = t
  BY DEF SwitchType, AddUsed
<1> HIDE DEF used
<1>3. /\ t \in SwitchType(c)
      /\ t.mq = s.mq /\ t.usedStaticBuffer = s.usedStaticBuffer
      /\ t.m_usedBuffer = used
      /\ t.remaining = s.remaining /\ t.token_num = s.token_num /\ SameTurn(s, t)
  BY <1>1 DEF SwitchType, SameTurn
<1> HIDE DEF t
<1> QED
  BY <1>2, <1>3 DEF used

\* A packet of this size has left the head of queue p, whoever is to count it.
Left(c, s, p, t, size) ==
  /\ t \in SwitchType(c)
  /\ size \in c.sizes
  /\ Held(t, p) \in Nat
  /\ Held(t, p) = Held(s, p) - size
  /\ \A r \in Places(c) \ {p} : Held(t, r) = Held(s, r)

\* That is what taking the tail of the queue does.
LEMMA Leaves ==
  ASSUME NEW c \in Config, NEW s \in SwitchType(c), NEW p \in Places(c), NEW mq \in SwitchQueue(c),
         s.mq[p[1]].m_queues[p[2]] # <<>>,
         mq.m_queues = [s.mq[p[1]].m_queues EXCEPT ![p[2]] = Tail(@)]
  PROVE  Left(c, s, p, [s EXCEPT !.mq[p[1]] = mq], Head(s.mq[p[1]].m_queues[p[2]]))
<1> DEFINE t == [s EXCEPT !.mq[p[1]] = mq]
           queue == s.mq[p[1]].m_queues[p[2]]
<1>1. /\ p[1] \in Device /\ p[2] \in 0 .. c.useqCnt - 1
      /\ s.mq[p[1]] \in SwitchQueue(c)
      /\ queue \in Seq(c.sizes) /\ queue # <<>> /\ Held(s, p) \in Nat
  BY PlaceType
<1>2. c.sizes \subseteq Nat \ {0}
  BY OccamyConfiguration, QueueConfiguration
<1>3. t \in SwitchType(c) /\ t.mq = [s.mq EXCEPT ![p[1]] = mq]
  BY <1>1 DEF SwitchType
<1>4. t.mq[p[1]].m_queues[p[2]] = Tail(queue)
  BY <1>1, <1>3 DEF SwitchType, SwitchQueue
<1> HIDE DEF queue
<1>5. /\ Head(queue) \in c.sizes
      /\ NBytes(Tail(queue)) \in Nat
      /\ NBytes(queue) = NBytes(Tail(queue)) + Head(queue)
  BY <1>1, <1>2, LeftBytes
<1>6. Held(t, p) = NBytes(Tail(queue)) /\ Held(s, p) = NBytes(queue)
  BY <1>4 DEF Held, queue
<1>7. Held(t, p) \in Nat /\ Held(t, p) = Held(s, p) - Head(queue)
  BY <1>2, <1>5, <1>6
<1>8. ASSUME NEW r \in Places(c) \ {p}
      PROVE  Held(t, r) = Held(s, r)
  <2>1. r[1] \in Device /\ r[2] \in 0 .. c.useqCnt - 1 /\ (r[1] # p[1] \/ r[2] # p[2])
    BY DEF Places
  <2>2. CASE r[1] # p[1]
    <3>1. t.mq[r[1]] = s.mq[r[1]]
      BY <1>3, <2>1, <2>2 DEF SwitchType
    <3> QED
      BY <3>1 DEF Held
  <2>3. CASE r[1] = p[1]
    <3>1. t.mq[r[1]] = mq
      BY <1>1, <1>3, <2>3 DEF SwitchType
    <3>2. mq.m_queues[r[2]] = s.mq[p[1]].m_queues[r[2]]
      BY <1>1, <2>1, <2>3 DEF SwitchQueue
    <3> QED
      BY <2>3, <3>1, <3>2 DEF Held
  <2> QED
    BY <2>2, <2>3
<1> HIDE DEF t
<1>9. Left(c, s, p, t, Head(queue))
  BY <1>3, <1>5, <1>7, <1>8 DEF Left
<1> QED
  BY <1>9 DEF t, queue

\* It goes back to the memory that is shared, if all static bytes stay covered.
LEMMA LeavesShared ==
  ASSUME NEW c \in Config, StaticSizes, NEW s, Sound(c, s), NEW p \in Places(c),
         NEW t \in SwitchType(c), NEW u \in SwitchType(c), NEW size \in c.sizes,
         Held(t, p) = Held(s, p) - size,
         \A r \in Places(c) \ {p} : Held(t, r) = Held(s, r),
         t.usedStaticBuffer = s.usedStaticBuffer,
         t.m_usedBuffer = s.m_usedBuffer,
         Static(s, p) <= Held(s, p) - size,
         u.mq = t.mq, u.usedStaticBuffer = t.usedStaticBuffer,
         u.m_usedBuffer = [t.m_usedBuffer EXCEPT ![MmuOf(c, p[1])] = @ - size]
  PROVE  Sound(c, u)
<1>1. SplitBasis(c) /\ size \in Nat
  BY SplitsAreSound, OccamyConfiguration, QueueConfiguration
<1>2. Held(s, p) \in Nat /\ Static(s, p) \in Int /\ MmuOf(c, p[1]) \in Mmus(c)
  BY PlaceType DEF Sound
<1>3. \A r \in Places(c) : Held(u, r) = Held(t, r) /\ Static(u, r) = Static(s, r)
  BY DEF Held, Static
<1>4. Split(c, Held(s, p) - size, Static(s, p))
  <2>1. Split(c, Held(s, p), Static(s, p))
    BY DEF Sound
  <2> QED
    BY <1>1, <1>2, <2>1, TakeShared
<1>5. Split(c, Held(u, p), Static(u, p))
  BY <1>3, <1>4
<1>6. \A r \in Places(c) \ {p} : Held(u, r) = Held(s, r) /\ Static(u, r) = Static(s, r)
  BY <1>3
<1>7. \A m \in Mmus(c) : s.m_usedBuffer[m] \in 0 .. c.maxBuffer /\ c.maxBuffer \in Nat
  BY UsedCovers, OccamyConfiguration
<1>8. s.m_usedBuffer \in [Mmus(c) -> Int]
  BY DEF Sound, SwitchType
<1>9. ASSUME NEW m \in Mmus(c)
      PROVE  /\ u.m_usedBuffer[m] =
                  IF m = MmuOf(c, p[1])
                  THEN s.m_usedBuffer[m] + (Held(u, p) - Static(u, p)) - (Held(s, p) - Static(s, p))
                  ELSE s.m_usedBuffer[m]
             /\ u.m_usedBuffer[m] <= c.maxBuffer
  <2>1. u.m_usedBuffer[m] = IF m = MmuOf(c, p[1]) THEN s.m_usedBuffer[m] - size
                            ELSE s.m_usedBuffer[m]
    BY <1>2, <1>8
  <2>2. Held(u, p) - Static(u, p) = Held(s, p) - size - Static(s, p)
    BY <1>3
  <2> QED
    BY <1>1, <1>2, <1>7, <2>1, <2>2
<1> QED
  BY <1>5, <1>6, <1>9, OneQueue

\* It goes back to static memory otherwise.
LEMMA LeavesStatic ==
  ASSUME NEW c \in Config, StaticSizes, NEW s, Sound(c, s), NEW p \in Places(c),
         NEW u \in SwitchType(c), NEW size \in c.sizes,
         Held(u, p) = Held(s, p) - size, Held(u, p) \in Nat,
         \A r \in Places(c) \ {p} : Held(u, r) = Held(s, r) /\ Static(u, r) = Static(s, r),
         u.m_usedBuffer = s.m_usedBuffer,
         Static(s, p) > Held(s, p) - size,
         Static(u, p) = Static(s, p) - size
  PROVE  Sound(c, u)
<1>1. SplitBasis(c) /\ size \in Nat
  BY SplitsAreSound, OccamyConfiguration, QueueConfiguration
<1>2. /\ Held(s, p) \in Nat /\ Static(s, p) \in Int /\ MmuOf(c, p[1]) \in Mmus(c)
  BY PlaceType DEF Sound
<1>3. /\ Held(s, p) = Static(s, p)
      /\ Split(c, Held(s, p) - size, Static(s, p) - size)
  <2>1. Split(c, Held(s, p), Static(s, p))
    BY DEF Sound
  <2> QED
    BY <1>1, <1>2, <2>1, TakeStatic
<1>4. Split(c, Held(u, p), Static(u, p))
  BY <1>3
<1>5. \A m \in Mmus(c) : s.m_usedBuffer[m] \in 0 .. c.maxBuffer /\ c.maxBuffer \in Nat
  BY UsedCovers, OccamyConfiguration
<1>6. ASSUME NEW m \in Mmus(c)
       PROVE  /\ u.m_usedBuffer[m] =
                   IF m = MmuOf(c, p[1])
                   THEN s.m_usedBuffer[m] + (Held(u, p) - Static(u, p)) - (Held(s, p) - Static(s, p))
                   ELSE s.m_usedBuffer[m]
              /\ u.m_usedBuffer[m] <= c.maxBuffer
  <2>1. u.m_usedBuffer[m] = s.m_usedBuffer[m]
    OBVIOUS
  <2>2. (Held(u, p) - Static(u, p)) - (Held(s, p) - Static(s, p)) = 0
    BY <1>1, <1>2, <1>3
  <2>3. Held(u, p) - Static(u, p) = 0 /\ Held(s, p) - Static(s, p) = 0
    BY <1>1, <1>2, <1>3
  <2> QED
    BY <1>5, <2>1, <2>3
<1> QED
  BY <1>4, <1>6, OneQueue

\* A packet enters queue p: what changes, whoever is to count it.
LEMMA Enters ==
  ASSUME NEW c \in Config, NEW s \in SwitchType(c), NEW p \in Places(c), NEW size \in c.sizes
  PROVE  LET t == [s EXCEPT !.mq[p[1]] = EnqueueTos(@, p[2], size)]
         IN  /\ t \in SwitchType(c)
             /\ Held(t, p) = Held(s, p) + size
             /\ \A r \in Places(c) \ {p} : Held(t, r) = Held(s, r)
<1> DEFINE queue == s.mq[p[1]].m_queues[p[2]]
           longer == Append(queue, size)
           queues == [s.mq[p[1]].m_queues EXCEPT ![p[2]] = longer]
           mq == [s.mq[p[1]] EXCEPT !.m_queues = queues]
           t == [s EXCEPT !.mq[p[1]] = mq]
<1>1. /\ p[1] \in Device /\ p[2] \in 0 .. c.useqCnt - 1
      /\ s.mq[p[1]] \in SwitchQueue(c) /\ queue \in Seq(c.sizes)
  BY PlaceType
<1>2. c.sizes \subseteq Nat \ {0}
  BY OccamyConfiguration, QueueConfiguration
<1>3. longer \in Seq(c.sizes) /\ NBytes(longer) = NBytes(queue) + size
  <2> HIDE DEF queue
  <2> QED
    BY <1>1, <1>2, AppendedBytes
<1>4. EnqueueTos(s.mq[p[1]], p[2], size) = mq
  BY <1>1 DEF EnqueueTos, SwitchQueue
<1>5. [s EXCEPT !.mq[p[1]] = EnqueueTos(@, p[2], size)] = t
  BY <1>1, <1>4 DEF SwitchType
<1>6. queues \in [0 .. c.useqCnt - 1 -> Seq(c.sizes)]
  <2> HIDE DEF longer
  <2> QED
    BY <1>1, <1>3 DEF SwitchQueue
<1>7. mq \in SwitchQueue(c) /\ mq.m_queues = queues
  <2> HIDE DEF queues
  <2> QED
    BY <1>1, <1>6 DEF SwitchQueue
<1>8. t \in SwitchType(c) /\ t.mq = [s.mq EXCEPT ![p[1]] = mq]
  <2> HIDE DEF mq
  <2> QED
    BY <1>1, <1>7 DEF SwitchType
<1>9. t.mq[p[1]] = mq
  <2> HIDE DEF mq, t
  <2> QED
    BY <1>1, <1>8 DEF SwitchType
<1>10. Held(t, p) = Held(s, p) + size
  <2>1. queues[p[2]] = longer
    <3> HIDE DEF longer
    <3> QED
      BY <1>1 DEF SwitchQueue
  <2>2. t.mq[p[1]].m_queues[p[2]] = longer
    <3> HIDE DEF longer, queues, mq, t
    <3> QED
      BY <1>7, <1>9, <2>1
  <2>3. NBytes(t.mq[p[1]].m_queues[p[2]]) = NBytes(queue) + size
    <3> HIDE DEF longer, t
    <3> QED
      BY <1>3, <2>2
  <2> HIDE DEF t
  <2> QED
    BY <2>3 DEF Held
<1>11. ASSUME NEW r \in Places(c) \ {p}
       PROVE  Held(t, r) = Held(s, r)
  <2>1. r[1] \in Device /\ r[2] \in 0 .. c.useqCnt - 1 /\ (r[1] # p[1] \/ r[2] # p[2])
    BY DEF Places
  <2>2. CASE r[1] # p[1]
    <3>1. t.mq[r[1]] = s.mq[r[1]]
      <4> HIDE DEF mq
      <4> QED
        BY <1>8, <2>1, <2>2 DEF SwitchType
    <3> HIDE DEF t
    <3> QED
      BY <3>1 DEF Held
  <2>3. CASE r[1] = p[1]
    <3>1. queues[r[2]] = s.mq[p[1]].m_queues[r[2]]
      <4> HIDE DEF longer
      <4> QED
        BY <1>1, <2>1, <2>3 DEF SwitchQueue
    <3>2. t.mq[r[1]].m_queues[r[2]] = s.mq[r[1]].m_queues[r[2]]
      <4> HIDE DEF queues, mq, t
      <4> QED
        BY <1>7, <1>9, <2>3, <3>1
    <3> HIDE DEF t
    <3> QED
      BY <3>2 DEF Held
  <2> QED
    BY <2>2, <2>3
<1> HIDE DEF t
<1>12. /\ t \in SwitchType(c) /\ Held(t, p) = Held(s, p) + size
       /\ \A r \in Places(c) \ {p} : Held(t, r) = Held(s, r)
  BY <1>8, <1>10, <1>11
<1> QED
  BY <1>5, <1>12

\* It counts as shared, if it does not fit static memory and the MMU has room.
LEMMA EntersShared ==
  ASSUME NEW c \in Config, StaticSizes, NEW s, Sound(c, s), NEW p \in Places(c),
         NEW u \in SwitchType(c), NEW size \in c.sizes,
         Held(u, p) = Held(s, p) + size,
         \A r \in Places(c) \ {p} : Held(u, r) = Held(s, r),
         Static(s, p) + size > c.staticBuffer,
         s.m_usedBuffer[MmuOf(c, p[1])] + size <= c.maxBuffer,
         u.usedStaticBuffer = s.usedStaticBuffer,
         u.m_usedBuffer = [s.m_usedBuffer EXCEPT ![MmuOf(c, p[1])] = @ + size]
  PROVE  Sound(c, u)
<1>1. SplitBasis(c) /\ size \in Nat
  BY SplitsAreSound, OccamyConfiguration, QueueConfiguration
<1>2. Held(s, p) \in Nat /\ Static(s, p) \in Int /\ MmuOf(c, p[1]) \in Mmus(c)
  BY PlaceType DEF Sound
<1>3. \A r \in Places(c) : Static(u, r) = Static(s, r)
  BY DEF Static
<1>4. Split(c, Held(s, p) + size, Static(s, p))
  <2>1. Split(c, Held(s, p), Static(s, p))
    BY DEF Sound
  <2> QED
    BY <1>1, <1>2, <2>1, PutShared
<1>5. Split(c, Held(u, p), Static(u, p))
  BY <1>3, <1>4
<1>6. \A r \in Places(c) \ {p} : Held(u, r) = Held(s, r) /\ Static(u, r) = Static(s, r)
  BY <1>3
<1>7. \A m \in Mmus(c) : s.m_usedBuffer[m] \in 0 .. c.maxBuffer /\ c.maxBuffer \in Nat
  BY UsedCovers, OccamyConfiguration
<1>8. s.m_usedBuffer \in [Mmus(c) -> Int]
  BY DEF Sound, SwitchType
<1>9. ASSUME NEW m \in Mmus(c)
      PROVE  /\ u.m_usedBuffer[m] =
                  IF m = MmuOf(c, p[1])
                  THEN s.m_usedBuffer[m] + (Held(u, p) - Static(u, p)) - (Held(s, p) - Static(s, p))
                  ELSE s.m_usedBuffer[m]
             /\ u.m_usedBuffer[m] <= c.maxBuffer
  <2>1. u.m_usedBuffer[m] = IF m = MmuOf(c, p[1]) THEN s.m_usedBuffer[m] + size
                            ELSE s.m_usedBuffer[m]
    BY <1>2, <1>8
  <2>2. Held(u, p) = Held(s, p) + size /\ Static(u, p) = Static(s, p)
    BY <1>3
  <2> QED
    BY <1>1, <1>2, <1>7, <2>1, <2>2
<1> QED
  BY <1>5, <1>6, <1>9, OneQueue

\* It counts as static, if it fits.
LEMMA EntersStatic ==
  ASSUME NEW c \in Config, StaticSizes, NEW s, Sound(c, s), NEW p \in Places(c),
         NEW u \in SwitchType(c), NEW size \in c.sizes,
         Held(u, p) = Held(s, p) + size,
         \A r \in Places(c) \ {p} : Held(u, r) = Held(s, r) /\ Static(u, r) = Static(s, r),
         Static(s, p) + size <= c.staticBuffer,
         u.m_usedBuffer = s.m_usedBuffer,
         Static(u, p) = Static(s, p) + size
  PROVE  Sound(c, u)
<1>1. SplitBasis(c) /\ size \in Nat
  BY SplitsAreSound, OccamyConfiguration, QueueConfiguration
<1>2. Held(s, p) \in Nat /\ Static(s, p) \in Int
  BY PlaceType DEF Sound
<1>3. Split(c, Held(u, p), Static(u, p))
  <2>1. Split(c, Held(s, p), Static(s, p))
    BY DEF Sound
  <2>2. Split(c, Held(s, p) + size, Static(s, p) + size)
    BY <1>1, <1>2, <2>1, PutStatic
  <2> QED
    BY <2>2
<1>4. \A m \in Mmus(c) : s.m_usedBuffer[m] \in 0 .. c.maxBuffer /\ c.maxBuffer \in Nat
  BY UsedCovers, OccamyConfiguration
<1>5. ASSUME NEW m \in Mmus(c)
      PROVE  /\ u.m_usedBuffer[m] =
                  IF m = MmuOf(c, p[1])
                  THEN s.m_usedBuffer[m] + (Held(u, p) - Static(u, p)) - (Held(s, p) - Static(s, p))
                  ELSE s.m_usedBuffer[m]
             /\ u.m_usedBuffer[m] <= c.maxBuffer
  <2>1. u.m_usedBuffer[m] = s.m_usedBuffer[m]
    OBVIOUS
  <2>2. (Held(u, p) - Static(u, p)) = (Held(s, p) - Static(s, p))
    BY <1>1, <1>2
  <2> DEFINE shared == Held(u, p) - Static(u, p)
  <2>3. shared \in Int
    BY <1>1, <1>2
  <2> QED
    BY <1>4, <2>1, <2>2, <2>3
<1> QED
  BY <1>3, <1>5, OneQueue

-------------------------------------------------------------------------------
(* Transmission *)

\* Tokens are counted, and every packet pays.
PaysTokens(c) == c.enqueueMethod = "MULTILAYER_DT" /\ c.staticBuffer = 0

\* Device d has transmitted a packet, or found none.
Transmitted(c, s, d, t) ==
  /\ Sound(c, t)
  /\ SameTurn(s, t)
  /\ \/ /\ t.remaining = [s.remaining EXCEPT ![d] = Idle]
        /\ t.token_num = s.token_num
     \/ \E size \in PacketSize :
          /\ t.remaining = [s.remaining EXCEPT ![d] = Duration[size]]
          /\ PaysTokens(c) => t.token_num = s.token_num - size

\* The durations of transmissions are numbers.
LEMMA DurationsAreNumbers ==
  ASSUME NEW size \in PacketSize
  PROVE  Duration[size] \in Nat
BY SwitchEarnsTokens DEF Budget!BudgetConfiguration

\* TokenDelete leaves the memory alone.
LEMMA TokensPaid ==
  ASSUME conf \in Config, NEW s, Sound(conf, s), NEW size \in Int
  PROVE  /\ Sound(conf, TokenDelete(s, size))
         /\ SameTurn(s, TokenDelete(s, size))
         /\ TokenDelete(s, size).remaining = s.remaining
         /\ TokenDelete(s, size).m_usedBuffer = s.m_usedBuffer
         /\ TokenDelete(s, size).mq = s.mq
         /\ TokenDelete(s, size).usedStaticBuffer = s.usedStaticBuffer
         /\ Counting => TokenDelete(s, size).token_num = s.token_num - size
<1> DEFINE t == TokenDelete(s, size)
<1>1. s \in SwitchType(conf) /\ s.token_num \in Int
  BY DEF Sound, SwitchType
<1>2. t = s \/ t = [s EXCEPT !.token_num = s.token_num - size]
  BY <1>1 DEF TokenDelete, SwitchType
<1>3. s.token_num - size \in Int
  BY <1>1
<1>4. /\ t \in SwitchType(conf) /\ t.mq = s.mq /\ t.usedStaticBuffer = s.usedStaticBuffer
      /\ t.m_usedBuffer = s.m_usedBuffer /\ t.remaining = s.remaining
      /\ SameTurn(s, t)
  <2> HIDE DEF t
  <2> QED
    BY <1>1, <1>2, <1>3 DEF SwitchType, SameTurn
<1>5. Sound(conf, t)
  <2> HIDE DEF t
  <2> QED
    BY <1>4, OtherFields
<1>6. Counting => t.token_num = s.token_num - size
  BY <1>1 DEF TokenDelete, Counting, SwitchType
<1> HIDE DEF t
<1>7. /\ Sound(conf, t) /\ SameTurn(s, t) /\ t.remaining = s.remaining
      /\ t.m_usedBuffer = s.m_usedBuffer /\ t.mq = s.mq
      /\ t.usedStaticBuffer = s.usedStaticBuffer
      /\ Counting => t.token_num = s.token_num - size
  BY <1>4, <1>5, <1>6
<1> QED
  BY <1>7 DEF t

\* A READY device that finds a packet settles with the memory it leaves, for
\* shared memory or static, as it entered.
LEMMA TransmitServes ==
  ASSUME conf \in Config, StaticSizes, NEW s, Sound(conf, s), NEW d \in Device
  PROVE  Transmitted(conf, s, d, Transmit(s, d))
<1> DEFINE r == Dequeue(s.mq[d])
           q == r.from
           size == Head(s.mq[d].m_queues[q])
<1>1. s \in SwitchType(conf) /\ s.mq[d] \in SwitchQueue(conf)
  BY DEF Sound, SwitchType
<1>2. Served(conf, s.mq[d], r)
  BY <1>1, DequeueServes
<1>3. CASE q = None
  <2> DEFINE t == [s EXCEPT !.mq[d] = r.queue, !.remaining[d] = Idle]
  <2>1. Transmit(s, d) = t
    BY <1>3 DEF Transmit
  <2>2. r.queue \in SwitchQueue(conf) /\ r.queue.m_queues = s.mq[d].m_queues
    BY <1>2, <1>3 DEF Served, None
  <2> HIDE DEF r
  <2>3. /\ t \in SwitchType(conf)
        /\ t.mq = [s.mq EXCEPT ![d] = r.queue]
        /\ t.usedStaticBuffer = s.usedStaticBuffer
        /\ t.m_usedBuffer = s.m_usedBuffer
        /\ t.remaining = [s.remaining EXCEPT ![d] = Idle]
        /\ t.token_num = s.token_num
        /\ SameTurn(s, t)
    BY <1>1, <2>2 DEF SwitchType, SameTurn
  <2> HIDE DEF t
  <2>4. \A p \in Places(conf) : Held(t, p) = Held(s, p) /\ Static(t, p) = Static(s, p)
    <3> SUFFICES ASSUME NEW p \in Places(conf)
                 PROVE  Held(t, p) = Held(s, p) /\ Static(t, p) = Static(s, p)
      OBVIOUS
    <3>1. t.mq[p[1]].m_queues = s.mq[p[1]].m_queues
      BY <1>1, <2>2, <2>3 DEF SwitchType, Places
    <3> QED
      BY <2>3, <3>1 DEF Held, Static
  <2>5. Sound(conf, t)
    BY <2>3, <2>4, NoQueue
  <2> QED
    BY <2>1, <2>3, <2>5 DEF Transmitted
<1>4. CASE q # None
  <2> DEFINE p == <<d, q>>
             t == [s EXCEPT !.mq[d] = r.queue]
  <2>1. /\ r.queue \in SwitchQueue(conf)
        /\ q \in 0 .. conf.useqCnt - 1
        /\ s.mq[d].m_queues[q] # <<>>
        /\ r.queue.m_queues = [s.mq[d].m_queues EXCEPT ![q] = Tail(@)]
    BY <1>2, <1>4 DEF Served
  <2>2. p \in Places(conf) /\ p[1] = d /\ p[2] = q
    BY <2>1 DEF Places
  <2> HIDE DEF q, r
  <2>3. /\ t \in SwitchType(conf)
        /\ size \in conf.sizes
        /\ Held(t, p) \in Nat
        /\ Held(t, p) = Held(s, p) - size
        /\ \A x \in Places(conf) \ {p} : Held(t, x) = Held(s, x)
    <3>1. /\ s.mq[p[1]].m_queues[p[2]] # <<>>
          /\ r.queue.m_queues = [s.mq[p[1]].m_queues EXCEPT ![p[2]] = Tail(@)]
          /\ t = [s EXCEPT !.mq[p[1]] = r.queue]
          /\ size = Head(s.mq[p[1]].m_queues[p[2]])
      BY <2>1, <2>2
    <3> HIDE DEF p, t, size
    <3>2. Left(conf, s, p, t, size)
      BY <1>1, <2>1, <2>2, <3>1, Leaves
    <3> QED
      BY <3>2 DEF Left
  <2>4. /\ t.usedStaticBuffer = s.usedStaticBuffer /\ t.m_usedBuffer = s.m_usedBuffer
        /\ t.remaining = s.remaining /\ t.token_num = s.token_num /\ SameTurn(s, t)
    BY <1>1 DEF SwitchType, SameTurn
  <2>5. size \in Nat \ {0} /\ size \in PacketSize
    <3> HIDE DEF size
    <3> QED
      BY <2>3, OccamyConfiguration, QueueConfiguration
  <2>6. Transmit(s, d) = [Settle(t, d, q, size) EXCEPT !.remaining[d] = Duration[size]]
    BY <1>4 DEF Transmit, q, r
  <2>7. /\ Bytes(t, d, q) = Held(t, p)
        /\ t.usedStaticBuffer[d][q] = Static(s, p)
        /\ Mmu(d) = MmuOf(conf, p[1])
    <3>1. Bytes(t, d, q) = Held(t, p) /\ t.usedStaticBuffer[d][q] = Static(t, p)
      <4> HIDE DEF t
      <4> QED
        BY <2>1, <2>3, Views
    <3>2. Static(t, p) = Static(s, p)
      BY <2>4 DEF Static
    <3>3. Mmu(d) = MmuOf(conf, d)
      BY <1>1, Views
    <3> QED
      BY <2>2, <3>1, <3>2, <3>3
  <2> HIDE DEF t, size
  <2> DEFINE u == Settle(t, d, q, size)
  <2>8. /\ Sound(conf, u) /\ SameTurn(s, u) /\ u.remaining = s.remaining
        /\ PaysTokens(conf) => u.token_num = s.token_num - size
    <3>1. CASE FromStatic(t, d, q)
      <4> DEFINE k == Static(s, p) - size
                 counters == [t.usedStaticBuffer EXCEPT ![d][q] = k]
      <4>1. k \in Int
        BY <2>2, <2>5, <1>1, PlaceType
      <4>2. u = [t EXCEPT !.usedStaticBuffer = counters]
        <5>1. t.usedStaticBuffer[d][q] - size = k
          BY <2>7
        <5>2. u = [t EXCEPT !.usedStaticBuffer[d][q] = @ - size]
          BY <3>1 DEF Settle
        <5>3. u = [t EXCEPT !.usedStaticBuffer =
                     [t.usedStaticBuffer EXCEPT ![d][q] = t.usedStaticBuffer[d][q] - size]]
          BY <2>3, <5>2 DEF SwitchType
        <5> HIDE DEF k, u
        <5> QED
          BY <5>1, <5>3
      <4>3. Static(s, p) > Held(s, p) - size
        BY <2>3, <2>7, <3>1 DEF FromStatic
      <4>4. counters \in [Device -> [0 .. conf.useqCnt - 1 -> Int]]
        <5>1. t.usedStaticBuffer \in [Device -> [0 .. conf.useqCnt - 1 -> Int]]
          BY <2>3 DEF SwitchType
        <5> HIDE DEF k
        <5> QED
          BY <2>1, <4>1, <5>1, CountersChanged
      <4>5. /\ u \in SwitchType(conf)
            /\ u.mq = t.mq /\ u.m_usedBuffer = t.m_usedBuffer
            /\ u.usedStaticBuffer = counters
            /\ u.remaining = t.remaining /\ SameTurn(t, u)
        <5> HIDE DEF counters, u
        <5> QED
          BY <2>3, <4>2, <4>4 DEF SwitchType, SameTurn
      <4>6. Sound(conf, u)
        <5> HIDE DEF u
        <5>1. /\ Static(u, p) = k
              /\ \A x \in Places(conf) \ {p} : Static(u, x) = Static(t, x)
          <6>1. u.usedStaticBuffer = Recounted(t, p, k)
            BY <2>2, <4>5 DEF Recounted
          <6> HIDE DEF p, k
          <6> QED
            BY <2>2, <2>3, <4>1, <6>1, StaticChanged
        <5>2. \A x \in Places(conf) : Held(u, x) = Held(t, x) /\ Static(t, x) = Static(s, x)
          BY <2>4, <4>5 DEF Held, Static
        <5> HIDE DEF p
        <5> QED
          BY <2>2, <2>3, <2>4, <4>3, <4>5, <5>1, <5>2, LeavesStatic
      <4>7. ~PaysTokens(conf)
        <5>1. Static(s, p) <= conf.staticBuffer
          <6>1. Split(conf, Held(s, p), Static(s, p)) /\ conf.staticBuffer \in Nat
            BY <2>2, OccamyConfiguration DEF Sound
          <6> QED
            BY <6>1 DEF Split
        <5>2. Held(s, p) - size >= 0 /\ Static(s, p) \in Int
          <6> HIDE DEF p
          <6> QED
            BY <1>1, <2>2, <2>3, PlaceType
        <5>3. Held(s, p) - size \in Nat
          BY <2>3
        <5> HIDE DEF p
        <5> QED
          BY <4>3, <5>1, <5>2, <5>3, OccamyConfiguration DEF PaysTokens
      <4> HIDE DEF u
      <4> QED
        BY <2>4, <4>5, <4>6, <4>7 DEF SameTurn
    <3>2. CASE ~FromStatic(t, d, q)
      <4> DEFINE v == DeleteUsed(t, d, size)
      <4>1. u = TokenDelete(v, size)
        BY <3>2 DEF Settle
      <4>2. Static(s, p) <= Held(s, p) - size
        <5>1. ~ (Static(s, p) > Held(t, p))
          BY <2>7, <3>2 DEF FromStatic
        <5>2. Static(s, p) \in Int /\ Held(t, p) \in Int
          <6> HIDE DEF p
          <6> QED
            BY <1>1, <2>2, <2>3, PlaceType
        <5> QED
          BY <2>3, <5>1, <5>2
      <4>3. t.m_usedBuffer \in [Mmus(conf) -> Int] /\ size \in Int /\ Mmu(d) \in Mmus(conf)
        BY <2>2, <2>3, <2>5, Views DEF SwitchType
      <4>4. /\ v \in SwitchType(conf)
            /\ v.mq = t.mq /\ v.usedStaticBuffer = t.usedStaticBuffer
            /\ v.m_usedBuffer = [t.m_usedBuffer EXCEPT ![MmuOf(conf, p[1])] = @ - size]
            /\ v.remaining = t.remaining /\ v.token_num = t.token_num /\ SameTurn(t, v)
        <5>1. /\ v \in SwitchType(conf)
              /\ v.mq = t.mq /\ v.usedStaticBuffer = t.usedStaticBuffer
              /\ v.m_usedBuffer = [t.m_usedBuffer EXCEPT ![Mmu(d)] = @ - size]
              /\ v.remaining = t.remaining /\ v.token_num = t.token_num /\ SameTurn(t, v)
          BY <2>3, <4>3, UsedDeleted
        <5> HIDE DEF v, p
        <5> QED
          BY <2>7, <5>1
      <4> HIDE DEF v
      <4>5. Sound(conf, v)
        <5> HIDE DEF p
        <5> QED
          BY <2>2, <2>3, <2>4, <4>2, <4>4, LeavesShared
      <4>6. /\ Sound(conf, u) /\ SameTurn(v, u) /\ u.remaining = v.remaining
            /\ Counting => u.token_num = v.token_num - size
        <5> HIDE DEF u
        <5> QED
          BY <4>1, <4>3, <4>5, TokensPaid
      <4> HIDE DEF u
      <4> QED
        BY <2>4, <4>4, <4>6 DEF SameTurn, PaysTokens, Counting
    <3> QED
      BY <3>1, <3>2
  <2> HIDE DEF u
  <2> DEFINE x == [u EXCEPT !.remaining[d] = Duration[size]]
  <2>9. Duration[size] \in Nat
    BY <2>5, DurationsAreNumbers
  <2>10. /\ x \in SwitchType(conf)
         /\ x.mq = u.mq /\ x.usedStaticBuffer = u.usedStaticBuffer
         /\ x.m_usedBuffer = u.m_usedBuffer /\ x.token_num = u.token_num /\ SameTurn(u, x)
         /\ x.remaining = [u.remaining EXCEPT ![d] = Duration[size]]
    BY <2>8, <2>9 DEF Sound, SwitchType, SameTurn
  <2>11. Sound(conf, x)
    <3> HIDE DEF x
    <3> QED
      BY <2>8, <2>10, OtherFields
  <2>12. Transmit(s, d) = x
    BY <2>6 DEF u
  <2>13. Transmitted(conf, s, d, x)
    <3> HIDE DEF x
    <3> QED
      BY <2>5, <2>8, <2>10, <2>11 DEF Transmitted, SameTurn
  <2> QED
    BY <2>12, <2>13
<1> QED
  BY <1>3, <1>4

\* A packet has been stored in a queue of device d, which has transmitted one if it
\* was READY.
Stored(c, s, d, t) ==
  /\ Sound(c, t)
  /\ SameTurn(s, t)
  /\ \/ t.remaining = s.remaining /\ t.token_num = s.token_num
     \/ /\ s.remaining[d] = Idle
        /\ \E size \in PacketSize :
             /\ t.remaining = [s.remaining EXCEPT ![d] = Duration[size]]
             /\ PaysTokens(c) => t.token_num = s.token_num - size

\* Once the packet is in its queue and counted, EnqueueAndSend keeps the switch sound.
LEMMA SentIfReady ==
  ASSUME conf \in Config, StaticSizes, NEW s \in SwitchType(conf), NEW d \in Device,
         NEW e, Sound(conf, e), SameTurn(s, e), e.remaining = s.remaining,
         e.token_num = s.token_num
  PROVE  Stored(conf, s, d, IF e.remaining[d] = Idle THEN Transmit(e, d) ELSE e)
<1>1. CASE e.remaining[d] # Idle
  BY <1>1 DEF Stored
<1>2. CASE e.remaining[d] = Idle
  <2>1. Transmitted(conf, e, d, Transmit(e, d))
    BY TransmitServes
  <2> DEFINE t == Transmit(e, d)
  <2> HIDE DEF t
  <2>2. /\ Sound(conf, t) /\ SameTurn(s, t)
        /\ \/ t.remaining = [s.remaining EXCEPT ![d] = Idle] /\ t.token_num = s.token_num
           \/ \E size \in PacketSize :
                /\ t.remaining = [s.remaining EXCEPT ![d] = Duration[size]]
                /\ PaysTokens(conf) => t.token_num = s.token_num - size
    BY <2>1 DEF Transmitted, SameTurn, t
  <2>3. [s.remaining EXCEPT ![d] = Idle] = s.remaining
    BY <1>2 DEF SwitchType
  <2>4. Stored(conf, s, d, t)
    BY <1>2, <2>2, <2>3 DEF Stored
  <2> QED
    BY <1>2, <2>4 DEF t
<1> QED
  BY <1>1, <1>2

\* A packet that has room in its MMU, and none in its queue's static memory.
LEMMA StoreShared ==
  ASSUME conf \in Config, StaticSizes, NEW s, Sound(conf, s), NEW d \in Device,
         NEW q \in 0 .. conf.useqCnt - 1, NEW size \in conf.sizes,
         StaticBytes(s, d, q) + size > conf.staticBuffer,
         Fits(s, d, size)
  PROVE  Stored(conf, s, d, EnqueueAndSend(AddUsed(s, d, size), d, q, size))
<1> DEFINE p == <<d, q>>
           v == AddUsed(s, d, size)
           e == [v EXCEPT !.mq[p[1]] = EnqueueTos(@, p[2], size)]
<1>1. s \in SwitchType(conf) /\ size \in Int
  BY SizesAreNumbers DEF Sound
<1>2. /\ p \in Places(conf) /\ p[1] = d /\ p[2] = q
      /\ Mmu(d) = MmuOf(conf, p[1]) /\ Mmu(d) \in Mmus(conf)
      /\ StaticBytes(s, d, q) = Static(s, p)
  BY <1>1, Views
<1>3. /\ v \in SwitchType(conf)
      /\ v.mq = s.mq
      /\ v.usedStaticBuffer = s.usedStaticBuffer
      /\ v.m_usedBuffer = [s.m_usedBuffer EXCEPT ![Mmu(d)] = @ + size]
      /\ v.remaining = s.remaining
      /\ v.token_num = s.token_num
      /\ SameTurn(s, v)
  BY <1>1, <1>2, UsedAdded
<1> HIDE DEF v, p
<1>4. /\ e \in SwitchType(conf)
      /\ Held(e, p) = Held(v, p) + size
      /\ \A r \in Places(conf) \ {p} : Held(e, r) = Held(v, r)
  BY <1>2, <1>3, Enters
<1>5. /\ e.usedStaticBuffer = s.usedStaticBuffer
      /\ e.m_usedBuffer = [s.m_usedBuffer EXCEPT ![MmuOf(conf, p[1])] = @ + size]
      /\ e.remaining = s.remaining /\ e.token_num = s.token_num
      /\ SameTurn(s, e)
  BY <1>2, <1>3 DEF SwitchType, SameTurn
<1>6. \A r \in Places(conf) : Held(v, r) = Held(s, r)
  BY <1>3 DEF Held
<1>7. EnqueueAndSend(v, d, q, size) = IF e.remaining[d] = Idle THEN Transmit(e, d) ELSE e
  BY <1>2 DEF EnqueueAndSend
<1> HIDE DEF e
<1>8. Sound(conf, e)
  <2>1. s.m_usedBuffer[MmuOf(conf, p[1])] + size <= conf.maxBuffer
    BY <1>2 DEF Fits
  <2> QED
    BY <1>2, <1>4, <1>5, <1>6, <2>1, EntersShared
<1>9. Stored(conf, s, d, IF e.remaining[d] = Idle THEN Transmit(e, d) ELSE e)
  BY <1>1, <1>5, <1>8, SentIfReady
<1> QED
  BY <1>7, <1>9 DEF v

\* A packet that fits static memory.
LEMMA StoreStatic ==
  ASSUME conf \in Config, StaticSizes, NEW s, Sound(conf, s), NEW d \in Device,
         NEW q \in 0 .. conf.useqCnt - 1, NEW size \in conf.sizes,
         StaticBytes(s, d, q) + size <= conf.staticBuffer
  PROVE  Stored(conf, s, d,
                EnqueueAndSend([s EXCEPT !.usedStaticBuffer[d][q] = @ + size], d, q, size))
<1> DEFINE p == <<d, q>>
           k == Static(s, p) + size
           v == [s EXCEPT !.usedStaticBuffer = Recounted(s, p, k)]
           e == [v EXCEPT !.mq[p[1]] = EnqueueTos(@, p[2], size)]
<1>1. s \in SwitchType(conf) /\ size \in Int
  BY SizesAreNumbers DEF Sound
<1>2. /\ p \in Places(conf) /\ p[1] = d /\ p[2] = q
      /\ StaticBytes(s, d, q) = Static(s, p)
      /\ s.usedStaticBuffer[d][q] = Static(s, p)
  BY <1>1, Views
<1>3. k \in Int
  BY <1>1, <1>2, PlaceType
<1>4. [s EXCEPT !.usedStaticBuffer[d][q] = @ + size] = v
  <2>1. [s EXCEPT !.usedStaticBuffer[d][q] = @ + size]
          = [s EXCEPT !.usedStaticBuffer =
               [s.usedStaticBuffer EXCEPT ![d][q] = s.usedStaticBuffer[d][q] + size]]
    BY <1>1 DEF SwitchType
  <2>2. [s.usedStaticBuffer EXCEPT ![d][q] = s.usedStaticBuffer[d][q] + size] = Recounted(s, p, k)
    <3>1. s.usedStaticBuffer[d][q] + size = k
      BY <1>2
    <3> HIDE DEF k, p
    <3> QED
      BY <1>2, <3>1 DEF Recounted
  <2> QED
    BY <2>1, <2>2
<1> HIDE DEF k, p
<1>5. Recounted(s, p, k) \in [Device -> [0 .. conf.useqCnt - 1 -> Int]]
  <2>1. s.usedStaticBuffer \in [Device -> [0 .. conf.useqCnt - 1 -> Int]]
    BY <1>1 DEF SwitchType
  <2>2. p[1] \in Device /\ p[2] \in 0 .. conf.useqCnt - 1
    BY <1>2
  <2> QED
    BY <1>3, <2>1, <2>2, CountersChanged DEF Recounted
<1>6. /\ v \in SwitchType(conf)
      /\ v.mq = s.mq
      /\ v.usedStaticBuffer = Recounted(s, p, k)
      /\ v.m_usedBuffer = s.m_usedBuffer
      /\ v.remaining = s.remaining
      /\ v.token_num = s.token_num
      /\ SameTurn(s, v)
  BY <1>1, <1>5 DEF SwitchType, SameTurn
<1> HIDE DEF v
<1>7. /\ e \in SwitchType(conf)
      /\ Held(e, p) = Held(v, p) + size
      /\ \A r \in Places(conf) \ {p} : Held(e, r) = Held(v, r)
  BY <1>2, <1>6, Enters
<1>8. /\ e.usedStaticBuffer = Recounted(s, p, k)
      /\ e.m_usedBuffer = s.m_usedBuffer
      /\ e.remaining = s.remaining /\ e.token_num = s.token_num
      /\ SameTurn(s, e)
  BY <1>2, <1>6 DEF SwitchType, SameTurn
<1>9. \A r \in Places(conf) : Held(v, r) = Held(s, r)
  BY <1>6 DEF Held
<1>10. EnqueueAndSend(v, d, q, size) = IF e.remaining[d] = Idle THEN Transmit(e, d) ELSE e
  BY <1>2 DEF EnqueueAndSend
<1> HIDE DEF e
<1>11. /\ Static(e, p) = k
       /\ \A r \in Places(conf) \ {p} : Static(e, r) = Static(s, r)
  BY <1>1, <1>2, <1>3, <1>8, StaticChanged
<1>12. Sound(conf, e)
  BY <1>2, <1>7, <1>8, <1>9, <1>11, EntersStatic DEF k
<1>13. Stored(conf, s, d, IF e.remaining[d] = Idle THEN Transmit(e, d) ELSE e)
  BY <1>1, <1>8, <1>12, SentIfReady
<1> QED
  BY <1>4, <1>10, <1>13

-------------------------------------------------------------------------------
(* The queues of an MMU and their numbers *)

\* What \div computes.
LEMMA Quotient ==
  ASSUME NEW a \in Nat, NEW G \in Nat \ {0}
  PROVE  /\ a \div G \in Nat
         /\ (a \div G) * G <= a
         /\ a < (a \div G) * G + G
<1>1. a \div G \in Int /\ a = G * (a \div G) + (a % G) /\ (a % G) \in 0 .. G - 1
  OBVIOUS
<1>2. a \div G \in Nat
  OBVIOUS
<1> DEFINE k == a \div G
           r == a % G
<1> HIDE DEF k, r
<1>3. k * G = G * k /\ k * G \in Int
  BY <1>1 DEF k
<1> QED
  BY <1>1, <1>2, <1>3 DEF k, r

\* A number of whole groups is not between two multiples.
LEMMA Whole ==
  ASSUME NEW G \in Nat \ {0}, NEW i \in Int, NEW j \in Int, i < j
  PROVE  i * G + G <= j * G
<1>1. j * G = i * G + (j - i) * G
  OBVIOUS
<1>2. (j - i) * G = G + (j - i - 1) * G
  OBVIOUS
<1>3. (j - i - 1) * G \in Nat
  <2>1. j - i - 1 \in Nat
    OBVIOUS
  <2> QED
    BY <2>1
<1>4. i * G \in Int /\ j * G \in Int /\ (j - i) * G \in Int
  OBVIOUS
<1> QED
  BY <1>1, <1>2, <1>3, <1>4

\* And nothing else.
LEMMA QuotientIs ==
  ASSUME NEW a \in Nat, NEW G \in Nat \ {0}, NEW m \in Int, m * G <= a, a < m * G + G
  PROVE  a \div G = m
<1> DEFINE k == a \div G
<1>1. k \in Nat /\ k * G <= a /\ a < k * G + G
  BY Quotient
<1> HIDE DEF k
<1>2. m * G \in Int /\ k * G \in Int
  BY <1>1
<1>3. ~ (k < m)
  <2>1. k < m => k * G + G <= m * G
    BY <1>1, Whole
  <2> QED
    BY <1>1, <1>2, <2>1
<1>4. ~ (m < k)
  <2>1. m < k => m * G + G <= k * G
    BY <1>1, Whole
  <2> QED
    BY <1>1, <1>2, <2>1
<1>5. k = m
  BY <1>1, <1>3, <1>4
<1> QED
  BY <1>5 DEF k

\* The devices of an MMU are consecutive, and so are its queues: they are numbered
\* from 0, without gaps or repetition.
LEMMA QueueNumbers ==
  ASSUME conf \in Config, NEW d \in Device
  PROVE  /\ Positions(d) = QueuesOf(conf, Mmu(d))
         /\ <<d, 0>> \in Positions(d)
         /\ <<Mmu(d) * conf.group + 1, 0>> \in Positions(d)
         /\ Cardinality(Positions(d)) \in Nat \ {0}
         /\ \A p \in Positions(d) : Number(d, p) \in 0 .. Cardinality(Positions(d)) - 1
         /\ \A p, r \in Positions(d) : Number(d, p) = Number(d, r) => p = r
<1> DEFINE G == conf.group
           U == conf.useqCnt
           m == Mmu(d)
           n == Cardinality(Device)
           last == IF n < m * G + G THEN n ELSE m * G + G
           K == last - m * G
<1>1. G \in Nat \ {0} /\ U \in Nat \ {0}
  BY OccamyConfiguration
<1>2. n \in Nat /\ Device = 1 .. n
  BY PlacesFinite, FS_CardinalityType, OccamyConfiguration
<1>3. d \in Nat /\ d - 1 \in Nat /\ d <= n
  BY <1>2
<1>4. m \in Nat /\ m * G <= d - 1 /\ d - 1 < m * G + G
  <2>1. m = (d - 1) \div G
    BY DEF Mmu
  <2> HIDE DEF m, G
  <2> QED
    BY <1>1, <1>3, <2>1, Quotient
<1> HIDE DEF m, G, U, n
<1>5. m * G \in Nat
  BY <1>1, <1>4
<1>6. last \in Nat /\ m * G + 1 <= d /\ d <= last /\ last <= n /\ last <= m * G + G
  BY <1>1, <1>2, <1>3, <1>4, <1>5
<1>7. Members(d) = m * G + 1 .. last
  <2>1. ASSUME NEW e \in Device, Mmu(e) = m
        PROVE  e \in m * G + 1 .. last
    <3>1. e - 1 \in Nat /\ e <= n
      BY <1>2
    <3>2. m = (e - 1) \div G
      BY <2>1 DEF Mmu, G
    <3>3. m * G <= e - 1 /\ e - 1 < m * G + G
      BY <1>1, <3>1, <3>2, Quotient
    <3> QED
      BY <1>1, <1>2, <1>5, <3>1, <3>3
  <2>2. ASSUME NEW e \in m * G + 1 .. last
        PROVE  e \in Device /\ Mmu(e) = m
    <3>1. e \in Device /\ e - 1 \in Nat /\ m * G <= e - 1 /\ e - 1 < m * G + G
      BY <1>1, <1>2, <1>5, <1>6
    <3>2. (e - 1) \div G = m
      BY <1>1, <1>4, <3>1, QuotientIs
    <3> QED
      BY <3>1, <3>2 DEF Mmu, G
  <2>3. Members(d) = {e \in Device : Mmu(e) = m}
    BY DEF Members, m
  <2> QED
    BY <2>1, <2>2, <2>3
<1>8. K \in Nat \ {0} /\ last - (m * G + 1) + 1 = K
  <2> DEFINE x == m * G
  <2>1. x \in Int /\ x + 1 <= last /\ last \in Int
    BY <1>3, <1>5, <1>6
  <2> HIDE DEF x, last
  <2> QED
    BY <2>1 DEF x
<1>9. Positions(d) = Members(d) \X (0 .. U - 1)
  BY DEF Positions, U
<1>10. Positions(d) = QueuesOf(conf, m)
  <2>1. \A e \in Device : MmuOf(conf, e) = Mmu(e)
    BY DEF MmuOf, Mmu
  <2>2. Members(d) = {e \in Device : Mmu(e) = m}
    BY DEF Members, m
  <2> QED
    BY <1>9, <2>1, <2>2 DEF QueuesOf, Places, U
<1>11. <<d, 0>> \in Positions(d) /\ <<m * G + 1, 0>> \in Positions(d)
  <2>1. d \in Members(d) /\ m * G + 1 \in Members(d) /\ 0 \in 0 .. U - 1
    BY <1>1, <1>3, <1>5, <1>6, <1>7
  <2> QED
    BY <1>9, <2>1
<1>12. Cardinality(Positions(d)) = K * U
  <2>1. IsFiniteSet(Members(d)) /\ Cardinality(Members(d)) = K
    <3>1. /\ m * G + 1 \in Int /\ last \in Int
          /\ ~ (m * G + 1 > last)
      BY <1>3, <1>5, <1>6
    <3>2. /\ IsFiniteSet(m * G + 1 .. last)
          /\ Cardinality(m * G + 1 .. last) =
               IF m * G + 1 > last THEN 0 ELSE last - (m * G + 1) + 1
      <4> HIDE DEF last
      <4> QED
        BY <3>1, FS_Interval
    <3> HIDE DEF last
    <3> QED
      BY <1>7, <1>8, <3>1, <3>2
  <2>2. IsFiniteSet(0 .. U - 1) /\ Cardinality(0 .. U - 1) = U
    <3>1. 0 \in Int /\ U - 1 \in Int /\ ~ (0 > U - 1) /\ U - 1 - 0 + 1 = U
      BY <1>1
    <3> QED
      BY <3>1, FS_Interval
  <2> DEFINE S == Members(d)
             T == 0 .. U - 1
  <2>3. IsFiniteSet(S) /\ Cardinality(S) = K /\ IsFiniteSet(T) /\ Cardinality(T) = U
    BY <2>1, <2>2
  <2> HIDE DEF S, T, K
  <2>4. Cardinality(S \X T) = K * U
    BY <2>3, FS_Product
  <2> QED
    BY <1>9, <2>4 DEF S, T
<1>13. ASSUME NEW p \in Positions(d)
       PROVE  /\ p[1] - m * G - 1 \in 0 .. K - 1 /\ p[2] \in 0 .. U - 1
              /\ p = <<p[1], p[2]>>
              /\ Number(d, p) = (p[1] - m * G - 1) * U + p[2]
  <2>1. p[1] \in m * G + 1 .. last /\ p[2] \in 0 .. U - 1 /\ p = <<p[1], p[2]>>
    BY <1>7, <1>9
  <2>2. p[1] - m * G - 1 \in 0 .. K - 1
    BY <1>5, <1>6, <2>1
  <2>3. Number(d, p) = (p[1] - m * G - 1) * U + p[2]
    BY DEF Number, m, G, U
  <2> QED
    BY <2>1, <2>2, <2>3
<1>14. ASSUME NEW p \in Positions(d)
       PROVE  Number(d, p) \in 0 .. K * U - 1
  <2> DEFINE i == p[1] - m * G - 1
             q == p[2]
  <2>1. i \in 0 .. K - 1 /\ q \in 0 .. U - 1 /\ Number(d, p) = i * U + q
    BY <1>13
  <2> HIDE DEF i, q, K
  <2>2. i * U \in Nat /\ K * U \in Nat /\ i * U + U <= K * U
    <3>1. i < K
      BY <1>8, <2>1
    <3> QED
      BY <1>1, <1>8, <2>1, <3>1, Whole
  <2> QED
    BY <1>1, <2>1, <2>2
<1>15. ASSUME NEW p \in Positions(d), NEW r \in Positions(d), Number(d, p) = Number(d, r)
       PROVE  p = r
  <2> DEFINE i == p[1] - m * G - 1
             j == r[1] - m * G - 1
  <2>1. /\ i \in 0 .. K - 1 /\ p[2] \in 0 .. U - 1 /\ Number(d, p) = i * U + p[2]
        /\ j \in 0 .. K - 1 /\ r[2] \in 0 .. U - 1 /\ Number(d, r) = j * U + r[2]
    BY <1>13
  <2>2. i = j
    <3> DEFINE q == p[2]
               t == r[2]
    <3>1. i * U + q = j * U + t /\ q \in 0 .. U - 1 /\ t \in 0 .. U - 1
      BY <1>15, <2>1
    <3> HIDE DEF i, j, q, t, K
    <3>2. i \in Int /\ j \in Int /\ i * U \in Int /\ j * U \in Int
      BY <1>1, <1>8, <2>1
    <3>3. i < j => i * U + U <= j * U
      BY <1>1, <3>2, Whole
    <3>4. j < i => j * U + U <= i * U
      BY <1>1, <3>2, Whole
    <3> QED
      BY <1>1, <3>1, <3>2, <3>3, <3>4
  <2>3. p[2] = r[2]
    <3> DEFINE q == p[2]
               t == r[2]
    <3>1. i * U + q = i * U + t /\ q \in Int /\ t \in Int
      <4> HIDE DEF i, j, K
      <4>1. Number(d, p) = i * U + q /\ Number(d, r) = i * U + t
        BY <2>1, <2>2, Zenon
      <4>2. i * U + q = i * U + t
        BY <1>15, <4>1, Zenon
      <4> QED
        BY <2>1, <4>2
    <3>2. i * U \in Int
      <4> HIDE DEF i
      <4> QED
        BY <1>1, <1>8, <2>1
    <3> HIDE DEF i, q, t
    <3>3. q = t
      BY <3>1, <3>2
    <3> QED
      BY <3>3 DEF q, t
  <2>4. p[1] = r[1]
    <3>1. p[1] \in Int /\ r[1] \in Int
      BY <1>7, <1>9
    <3> QED
      BY <1>5, <2>2, <3>1
  <2> QED
    BY <1>13, <2>3, <2>4
<1>16. K * U \in Nat \ {0}
  <2> HIDE DEF K
  <2> QED
    BY <1>1, <1>8
<1> HIDE DEF K
<1> QED
  BY <1>10, <1>11, <1>12, <1>14, <1>15, <1>16 DEF m, G

-------------------------------------------------------------------------------
(* Packets dropped from the heads of queues and pushed out *)

\* A packet of this size has been removed, in the MMU of device d.
Removed(c, s, d, t, size) ==
  /\ Sound(c, t)
  /\ SameTurn(s, t) /\ t.remaining = s.remaining /\ t.token_num = s.token_num
  /\ t.usedStaticBuffer = s.usedStaticBuffer
  /\ size \in c.sizes
  /\ t.m_usedBuffer = [s.m_usedBuffer EXCEPT ![Mmu(d)] = @ - size]
  /\ \A r \in Places(c) : Held(t, r) <= Held(s, r)

\* The head of a queue with more bytes than may be static was shared.
LEMMA HeadIsShared ==
  ASSUME conf \in Config, StaticSizes, NEW s, Sound(conf, s), NEW d \in Device,
         NEW p \in Positions(d), Bytes(s, p[1], p[2]) > conf.staticBuffer
  PROVE  Removed(conf, s, d,
                 DeleteUsed([s EXCEPT !.mq[p[1]] = DequeueFrom(@, p[2])], d,
                            Head(s.mq[p[1]].m_queues[p[2]])),
                 Head(s.mq[p[1]].m_queues[p[2]]))
<1> DEFINE size == Head(s.mq[p[1]].m_queues[p[2]])
           mq == DequeueFrom(s.mq[p[1]], p[2])
           t == [s EXCEPT !.mq[p[1]] = mq]
           u == DeleteUsed(t, d, size)
<1>1. s \in SwitchType(conf) /\ conf.useqCnt \in Nat \ {0} /\ conf.staticBuffer \in Nat
  BY OccamyConfiguration DEF Sound
<1>2. p \in QueuesOf(conf, Mmu(d)) /\ p \in Places(conf) /\ MmuOf(conf, p[1]) = Mmu(d)
  BY QueueNumbers DEF QueuesOf
<1>3. /\ p[1] \in Device /\ p[2] \in 0 .. conf.useqCnt - 1 /\ p = <<p[1], p[2]>>
      /\ s.mq[p[1]] \in SwitchQueue(conf)
      /\ s.mq[p[1]].m_queues[p[2]] \in Seq(conf.sizes)
      /\ Held(s, p) \in Nat /\ Static(s, p) \in Int
      /\ Mmu(d) \in Mmus(conf)
  BY <1>1, <1>2, PlaceType
<1>4. Bytes(s, p[1], p[2]) = Held(s, p)
  <2>1. Bytes(s, p[1], p[2]) = Held(s, <<p[1], p[2]>>)
    BY <1>1, <1>3, Views
  <2> QED
    BY <1>3, <2>1
<1>5. Held(s, p) > conf.staticBuffer
  BY <1>4
<1>6. s.mq[p[1]].m_queues[p[2]] # <<>>
  <2>1. NBytes(s.mq[p[1]].m_queues[p[2]]) > 0
    BY <1>1, <1>3, <1>5 DEF Held
  <2> QED
    BY <1>3, <2>1, HasBytes
<1>7. /\ mq \in SwitchQueue(conf)
      /\ mq.m_queues = [s.mq[p[1]].m_queues EXCEPT ![p[2]] = Tail(@)]
  <2>1. Backlogged(s.mq[p[1]], p[2])
    BY <1>6 DEF Backlogged
  <2>2. /\ mq \in SwitchQueue(conf)
        /\ mq = [s.mq[p[1]] EXCEPT !.m_queues =
                   [s.mq[p[1]].m_queues EXCEPT ![p[2]] = Tail(@)]]
    <3> DEFINE m == s.mq[p[1]]
               q == p[2]
    <3>1. m \in SwitchQueue(conf) /\ q \in 0 .. conf.useqCnt - 1 /\ Backlogged(m, q)
      BY <1>3, <2>1
    <3> HIDE DEF m, q, mq
    <3>2. /\ DequeueFrom(m, q) \in SwitchQueue(conf)
          /\ DequeueFrom(m, q) = [m EXCEPT !.m_queues = [m.m_queues EXCEPT ![q] = Tail(@)]]
      BY <1>1, <3>1, HeadLeaves
    <3> QED
      BY <3>2 DEF m, q, mq
  <2> HIDE DEF mq
  <2> QED
    BY <1>3, <2>2 DEF SwitchQueue
<1>8. [s EXCEPT !.mq[p[1]] = DequeueFrom(@, p[2])] = t
  BY <1>1, <1>3 DEF SwitchType
<1> HIDE DEF mq
<1>9. Left(conf, s, p, t, size)
  BY <1>1, <1>2, <1>6, <1>7, Leaves
<1>10. /\ t.usedStaticBuffer = s.usedStaticBuffer /\ t.m_usedBuffer = s.m_usedBuffer
       /\ t.remaining = s.remaining /\ t.token_num = s.token_num /\ SameTurn(s, t)
  BY <1>1 DEF SwitchType, SameTurn
<1> HIDE DEF t, size
<1>11. size \in conf.sizes /\ size \in Nat
  BY <1>9, SizesAreNumbers DEF Left
<1>12. /\ u \in SwitchType(conf)
       /\ u.mq = t.mq /\ u.usedStaticBuffer = t.usedStaticBuffer
       /\ u.m_usedBuffer = [t.m_usedBuffer EXCEPT ![Mmu(d)] = @ - size]
       /\ u.remaining = t.remaining /\ u.token_num = t.token_num /\ SameTurn(t, u)
  BY <1>3, <1>9, <1>11, UsedDeleted DEF Left
<1> HIDE DEF u
<1>13. Static(s, p) <= Held(s, p) - size
  <2>1. SplitBasis(conf) /\ Split(conf, Held(s, p), Static(s, p)) /\ Held(s, p) - size \in Nat
    BY <1>2, <1>9, SplitsAreSound DEF Sound, Left
  <2> QED
    BY <1>3, <1>5, <1>11, <2>1, TakeExcess
<1>14. Sound(conf, u)
  <2>1. u.m_usedBuffer = [t.m_usedBuffer EXCEPT ![MmuOf(conf, p[1])] = @ - size]
    BY <1>2, <1>12
  <2> QED
    BY <1>2, <1>9, <1>10, <1>11, <1>12, <1>13, <2>1, LeavesShared DEF Left
<1>15. \A r \in Places(conf) : Held(u, r) <= Held(s, r)
  <2> SUFFICES ASSUME NEW r \in Places(conf)
               PROVE  Held(u, r) <= Held(s, r)
    OBVIOUS
  <2>1. Held(u, r) = Held(t, r)
    BY <1>12 DEF Held
  <2>2. Held(s, r) \in Nat
    BY <1>1, PlaceType
  <2>3. IF r = p THEN Held(t, r) = Held(s, p) - size ELSE Held(t, r) = Held(s, r)
    BY <1>9 DEF Left
  <2> QED
    BY <1>11, <2>1, <2>2, <2>3
<1>16. Removed(conf, s, d, u, size)
  BY <1>10, <1>11, <1>12, <1>14, <1>15 DEF Removed, SameTurn
<1> QED
  BY <1>8, <1>16 DEF u, size

\* The longest queue exists.
LEMMA LongestExists ==
  ASSUME conf \in Config, NEW s \in SwitchType(conf), NEW d \in Device
  PROVE  /\ LongestOf(s, d) \in Positions(d)
         /\ \A r \in Positions(d) :
              Bytes(s, r[1], r[2]) <= Bytes(s, LongestOf(s, d)[1], LongestOf(s, d)[2])
<1> DEFINE P == Positions(d)
           w == [p \in P |-> Bytes(s, p[1], p[2])]
           V == {w[p] : p \in P}
           n == Cardinality(Positions(d))
<1>1. /\ P = QueuesOf(conf, Mmu(d)) /\ <<d, 0>> \in P
      /\ n \in Nat \ {0}
      /\ \A p \in P : Number(d, p) \in 0 .. n - 1
      /\ \A p, r \in P : Number(d, p) = Number(d, r) => p = r
  BY QueueNumbers
<1>2. IsFiniteSet(P)
  BY <1>1, PlacesFinite
<1>3. \A p \in P : w[p] \in Nat
  <2> SUFFICES ASSUME NEW p \in P
               PROVE  Bytes(s, p[1], p[2]) \in Nat
    OBVIOUS
  <2>1. p \in Places(conf)
    BY <1>1 DEF QueuesOf
  <2>2. p[1] \in Device /\ p[2] \in 0 .. conf.useqCnt - 1 /\ p = <<p[1], p[2]>> /\ Held(s, p) \in Nat
    BY <2>1, PlaceType
  <2>3. Bytes(s, p[1], p[2]) = Held(s, <<p[1], p[2]>>)
    BY <2>2, Views
  <2> QED
    BY <2>2, <2>3
<1>4. PICK M \in V : \A v \in V : v <= M
  <2>1. Total(P, w) \in Nat
    <3> HIDE DEF P, w
    <3> QED
      BY <1>2, <1>3, TotalType
  <2>2. \A p \in P : w[p] <= Total(P, w)
    <3> HIDE DEF P, w
    <3> QED
      BY <1>2, <1>3, TotalBounds
  <2>3. V \subseteq 0 .. Total(P, w)
    <3> HIDE DEF P, w
    <3> QED
      BY <1>3, <2>1, <2>2
  <2>4. V # {}
    <3>1. w[<<d, 0>>] \in V
      <4> HIDE DEF w, P
      <4> QED
        BY <1>1
    <3> HIDE DEF V
    <3> QED
      BY <3>1
  <2> HIDE DEF P, w, V
  <2> QED
    BY <2>1, <2>3, <2>4, GreatestNumber
<1> DEFINE I == {Number(d, p) : p \in {x \in P : w[x] = M}}
<1>5. PICK i \in I : \A j \in I : j <= i
  <2>1. I \subseteq 0 .. n - 1 /\ n - 1 \in Nat
    <3> HIDE DEF P, w, n
    <3> QED
      BY <1>1
  <2>2. I # {}
    <3> HIDE DEF P, w
    <3> QED
      BY <1>4
  <2> HIDE DEF I, n
  <2> QED
    BY <2>1, <2>2, GreatestNumber
<1>6. PICK p \in P : w[p] = M /\ Number(d, p) = i
  BY <1>5
<1>7. ASSUME NEW r \in P \ {p}
      PROVE  \/ w[r] < w[p]
             \/ w[r] = w[p] /\ Number(d, r) < Number(d, p)
  <2>1. w[r] \in Nat /\ w[p] \in Nat /\ w[r] <= w[p]
    <3>1. w[r] \in V
      OBVIOUS
    <3> HIDE DEF w
    <3> QED
      BY <1>3, <1>4, <1>6, <3>1
  <2>2. w[r] = w[p] => Number(d, r) <= Number(d, p)
    <3> HIDE DEF w
    <3> QED
      BY <1>5, <1>6
  <2>3. Number(d, r) # Number(d, p) /\ Number(d, r) \in Int /\ Number(d, p) \in Int
    <3> HIDE DEF w, n
    <3> QED
      BY <1>1
  <2> HIDE DEF w
  <2> QED
    BY <2>1, <2>2, <2>3
<1>8. \A r \in P : w[r] = Bytes(s, r[1], r[2])
  OBVIOUS
<1> DEFINE Wins(x) == \A r \in P \ {x} :
                        \/ Bytes(s, r[1], r[2]) < Bytes(s, x[1], x[2])
                        \/ /\ Bytes(s, r[1], r[2]) = Bytes(s, x[1], x[2])
                           /\ Number(d, r) < Number(d, x)
<1>9. Wins(p)
  <2> HIDE DEF w, P
  <2> QED
    BY <1>6, <1>7, <1>8
<1>10. LongestOf(s, d) = CHOOSE x \in P : Wins(x)
  BY DEF LongestOf
<1>11. LongestOf(s, d) \in P /\ Wins(LongestOf(s, d))
  <2> HIDE DEF Wins, P
  <2> QED
    BY <1>6, <1>9, <1>10
<1> DEFINE x == LongestOf(s, d)
<1> HIDE DEF x
<1>12. ASSUME NEW r \in P
       PROVE  Bytes(s, r[1], r[2]) <= Bytes(s, x[1], x[2])
  <2>1. Bytes(s, r[1], r[2]) \in Nat
    BY <1>3, <1>8
  <2>2. Bytes(s, x[1], x[2]) \in Nat
    BY <1>3, <1>8, <1>11 DEF x
  <2> QED
    BY <1>11, <2>1, <2>2 DEF x
<1> QED
  BY <1>11, <1>12 DEF x

-------------------------------------------------------------------------------
(* Push-out *)

\* One turn of the loop of PushOut for a packet of this size.
PushTurn(before, d, q, size) ==
  IF before.ok /\ before.space < size THEN PushOutPacket(before, d, q) ELSE before

NotPushed(s) == [sw |-> s, space |-> 0, ok |-> TRUE]

\* The loop, up to turn n.
IsLoop(push, n, s, d, q, size) ==
  push = [i \in 0 .. n |->
            IF i = 0 THEN NotPushed(s) ELSE PushTurn(push[i - 1], d, q, size)]

\* A loop is determined turn by turn, so there is one.
LEMMA LoopExists ==
  ASSUME NEW n \in Nat, NEW s, NEW d, NEW q, NEW size
  PROVE  \E push : IsLoop(push, n, s, d, q, size)
<1> DEFINE Bad == {i \in 0 .. n : ~ \E push : IsLoop(push, i, s, d, q, size)}
<1>1. SUFFICES ASSUME Bad # {}
               PROVE  FALSE
  <2>1. n \in 0 .. n
    OBVIOUS
  <2> QED
    BY <2>1
<1>2. PICK i \in Bad : \A j \in Bad : i <= j
  <2>1. Bad \subseteq Nat
    OBVIOUS
  <2> HIDE DEF Bad
  <2> QED
    BY <1>1, <2>1, LeastNumber
<1>3. i \in 0 .. n
  OBVIOUS
<1>4. CASE i = 0
  <2>1. IsLoop([j \in 0 .. 0 |-> NotPushed(s)], 0, s, d, q, size)
    BY DEF IsLoop
  <2> QED
    BY <1>4, <2>1
<1>5. CASE i # 0
  <2>1. i - 1 \in 0 .. n /\ i - 1 < i
    BY <1>3, <1>5
  <2>2. i - 1 \notin Bad
    <3> HIDE DEF Bad
    <3> QED
      BY <1>2, <1>3, <2>1
  <2>3. PICK push : IsLoop(push, i - 1, s, d, q, size)
    BY <2>1, <2>2
  <2> DEFINE longer == [j \in 0 .. i |-> IF j = i THEN PushTurn(push[i - 1], d, q, size)
                                         ELSE push[j]]
  <2>4. \A j \in 0 .. i - 1 : longer[j] = push[j]
    BY <1>3
  <2>5. \A j \in 0 .. i - 1 :
          push[j] = IF j = 0 THEN NotPushed(s) ELSE PushTurn(push[j - 1], d, q, size)
    BY <2>3 DEF IsLoop
  <2>6. ASSUME NEW j \in 0 .. i
        PROVE  longer[j] = IF j = 0 THEN NotPushed(s) ELSE PushTurn(longer[j - 1], d, q, size)
    <3>1. CASE j = i
      <4>1. i - 1 \in 0 .. i - 1 /\ longer[i] = PushTurn(push[i - 1], d, q, size)
        BY <1>3, <1>5
      <4>2. longer[i - 1] = push[i - 1]
        BY <2>4, <4>1
      <4> HIDE DEF longer
      <4> QED
        BY <1>5, <3>1, <4>1, <4>2
    <3>2. CASE j # i
      <4>1. j \in 0 .. i - 1 /\ (j # 0 => j - 1 \in 0 .. i - 1)
        BY <1>3, <3>2
      <4>2. longer[j] = push[j] /\ (j # 0 => longer[j - 1] = push[j - 1])
        BY <2>4, <4>1
      <4> HIDE DEF longer
      <4> QED
        BY <2>5, <4>1, <4>2
    <3> QED
      BY <3>1, <3>2
  <2>7. DOMAIN longer = 0 .. i /\ longer = [j \in 0 .. i |-> longer[j]]
    OBVIOUS
  <2>8. IsLoop(longer, i, s, d, q, size)
    <3> HIDE DEF longer
    <3> QED
      BY <2>6, <2>7 DEF IsLoop
  <2> QED
    BY <2>8
<1> QED
  BY <1>4, <1>5

\* PushOut is what such a loop computes.
LEMMA PushOutLoops ==
  ASSUME NEW s, NEW d, NEW q, NEW size \in Nat
  PROVE  \E push : IsLoop(push, size, s, d, q, size) /\ PushOut(s, d, q, size) = push[size]
<1> DEFINE Loop(push) ==
             push = [n \in 0 .. size |->
                       IF n = 0 THEN [sw |-> s, space |-> 0, ok |-> TRUE]
                       ELSE LET before == push[n - 1]
                            IN  IF before.ok /\ before.space < size
                                THEN PushOutPacket(before, d, q) ELSE before]
<1>1. \A push : IsLoop(push, size, s, d, q, size) <=> Loop(push)
  BY DEF IsLoop, PushTurn, NotPushed
<1>2. PICK push : IsLoop(push, size, s, d, q, size)
  BY LoopExists
<1>3. Loop(CHOOSE x : Loop(x))
  <2> HIDE DEF Loop
  <2> QED
    BY <1>1, <1>2
<1>4. PushOut(s, d, q, size) = (CHOOSE x : Loop(x))[size]
  BY DEF PushOut
<1> HIDE DEF Loop
<1> QED
  BY <1>1, <1>3, <1>4

\* What holds of the loop's state after n turns, a packet of this size having found
\* its MMU too full in state s: every turn makes room or ends the loop, and without
\* strict priority none ends it in vain.
Pushed(s, d, size, n, b) ==
  /\ b \in [sw : SwitchType(conf), space : Nat, ok : BOOLEAN]
  /\ Sound(conf, b.sw)
  /\ SameTurn(s, b.sw) /\ b.sw.remaining = s.remaining /\ b.sw.token_num = s.token_num
  /\ b.sw.usedStaticBuffer = s.usedStaticBuffer
  /\ b.sw.m_usedBuffer[Mmu(d)] = s.m_usedBuffer[Mmu(d)] - b.space
  /\ b.ok => b.space >= n \/ b.space >= size
  /\ conf.dequeueType # "PQ" /\ 2 * size <= conf.maxBuffer => b.ok

\* A turn of the loop.
LEMMA PushedOnce ==
  ASSUME conf \in Config, StaticSizes, NEW s, Sound(conf, s), NEW d \in Device, NEW q,
         NEW size \in conf.sizes, ~Fits(s, d, size),
         NEW n \in 0 .. size - 1, NEW b, Pushed(s, d, size, n, b)
  PROVE  Pushed(s, d, size, n + 1, PushTurn(b, d, q, size))
<1> DEFINE B == conf.staticBuffer
           max == conf.maxBuffer
           t == b.sw
           p == LongestOf(t, d)
           packet == Head(t.mq[p[1]].m_queues[p[2]])
           m == Mmu(d)
           ends == \/ conf.dequeueType = "PQ" /\ p[2] < q
                   \/ Bytes(t, p[1], p[2]) <= B
<1>1. /\ t \in SwitchType(conf) /\ b.space \in Nat /\ b.ok \in BOOLEAN
      /\ Sound(conf, t)
      /\ size \in Nat \ {0} /\ B \in Nat /\ max \in Nat /\ n \in Nat /\ n < size
  BY SizesAreNumbers, OccamyConfiguration DEF Pushed
<1>2. /\ m \in Mmus(conf)
      /\ s.m_usedBuffer[m] \in 0 .. max /\ s.m_usedBuffer[m] + size > max
      /\ t.m_usedBuffer[m] = s.m_usedBuffer[m] - b.space
  <2>1. m \in Mmus(conf)
    BY <1>1, Views
  <2>2. s.m_usedBuffer[m] \in 0 .. max
    BY <2>1, UsedCovers
  <2> QED
    BY <1>1, <2>1, <2>2 DEF Fits, Pushed
<1>3. CASE ~ (b.ok /\ b.space < size)
  <2>1. PushTurn(b, d, q, size) = b
    BY <1>3 DEF PushTurn
  <2>2. b.ok => b.space >= n + 1 \/ b.space >= size
    BY <1>1, <1>3
  <2> QED
    BY <2>1, <2>2 DEF Pushed
<1>4. CASE b.ok /\ b.space < size /\ ends
  <2>1. PushTurn(b, d, q, size) = [b EXCEPT !.ok = FALSE]
    BY <1>4 DEF PushTurn, PushOutPacket
  <2>2. ~ (conf.dequeueType # "PQ" /\ 2 * size <= max)
    <3> SUFFICES ASSUME conf.dequeueType # "PQ", 2 * size <= max
                 PROVE  FALSE
      OBVIOUS
    <3>1. \A r \in Positions(d) : Bytes(t, r[1], r[2]) <= B
      <4> SUFFICES ASSUME NEW r \in Positions(d)
                   PROVE  Bytes(t, r[1], r[2]) <= B
        OBVIOUS
      <4>1. /\ Bytes(t, p[1], p[2]) <= B
            /\ Bytes(t, r[1], r[2]) <= Bytes(t, p[1], p[2])
            /\ p \in Positions(d)
        BY <1>1, <1>4, LongestExists
      <4>2. \A x \in Positions(d) : Bytes(t, x[1], x[2]) \in Nat
        <5> SUFFICES ASSUME NEW x \in Positions(d)
                     PROVE  Bytes(t, x[1], x[2]) \in Nat
          OBVIOUS
        <5>1. x \in Places(conf)
          BY QueueNumbers DEF QueuesOf
        <5>2. /\ x[1] \in Device /\ x[2] \in 0 .. conf.useqCnt - 1 /\ x = <<x[1], x[2]>>
              /\ Held(t, x) \in Nat
          BY <1>1, <5>1, PlaceType
        <5>3. Bytes(t, x[1], x[2]) = Held(t, <<x[1], x[2]>>)
          BY <1>1, <5>2, Views
        <5> QED
          BY <5>2, <5>3
      <4>3. Bytes(t, p[1], p[2]) \in Nat /\ Bytes(t, r[1], r[2]) \in Nat
        BY <4>1, <4>2
      <4> HIDE DEF p, B
      <4> QED
        BY <1>1, <4>1, <4>3
    <3>2. \A r \in QueuesOf(conf, m) : Held(t, r) - Static(t, r) = 0
      <4> SUFFICES ASSUME NEW r \in QueuesOf(conf, m)
                   PROVE  Held(t, r) - Static(t, r) = 0
        OBVIOUS
      <4>1. r \in Positions(d) /\ r \in Places(conf)
        BY QueueNumbers DEF QueuesOf
      <4>2. /\ r[1] \in Device /\ r[2] \in 0 .. conf.useqCnt - 1 /\ r = <<r[1], r[2]>>
            /\ Held(t, r) \in Nat /\ Static(t, r) \in Int
        BY <1>1, <4>1, PlaceType
      <4>3. Bytes(t, r[1], r[2]) = Held(t, r)
        <5>1. Bytes(t, r[1], r[2]) = Held(t, <<r[1], r[2]>>)
          BY <1>1, <4>2, Views
        <5> QED
          BY <4>2, <5>1
      <4>4. SplitBasis(conf) /\ Split(conf, Held(t, r), Static(t, r)) /\ Held(t, r) <= B
        BY <1>1, <3>1, <4>1, <4>3, SplitsAreSound DEF Sound
      <4> QED
        BY <4>2, <4>4, NoExcess
    <3>3. t.m_usedBuffer[m] = 0
      BY <1>1, <1>2, <3>2, UsedCovers
    <3> QED
      BY <1>1, <1>2, <1>4, <3>3
  <2>3. [b EXCEPT !.ok = FALSE] \in [sw : SwitchType(conf), space : Nat, ok : BOOLEAN]
    BY DEF Pushed
  <2> DEFINE b1 == [b EXCEPT !.ok = FALSE]
  <2>4. b1.sw = t /\ b1.space = b.space /\ b1.ok = FALSE
    BY DEF Pushed
  <2> HIDE DEF b1, t
  <2>5. Pushed(s, d, size, n + 1, b1)
    BY <2>2, <2>3, <2>4 DEF Pushed, b1, t
  <2> QED
    BY <2>1, <2>5 DEF b1
<1>5. CASE b.ok /\ b.space < size /\ ~ends
  <2> DEFINE u == DeleteUsed([t EXCEPT !.mq[p[1]] = DequeueFrom(@, p[2])], d, packet)
             b1 == [b EXCEPT !.sw = u, !.space = @ + packet]
  <2>1. PushTurn(b, d, q, size) = b1
    BY <1>5 DEF PushTurn, PushOutPacket
  <2>2. Bytes(t, p[1], p[2]) > B /\ p \in Positions(d)
    <3>1. p \in Positions(d)
      BY <1>1, LongestExists
    <3>2. p \in Places(conf)
      BY <3>1, QueueNumbers DEF QueuesOf
    <3>3. /\ p[1] \in Device /\ p[2] \in 0 .. conf.useqCnt - 1 /\ p = <<p[1], p[2]>>
          /\ Held(t, p) \in Nat
      BY <1>1, <3>2, PlaceType
    <3>4. Bytes(t, p[1], p[2]) \in Nat
      <4>1. Bytes(t, p[1], p[2]) = Held(t, <<p[1], p[2]>>)
        BY <1>1, <3>3, Views
      <4> QED
        BY <3>3, <4>1
    <3>5. ~ (Bytes(t, p[1], p[2]) <= B)
      BY <1>5
    <3> HIDE DEF p, t, B
    <3> QED
      BY <1>1, <3>1, <3>4, <3>5
  <2>3. Removed(conf, t, d, u, packet)
    <3> HIDE DEF p, t
    <3> QED
      BY <1>1, <2>2, HeadIsShared
  <2> HIDE DEF u, packet, p
  <2>4. /\ Sound(conf, u) /\ u \in SwitchType(conf)
        /\ SameTurn(t, u) /\ u.remaining = t.remaining /\ u.token_num = t.token_num
        /\ u.usedStaticBuffer = t.usedStaticBuffer
        /\ packet \in Nat \ {0}
        /\ u.m_usedBuffer[m] = t.m_usedBuffer[m] - packet
    <3>1. t.m_usedBuffer \in [Mmus(conf) -> Int]
      BY <1>1 DEF SwitchType
    <3>2. packet \in Nat \ {0}
      BY <2>3, SizesAreNumbers DEF Removed
    <3> QED
      BY <1>2, <2>3, <3>1, <3>2 DEF Removed, Sound
  <2>5. b1 = [b EXCEPT !.sw = u, !.space = b.space + packet] /\ b.space + packet \in Nat
    BY <1>1, <2>4 DEF Pushed
  <2>6. /\ b1 \in [sw : SwitchType(conf), space : Nat, ok : BOOLEAN]
        /\ b1.sw = u /\ b1.space = b.space + packet /\ b1.ok = b.ok
    BY <2>4, <2>5 DEF Pushed
  <2> HIDE DEF b1
  <2>7. b1.sw.m_usedBuffer[m] = s.m_usedBuffer[m] - b1.space
    BY <1>1, <1>2, <2>4, <2>6
  <2>8. b1.space >= n + 1 \/ b1.space >= size
    <3>1. b.space >= n \/ b.space >= size
      BY <1>5 DEF Pushed
    <3> QED
      BY <1>1, <2>4, <2>6, <3>1
  <2>9. /\ SameTurn(s, u) /\ u.remaining = s.remaining /\ u.token_num = s.token_num
        /\ u.usedStaticBuffer = s.usedStaticBuffer
    BY <2>4 DEF Pushed, SameTurn
  <2>10. Pushed(s, d, size, n + 1, b1)
    BY <1>5, <2>4, <2>6, <2>7, <2>8, <2>9 DEF Pushed
  <2> QED
    BY <2>1, <2>10
<1> QED
  BY <1>3, <1>4, <1>5

\* The whole loop.
LEMMA PushedOut ==
  ASSUME conf \in Config, StaticSizes, NEW s, Sound(conf, s), NEW d \in Device, NEW q,
         NEW size \in conf.sizes, ~Fits(s, d, size)
  PROVE  Pushed(s, d, size, size, PushOut(s, d, q, size))
<1>1. size \in Nat \ {0}
  BY SizesAreNumbers
<1>2. PICK push : IsLoop(push, size, s, d, q, size) /\ PushOut(s, d, q, size) = push[size]
  BY <1>1, PushOutLoops
<1>3. /\ push[0] = NotPushed(s)
      /\ \A n \in 0 .. size - 1 : push[n + 1] = PushTurn(push[n], d, q, size)
  <2>1. \A i \in 0 .. size :
          push[i] = IF i = 0 THEN NotPushed(s) ELSE PushTurn(push[i - 1], d, q, size)
    BY <1>2 DEF IsLoop
  <2>2. 0 \in 0 .. size
    BY <1>1
  <2>3. ASSUME NEW n \in 0 .. size - 1
        PROVE  push[n + 1] = PushTurn(push[n], d, q, size)
    <3>1. n + 1 \in 0 .. size /\ n + 1 # 0 /\ n + 1 - 1 = n
      BY <1>1
    <3>2. push[n + 1] = PushTurn(push[n + 1 - 1], d, q, size)
      BY <2>1, <3>1
    <3> QED
      BY <3>1, <3>2
  <2> QED
    BY <2>1, <2>2, <2>3
<1>4. Pushed(s, d, size, 0, NotPushed(s))
  <2>1. s \in SwitchType(conf) /\ Mmu(d) \in Mmus(conf)
    BY Views DEF Sound
  <2>2. s.m_usedBuffer[Mmu(d)] \in Int
    BY <2>1 DEF SwitchType
  <2> QED
    BY <1>1, <2>1, <2>2 DEF Pushed, NotPushed, SameTurn
<1> DEFINE Bad == {n \in 0 .. size : ~Pushed(s, d, size, n, push[n])}
<1>5. Bad = {}
  <2>1. SUFFICES ASSUME Bad # {}
                 PROVE  FALSE
    OBVIOUS
  <2>2. PICK n \in Bad : \A j \in Bad : n <= j
    <3>1. Bad \subseteq Nat
      OBVIOUS
    <3> HIDE DEF Bad
    <3> QED
      BY <2>1, <3>1, LeastNumber
  <2>3. n \in 0 .. size /\ ~Pushed(s, d, size, n, push[n])
    OBVIOUS
  <2>4. n # 0
    BY <1>3, <1>4, <2>3
  <2>5. n - 1 \in 0 .. size - 1 /\ n - 1 \in 0 .. size /\ ~ (n <= n - 1) /\ n - 1 + 1 = n
    BY <1>1, <2>3, <2>4
  <2>6. n - 1 \notin Bad
    <3> HIDE DEF Bad
    <3> QED
      BY <2>2, <2>5
  <2>7. Pushed(s, d, size, n - 1, push[n - 1])
    BY <2>5, <2>6
  <2>8. Pushed(s, d, size, n - 1 + 1, PushTurn(push[n - 1], d, q, size))
    BY <2>5, <2>7, PushedOnce
  <2>9. push[n - 1 + 1] = PushTurn(push[n - 1], d, q, size)
    BY <1>3, <2>5
  <2> HIDE DEF Bad
  <2> QED
    BY <2>3, <2>5, <2>8, <2>9
<1>6. size \in 0 .. size
  BY <1>1
<1> QED
  BY <1>2, <1>5, <1>6

-------------------------------------------------------------------------------
(* The turns of the head drops *)

\* A remainder, of a number less than one turn away from zero.
LEMMA Remainder ==
  ASSUME NEW N \in Nat \ {0}, NEW a \in Int, 0 - N < a, a < N
  PROVE  a % N = IF a >= 0 THEN a ELSE a + N
<1>1. a \div N \in Int /\ a = N * (a \div N) + (a % N) /\ (a % N) \in 0 .. N - 1
  OBVIOUS
<1> DEFINE k == a \div N
           r == a % N
           e == N * k
<1>2. k \in Int /\ e \in Int /\ r \in 0 .. N - 1 /\ a = e + r
  BY <1>1
<1>3. k >= 1 => e >= N
  <2>1. SUFFICES ASSUME k >= 1 PROVE e >= N
    OBVIOUS
  <2>2. k = (k - 1) + 1 /\ k - 1 \in Nat
    BY <1>2, <2>1
  <2> DEFINE j == k - 1
  <2> HIDE DEF j, k
  <2>3. N * k = N * j + N /\ N * j \in Nat
    <3>1. k = j + 1 /\ j \in Nat
      BY <2>2 DEF j
    <3> QED
      BY <3>1
  <2> QED
    BY <2>3
<1>4. k <= -2 => e <= 0 - 2 * N
  <2>1. SUFFICES ASSUME k <= -2 PROVE e <= 0 - 2 * N
    OBVIOUS
  <2> DEFINE j == 0 - k - 2
  <2>2. k = 0 - (j + 2) /\ j \in Nat
    BY <1>2, <2>1
  <2> HIDE DEF j, k
  <2>3. N * k = 0 - (N * j + 2 * N) /\ N * j \in Nat
    BY <2>2
  <2> QED
    BY <2>3
<1>5. k = 0 => e = 0
  OBVIOUS
<1>6. k = -1 => e = 0 - N
  OBVIOUS
<1>7. a % N = r
  OBVIOUS
<1> HIDE DEF k, r, e
<1>8. k \in {-1, 0}
  BY <1>2, <1>3, <1>4
<1> QED
  BY <1>2, <1>5, <1>6, <1>7, <1>8

\* How far it is, around a circle of N places, from place k to place i: a full
\* circle if they are the same.
Ahead(N, k, i) == IF i > k THEN i - k ELSE i - k + N

\* That is what Distance computes, if the last drop was in the MMU of device d.
LEMMA DistanceIs ==
  ASSUME conf \in Config, NEW s, NEW d \in Device, s.last_head_drop \in Positions(d),
         NEW p \in Positions(d)
  PROVE  /\ Distance(s, d, p) = Ahead(Cardinality(Positions(d)), Cursor(s, d), Number(d, p))
         /\ Distance(s, d, p) \in 1 .. Cardinality(Positions(d))
<1> DEFINE N == Cardinality(Positions(d))
           k == Cursor(s, d)
           i == Number(d, p)
<1>1. N \in Nat \ {0} /\ k \in 0 .. N - 1 /\ i \in 0 .. N - 1
  BY QueueNumbers DEF Cursor
<1>2. Distance(s, d, p) = LET n == (i - k) % N IN IF n = 0 THEN N ELSE n
  BY DEF Distance
<1> HIDE DEF N, k, i
<1> DEFINE a == i - k
<1>3. a % N = IF a >= 0 THEN a ELSE a + N
  <2>1. a \in Int /\ 0 - N < a /\ a < N
    BY <1>1
  <2> HIDE DEF a
  <2> QED
    BY <1>1, <2>1, Remainder
<1>4. Distance(s, d, p) = Ahead(N, k, i) /\ Distance(s, d, p) \in 1 .. N
  BY <1>1, <1>2, <1>3 DEF Ahead
<1> QED
  BY <1>4 DEF N, k, i

\* The first queue of the generator's MMU is where its turns start from.
LEMMA NextIsFirst ==
  ASSUME conf \in Config, NEW s, NEW d \in Device, s.last_head_drop \in Positions(d),
         NEW p \in NextInTurn(s, d), NEW r \in Positions(d) \ NextInTurn(s, d),
         OverThreshold(s, d, r)
  PROVE  Distance(s, d, p) < Distance(s, d, r)
<1>1. PICK x \in Positions(d) : OverThreshold(s, d, x) /\ ~(Distance(s, d, r) <= Distance(s, d, x))
  BY DEF NextInTurn
<1>2. Distance(s, d, p) <= Distance(s, d, x)
  BY <1>1 DEF NextInTurn
<1>3. p \in Positions(d)
  BY DEF NextInTurn
<1>4. /\ Distance(s, d, p) \in Int /\ Distance(s, d, x) \in Int /\ Distance(s, d, r) \in Int
  <2>1. \A y \in Positions(d) : Distance(s, d, y) \in 1 .. Cardinality(Positions(d))
    BY DistanceIs
  <2>2. Cardinality(Positions(d)) \in Nat
    BY QueueNumbers
  <2> QED
    BY <1>1, <1>3, <2>1, <2>2
<1> QED
  BY <1>1, <1>2, <1>4

\* A turn brings the other queues that wait for theirs nearer.
LEMMA TurnPasses ==
  ASSUME conf \in Config, NEW s, NEW d \in Device, s.last_head_drop \in Positions(d),
         NEW t, t.last_head_drop \in NextInTurn(s, d),
         NEW r \in Positions(d) \ NextInTurn(s, d), OverThreshold(s, d, r)
  PROVE  Distance(t, d, r) + 1 <= Distance(s, d, r)
<1> DEFINE N == Cardinality(Positions(d))
           k == Cursor(s, d)
           p == t.last_head_drop
           i == Number(d, p)
           j == Number(d, r)
<1>1. p \in NextInTurn(s, d) /\ p \in Positions(d)
  BY DEF NextInTurn
<1>2. /\ N \in Nat \ {0} /\ k \in 0 .. N - 1 /\ i \in 0 .. N - 1 /\ j \in 0 .. N - 1
  BY <1>1, QueueNumbers DEF Cursor
<1>3. Distance(s, d, p) = Ahead(N, k, i) /\ Distance(s, d, r) = Ahead(N, k, j)
  BY <1>1, DistanceIs
<1>4. Distance(t, d, r) = Ahead(N, i, j)
  <2>1. Cursor(t, d) = i
    BY DEF Cursor
  <2>2. Distance(t, d, r) = Ahead(N, Cursor(t, d), j)
    BY <1>1, DistanceIs
  <2> QED
    BY <2>1, <2>2
<1>5. Ahead(N, k, i) < Ahead(N, k, j)
  BY <1>1, <1>3, NextIsFirst
<1> HIDE DEF N, k, i, j, p
<1> QED
  BY <1>2, <1>3, <1>4, <1>5 DEF Ahead

\* A queue over its threshold has been over it before bytes were taken.
LEMMA OverBefore ==
  ASSUME conf \in Config, NEW s, Sound(conf, s), NEW t, Sound(conf, t), NEW d \in Device,
         NEW size \in Nat,
         t.usedStaticBuffer = s.usedStaticBuffer,
         t.m_usedBuffer = [s.m_usedBuffer EXCEPT ![Mmu(d)] = @ - size],
         \A r \in Places(conf) : Held(t, r) <= Held(s, r),
         NEW p \in Positions(d), OverThreshold(t, d, p)
  PROVE  OverThreshold(s, d, p)
<1>1. s \in SwitchType(conf) /\ t \in SwitchType(conf)
  BY DEF Sound
<1>2. p \in Places(conf)
  BY QueueNumbers DEF QueuesOf
<1>3. p[1] \in Device /\ p[2] \in 0 .. conf.useqCnt - 1 /\ <<p[1], p[2]>> \in Places(conf)
  BY <1>1, <1>2, PlaceType
<1> DEFINE h(u) == Held(u, <<p[1], p[2]>>)
           e(u) == Static(u, <<d, p[2]>>)
           x == conf.maxBuffer - s.m_usedBuffer[Mmu(d)]
<1>4. /\ Bytes(s, p[1], p[2]) = h(s) /\ Bytes(t, p[1], p[2]) = h(t)
      /\ StaticBytes(s, d, p[2]) = e(s) /\ StaticBytes(t, d, p[2]) = e(t)
      /\ Mmu(d) \in Mmus(conf) /\ <<d, p[2]>> \in Places(conf)
  BY <1>1, <1>3, Views
<1>5. h(s) \in Nat /\ h(t) \in Nat /\ e(s) \in Int /\ e(t) = e(s) /\ h(t) <= h(s)
  <2>1. h(s) \in Nat /\ h(t) \in Nat /\ e(s) \in Int
    BY <1>1, <1>3, <1>4, PlaceType
  <2>2. e(t) = e(s)
    BY DEF Static
  <2>3. h(t) <= h(s)
    BY <1>3
  <2> QED
    BY <2>1, <2>2, <2>3
<1>6. x \in Int /\ qAlpha \in Nat
  BY <1>1, <1>4, OccamyConfiguration DEF SwitchType
<1>7. conf.maxBuffer - t.m_usedBuffer[Mmu(d)] = x + size
  <2>1. t.m_usedBuffer[Mmu(d)] = s.m_usedBuffer[Mmu(d)] - size /\ s.m_usedBuffer[Mmu(d)] \in Int
    BY <1>1, <1>4 DEF SwitchType
  <2>2. conf.maxBuffer \in Nat
    BY OccamyConfiguration
  <2> QED
    BY <2>1, <2>2
<1>8. h(t) - e(t) > qAlpha * (x + size)
  BY <1>4, <1>7 DEF OverThreshold, GetQueueThreshold
<1>9. SUFFICES h(s) - e(s) > qAlpha * x
  BY <1>4 DEF OverThreshold, GetQueueThreshold
<1> HIDE DEF h, e, x
<1>10. qAlpha * (x + size) = qAlpha * x + qAlpha * size /\ qAlpha * size \in Nat /\ qAlpha * x \in Int
  BY <1>6
<1> QED
  BY <1>5, <1>8, <1>10

\* The queue a head drop is for is over its threshold and not empty; where heads
\* are dropped there is no static memory.
LEMMA DropsFromOver ==
  ASSUME conf \in Config, NEW s, Sound(conf, s), NEW d \in Device,
         NEW p \in HeadDropQueue(s, d)
  PROVE  /\ p \in Positions(d)
         /\ conf.m_dropType = "TOKEN" => p \in NextInTurn(s, d)
         /\ conf.staticBuffer = 0
         /\ Bytes(s, p[1], p[2]) > conf.staticBuffer
<1>1. s \in SwitchType(conf) /\ conf.useqCnt \in Nat \ {0} /\ conf.staticBuffer \in Nat
  BY OccamyConfiguration DEF Sound
<1>2. /\ p \in Positions(d) /\ OverThreshold(s, d, p)
      /\ conf.m_dropType = "TOKEN" => p \in NextInTurn(s, d)
      /\ conf.m_dropType # "NONE"
  <2>1. CASE conf.m_dropType = "TOKEN"
    BY <2>1 DEF HeadDropQueue, NextInTurn
  <2>2. CASE conf.m_dropType = "LONGTOKEN"
    BY <1>1, <2>2, LongestExists DEF HeadDropQueue, LongestOver
  <2>3. CASE conf.m_dropType = "NONE"
    BY <2>3 DEF HeadDropQueue
  <2>4. conf.m_dropType \in {"NONE", "TOKEN", "LONGTOKEN"}
    BY OccamyConfiguration
  <2> QED
    BY <2>1, <2>2, <2>3, <2>4
<1>3. conf.staticBuffer = 0
  BY <1>1, <1>2, OccamyConfiguration
<1>4. p \in Places(conf)
  BY <1>2, QueueNumbers DEF QueuesOf
<1>5. p[1] \in Device /\ p[2] \in 0 .. conf.useqCnt - 1
  BY <1>1, <1>4, PlaceType
<1>6. /\ StaticBytes(s, d, p[2]) = Static(s, <<d, p[2]>>) /\ <<d, p[2]>> \in Places(conf)
      /\ Mmu(d) \in Mmus(conf)
      /\ Bytes(s, p[1], p[2]) = Held(s, <<p[1], p[2]>>) /\ <<p[1], p[2]>> \in Places(conf)
  BY <1>1, <1>5, Views
<1>7. Static(s, <<d, p[2]>>) = 0
  BY <1>3, <1>6 DEF Sound, Split
<1>8. Bytes(s, p[1], p[2]) \in Nat
  BY <1>1, <1>6, PlaceType
<1>9. qAlpha * (conf.maxBuffer - s.m_usedBuffer[Mmu(d)]) \in Nat
  <2>1. s.m_usedBuffer[Mmu(d)] \in 0 .. conf.maxBuffer
    BY <1>6, UsedCovers
  <2>2. conf.maxBuffer \in Nat /\ qAlpha \in Nat
    BY OccamyConfiguration
  <2> DEFINE x == conf.maxBuffer - s.m_usedBuffer[Mmu(d)]
  <2>3. x \in Nat
    BY <2>1, <2>2
  <2> HIDE DEF x
  <2>4. qAlpha * x \in Nat
    BY <2>2, <2>3
  <2> QED
    BY <2>4 DEF x
<1>10. Bytes(s, p[1], p[2]) > 0
  BY <1>2, <1>6, <1>7, <1>8, <1>9 DEF OverThreshold, GetQueueThreshold
<1> QED
  BY <1>2, <1>3, <1>10

\* Devices and their queues are numbers.
LEMMA PlacesAreNumbers ==
  ASSUME NEW c \in Config
  PROVE  Places(c) \subseteq Nat \X Nat
<1>1. IsFiniteSet(Device)
  BY PlacesFinite
<1>2. Cardinality(Device) \in Nat
  BY <1>1, FS_CardinalityType
<1>3. Device = 1 .. Cardinality(Device)
  BY OccamyConfiguration
<1> DEFINE n == Cardinality(Device)
<1> HIDE DEF n
<1>4. 1 .. n \subseteq Nat
  BY <1>2 DEF n
<1>5. \A e \in Device : e \in Nat
  BY <1>3, <1>4 DEF n
<1>6. c.useqCnt \in Nat
  BY OccamyConfiguration
<1> QED
  BY <1>5, <1>6 DEF Places

\* The head of a queue has been dropped, in state r of the switch.
Dropped(r, d, t) ==
  /\ Sound(conf, t)
  /\ SameTurn(r, t) /\ t.remaining = r.remaining /\ t.usedStaticBuffer = r.usedStaticBuffer
  /\ \E size \in PacketSize : Counting => t.token_num = r.token_num - size
  /\ \A p \in Positions(d) : OverThreshold(t, d, p) => OverThreshold(r, d, p)

\* DropHead does so.
LEMMA HeadDrops ==
  ASSUME conf \in Config, StaticSizes, NEW r, Sound(conf, r), NEW d \in Device,
         NEW p \in HeadDropQueue(r, d)
  PROVE  Dropped(r, d, DropHead(r, d, p))
<1> DEFINE size == Head(r.mq[p[1]].m_queues[p[2]])
           u == DeleteUsed([r EXCEPT !.mq[p[1]] = DequeueFrom(@, p[2])], d, size)
           t == TokenDelete(u, size)
<1>1. p \in Positions(d) /\ Bytes(r, p[1], p[2]) > conf.staticBuffer
  BY DropsFromOver
<1>2. Removed(conf, r, d, u, size)
  BY <1>1, HeadIsShared
<1>3. DropHead(r, d, p) = t
  BY DEF DropHead
<1> HIDE DEF size, u, t
<1>4. size \in PacketSize /\ size \in Nat
  BY <1>2, SizesAreNumbers DEF Removed
<1>5. Sound(conf, u)
  BY <1>2 DEF Removed
<1>6. /\ Sound(conf, t) /\ SameTurn(u, t) /\ t.remaining = u.remaining
      /\ t.m_usedBuffer = u.m_usedBuffer /\ t.mq = u.mq
      /\ t.usedStaticBuffer = u.usedStaticBuffer
      /\ Counting => t.token_num = u.token_num - size
  BY <1>4, <1>5, TokensPaid DEF t
<1>7. \A x \in Positions(d) : OverThreshold(t, d, x) => OverThreshold(r, d, x)
  <2> SUFFICES ASSUME NEW x \in Positions(d), OverThreshold(t, d, x)
               PROVE  OverThreshold(r, d, x)
    OBVIOUS
  <2>1. t.usedStaticBuffer = r.usedStaticBuffer
    BY <1>2, <1>6 DEF Removed
  <2>2. t.m_usedBuffer = [r.m_usedBuffer EXCEPT ![Mmu(d)] = @ - size]
    BY <1>2, <1>6 DEF Removed
  <2>3. \A y \in Places(conf) : Held(t, y) <= Held(r, y)
    BY <1>2, <1>6 DEF Removed, Held
  <2> QED
    BY <1>4, <1>6, <2>1, <2>2, <2>3, OverBefore
<1>8. SameTurn(r, t) /\ t.remaining = r.remaining /\ t.usedStaticBuffer = r.usedStaticBuffer
  BY <1>2, <1>6 DEF Removed, SameTurn
<1>9. Counting => t.token_num = r.token_num - size
  BY <1>2, <1>6 DEF Removed
<1> QED
  BY <1>3, <1>4, <1>6, <1>7, <1>8, <1>9 DEF Dropped

\* The tokens there are after n have been refilled.
RefilledTo(n) == IF n + 8 > 8 THEN 8 ELSE n + 8

\* TokenAdd first refills the tokens.
LEMMA Refills ==
  ASSUME NEW c \in Config, NEW s, Sound(c, s)
  PROVE  /\ Sound(c, Refill(s))
         /\ SameTurn(s, Refill(s)) /\ Refill(s).remaining = s.remaining
         /\ Refill(s).mq = s.mq /\ Refill(s).usedStaticBuffer = s.usedStaticBuffer
         /\ Refill(s).token_num = RefilledTo(s.token_num)
<1> DEFINE n == RefilledTo(s.token_num)
           t == [s EXCEPT !.token_num = n]
<1>1. s \in SwitchType(c)
  BY DEF Sound
<1>2. Refill(s) = t
  BY <1>1 DEF Refill, SwitchType, RefilledTo
<1>3. n \in Int
  BY <1>1 DEF SwitchType, RefilledTo
<1> HIDE DEF n
<1>4. /\ t \in SwitchType(c) /\ t.mq = s.mq /\ t.usedStaticBuffer = s.usedStaticBuffer
      /\ t.m_usedBuffer = s.m_usedBuffer /\ t.remaining = s.remaining /\ t.token_num = n
      /\ t.generator = s.generator /\ t.last_head_drop = s.last_head_drop
  BY <1>1, <1>3 DEF SwitchType
<1> HIDE DEF t
<1>5. Sound(c, t)
  BY <1>4, OtherFields
<1> QED
  BY <1>2, <1>4, <1>5 DEF SameTurn, n

\* The state and the queues that TokenAdd leaves, r being the state refilled: no
\* queue has come over its threshold, and either nothing was dropped or one head
\* of the queues whose turn it was, for tokens that were there.
Advanced(r, d, a) ==
  /\ Sound(conf, a.sw)
  /\ a.sw.generator = r.generator /\ a.sw.remaining = r.remaining
  /\ a.sw.usedStaticBuffer = r.usedStaticBuffer
  /\ \A p \in Positions(d) : OverThreshold(a.sw, d, p) => OverThreshold(r, d, p)
  /\ \/ a.from = {} /\ a.sw = r
     \/ /\ a.from = HeadDropQueue(r, d) /\ a.from # {} /\ MayDrop(r)
        /\ conf.m_dropType = "TOKEN" => a.sw.last_head_drop \in a.from
        /\ conf.m_dropType # "TOKEN" => a.sw.last_head_drop = r.last_head_drop
        /\ \E size \in PacketSize : Counting => a.sw.token_num = r.token_num - size

\* That is what it does.
LEMMA TokensAdded ==
  ASSUME conf \in Config, StaticSizes, NEW s, Sound(conf, s), NEW d \in Device
  PROVE  Advanced(Refill(s), d, TokenAdd(s, d))
<1> DEFINE r == Refill(s)
           from == IF MayDrop(r) THEN HeadDropQueue(r, d) ELSE {}
           p == CHOOSE x \in from : TRUE
           t == DropHead(r, d, p)
           last == IF conf.m_dropType = "TOKEN" THEN p ELSE t.last_head_drop
           u == [t EXCEPT !.last_head_drop = last]
<1>1. Sound(conf, r)
  BY Refills
<1>2. CASE from = {}
  <2>1. TokenAdd(s, d) = [sw |-> r, from |-> {}]
    BY <1>2 DEF TokenAdd
  <2>2. Refill(s) = r
    OBVIOUS
  <2> HIDE DEF r
  <2> QED
    BY <1>1, <2>1, <2>2 DEF Advanced
<1>3. CASE from # {}
  <2>1. p \in from
    BY <1>3
  <2>2. p \in HeadDropQueue(r, d) /\ MayDrop(r) /\ from = HeadDropQueue(r, d)
    BY <2>1
  <2>3. TokenAdd(s, d) = [sw |-> [DropHead(r, d, p) EXCEPT
                            !.last_head_drop = IF conf.m_dropType = "TOKEN" THEN p ELSE @],
                          from |-> from]
    BY <1>3 DEF TokenAdd
  <2>15. Refill(s) = r
    OBVIOUS
  <2> HIDE DEF r, from, p
  <2>4. Dropped(r, d, t)
    BY <1>1, <2>2, HeadDrops
  <2>5. t \in SwitchType(conf) /\ Sound(conf, t)
    BY <2>4 DEF Dropped, Sound
  <2>6. p \in Positions(d)
    BY <1>1, <2>2, DropsFromOver
  <2>7. last \in Nat \X Nat
    <3>1. p \in Places(conf)
      BY <2>6, QueueNumbers DEF QueuesOf
    <3>2. p \in Nat \X Nat
      BY <3>1, PlacesAreNumbers
    <3>3. t.last_head_drop \in Nat \X Nat
      BY <2>5 DEF SwitchType
    <3> QED
      BY <3>2, <3>3
  <2>8. TokenAdd(s, d) = [sw |-> u, from |-> from]
    BY <2>3, <2>5 DEF SwitchType
  <2> HIDE DEF t, last
  <2>9. /\ u \in SwitchType(conf) /\ u.mq = t.mq /\ u.usedStaticBuffer = t.usedStaticBuffer
        /\ u.m_usedBuffer = t.m_usedBuffer /\ u.remaining = t.remaining
        /\ u.generator = t.generator /\ u.token_num = t.token_num /\ u.last_head_drop = last
    BY <2>5, <2>7 DEF SwitchType
  <2> HIDE DEF u
  <2>10. Sound(conf, u)
    BY <2>5, <2>9, OtherFields
  <2>11. /\ u.generator = r.generator /\ u.remaining = r.remaining
         /\ u.usedStaticBuffer = r.usedStaticBuffer
         /\ t.last_head_drop = r.last_head_drop
    BY <2>4, <2>9 DEF Dropped, SameTurn
  <2>12. \A x \in Positions(d) : OverThreshold(u, d, x) => OverThreshold(r, d, x)
    <3>1. \A x : OverThreshold(u, d, x) <=> OverThreshold(t, d, x)
      BY <2>9 DEF OverThreshold, Bytes, StaticBytes, GetQueueThreshold
    <3> QED
      BY <2>4, <3>1 DEF Dropped
  <2>13. /\ conf.m_dropType = "TOKEN" => u.last_head_drop \in from
         /\ conf.m_dropType # "TOKEN" => u.last_head_drop = r.last_head_drop
    BY <2>1, <2>9, <2>11 DEF last
  <2>14. \E size \in PacketSize : Counting => u.token_num = r.token_num - size
    BY <2>4, <2>9 DEF Dropped
  <2> QED
    BY <2>1, <2>2, <2>8, <2>10, <2>11, <2>12, <2>13, <2>14, <2>15 DEF Advanced
<1> QED
  BY <1>2, <1>3

-------------------------------------------------------------------------------
(* The invariant *)

\* The memory is sound; the last head drop was in the generator's MMU; and before
\* there is a generator, switches whose packets all pay are idle and empty.
SwitchInv(c, s) ==
  /\ Sound(c, s)
  /\ s.generator # None => s.last_head_drop \in QueuesOf(c, MmuOf(c, s.generator))
  /\ s.generator = None /\ PaysTokens(c) =>
       /\ \A d \in Device : s.remaining[d] = Idle
       /\ \A p \in Places(c) : Held(s, p) = 0

\* The first packet that asks for shared memory has been seen, from device d.
Begun(s, d, t) ==
  /\ Sound(conf, t)
  /\ t.usedStaticBuffer = s.usedStaticBuffer /\ t.remaining = s.remaining
  /\ s.generator # None \/ ~Counting => t = s
  /\ s.generator = None /\ Counting =>
       /\ t.generator = d
       /\ t.last_head_drop \in Positions(d)
       /\ PaysTokens(conf) => t.token_num = RefilledTo(s.token_num)

\* Where nothing is stored nothing is dropped.
LEMMA NothingToDrop ==
  ASSUME conf \in Config, NEW s, Sound(conf, s), NEW d \in Device,
         \A p \in Places(conf) : Held(s, p) = 0
  PROVE  HeadDropQueue(s, d) = {}
<1> SUFFICES ASSUME NEW p \in HeadDropQueue(s, d) PROVE FALSE
  OBVIOUS
<1>1. p \in Positions(d) /\ conf.staticBuffer = 0 /\ Bytes(s, p[1], p[2]) > conf.staticBuffer
  BY DropsFromOver
<1>2. s \in SwitchType(conf) /\ p \in Places(conf)
  BY <1>1, QueueNumbers DEF QueuesOf, Sound
<1>3. p[1] \in Device /\ p[2] \in 0 .. conf.useqCnt - 1
  BY <1>2, PlaceType
<1>4. Bytes(s, p[1], p[2]) = Held(s, <<p[1], p[2]>>) /\ <<p[1], p[2]>> \in Places(conf)
  BY <1>2, <1>3, Views
<1> QED
  BY <1>1, <1>4

\* A device becomes the generator.
LEMMA TokensBegin ==
  ASSUME conf \in Config, StaticSizes, NEW s, SwitchInv(conf, s), NEW d \in Device
  PROVE  Begun(s, d, StartTokens(s, d))
<1>1. CASE s.generator # None \/ ~Counting
  <2>1. StartTokens(s, d) = s
    BY <1>1 DEF StartTokens, Counting
  <2> QED
    BY <1>1, <2>1 DEF Begun, SwitchInv
<1>2. CASE s.generator = None /\ Counting
  <2> DEFINE first == <<Mmu(d) * conf.group + 1, 0>>
             b == [s EXCEPT !.generator = d, !.last_head_drop = first]
             r == Refill(b)
             a == TokenAdd(b, d)
  <2>1. s \in SwitchType(conf) /\ Sound(conf, s)
    BY DEF SwitchInv, Sound
  <2>2. StartTokens(s, d) = a.sw
    BY <1>2 DEF StartTokens, Counting
  <2>3. first \in Positions(d) /\ first \in Nat \X Nat
    BY QueueNumbers, PlacesAreNumbers DEF QueuesOf
  <2> HIDE DEF first
  <2>4. /\ b \in SwitchType(conf) /\ b.mq = s.mq /\ b.usedStaticBuffer = s.usedStaticBuffer
        /\ b.m_usedBuffer = s.m_usedBuffer /\ b.remaining = s.remaining
        /\ b.token_num = s.token_num /\ b.generator = d /\ b.last_head_drop = first
    BY <2>1, <2>3 DEF SwitchType
  <2> HIDE DEF b
  <2>5. Sound(conf, b)
    BY <2>1, <2>4, OtherFields
  <2>6. /\ Sound(conf, r) /\ SameTurn(b, r) /\ r.remaining = b.remaining
        /\ r.usedStaticBuffer = b.usedStaticBuffer /\ r.mq = b.mq
        /\ r.token_num = RefilledTo(b.token_num)
    BY <2>5, Refills
  <2>7. Advanced(r, d, a)
    BY <2>5, TokensAdded
  <2> HIDE DEF r, a
  <2>8. Sound(conf, a.sw) /\ a.sw.usedStaticBuffer = s.usedStaticBuffer
        /\ a.sw.remaining = s.remaining /\ a.sw.generator = d
    BY <2>4, <2>6, <2>7 DEF Advanced, SameTurn
  <2>9. a.sw.last_head_drop \in Positions(d)
    <3>1. r.last_head_drop \in Positions(d)
      BY <2>3, <2>4, <2>6 DEF SameTurn
    <3>2. HeadDropQueue(r, d) \subseteq Positions(d)
      BY <2>6, DropsFromOver
    <3> QED
      BY <2>7, <3>1, <3>2 DEF Advanced
  <2>10. PaysTokens(conf) => a.sw.token_num = RefilledTo(s.token_num)
    <3> SUFFICES ASSUME PaysTokens(conf) PROVE a.sw.token_num = RefilledTo(s.token_num)
      OBVIOUS
    <3>1. \A p \in Places(conf) : Held(r, p) = 0
      BY <1>2, <2>4, <2>6 DEF SwitchInv, Held
    <3>2. HeadDropQueue(r, d) = {}
      BY <2>6, <3>1, NothingToDrop
    <3>3. a.sw = r
      BY <2>7, <3>2 DEF Advanced
    <3> QED
      BY <2>4, <2>6, <3>3
  <2> QED
    BY <1>2, <2>2, <2>8, <2>9, <2>10 DEF Begun
<1> QED
  BY <1>1, <1>2

\* What AcceptPacket leaves, a packet having arrived for device d: what may be
\* stored has room.
Accepted(s, d, size, a) ==
  /\ Sound(conf, a.sw)
  /\ a.sw.usedStaticBuffer = s.usedStaticBuffer /\ a.sw.remaining = s.remaining
  /\ a.ok => Fits(a.sw, d, size)
  /\ s.generator # None \/ ~Counting =>
       SameTurn(s, a.sw) /\ a.sw.token_num = s.token_num
  /\ s.generator = None /\ Counting =>
       /\ a.sw.generator = d
       /\ a.sw.last_head_drop \in Positions(d)
       /\ PaysTokens(conf) => a.sw.token_num = RefilledTo(s.token_num)

\* By threshold, with tokens, or after pushing packets out.
LEMMA PacketAccepted ==
  ASSUME conf \in Config, StaticSizes, NEW s, SwitchInv(conf, s), NEW d \in Device, NEW q,
         NEW size \in conf.sizes
  PROVE  Accepted(s, d, size, AcceptPacket(s, d, q, size))
<1>1. Sound(conf, s) /\ s \in SwitchType(conf)
  BY DEF SwitchInv, Sound
<1>2. CASE conf.enqueueMethod = "DT"
  <2> DEFINE a == AcceptPacket(s, d, q, size)
  <2>1. a = [sw |-> s, ok |-> Fits(s, d, size) /\ BelowThreshold(s, d, q, size)]
    BY <1>2 DEF AcceptPacket
  <2>2. ~Counting
    BY <1>2 DEF Counting
  <2> HIDE DEF a
  <2>3. a.sw = s /\ (a.ok => Fits(s, d, size))
    BY <2>1
  <2>4. Accepted(s, d, size, a)
    BY <1>1, <2>2, <2>3 DEF Accepted, SameTurn
  <2> QED
    BY <2>4 DEF a
<1>3. CASE conf.enqueueMethod = "MULTILAYER_DT"
  <2> DEFINE t == StartTokens(s, d)
             a == AcceptPacket(s, d, q, size)
  <2>1. Begun(s, d, t)
    BY TokensBegin
  <2>2. a = [sw |-> t, ok |-> /\ Fits(t, d, size)
                              /\ Shared(t, d, q) = 0 \/ BelowThreshold(t, d, q, size)]
    BY <1>3 DEF AcceptPacket
  <2> HIDE DEF t, a
  <2>3. a.sw = t /\ (a.ok => Fits(t, d, size))
    BY <2>2
  <2>4. s.generator # None \/ ~Counting => SameTurn(s, t) /\ t.token_num = s.token_num
    BY <2>1 DEF Begun, SameTurn
  <2>5. Accepted(s, d, size, a)
    BY <2>1, <2>3, <2>4 DEF Accepted, Begun
  <2> QED
    BY <2>5 DEF a
<1>4. CASE conf.enqueueMethod = "PUSHOUT"
  <2>1. ~Counting
    BY <1>4 DEF Counting
  <2>2. CASE Fits(s, d, size)
    <3>1. AcceptPacket(s, d, q, size) = [sw |-> s, ok |-> TRUE]
      BY <1>4, <2>2 DEF AcceptPacket
    <3> QED
      BY <1>1, <2>1, <2>2, <3>1 DEF Accepted, SameTurn
  <2>3. CASE ~Fits(s, d, size)
    <3> DEFINE b == PushOut(s, d, q, size)
               a == AcceptPacket(s, d, q, size)
    <3>1. a = [sw |-> b.sw, ok |-> b.ok]
      BY <1>4, <2>3 DEF AcceptPacket, MakeRoom
    <3>2. Pushed(s, d, size, size, b)
      BY <1>1, <2>3, PushedOut
    <3>3. s.m_usedBuffer[Mmu(d)] \in 0 .. conf.maxBuffer
      BY <1>1, Views, UsedCovers
    <3> HIDE DEF a, b
    <3>4. b.ok => Fits(b.sw, d, size)
      <4>1. /\ b.sw.m_usedBuffer[Mmu(d)] = s.m_usedBuffer[Mmu(d)] - b.space
            /\ b.space \in Nat /\ size \in Nat /\ conf.maxBuffer \in Nat
            /\ b.ok => b.space >= size
        BY <3>2, SizesAreNumbers, OccamyConfiguration DEF Pushed
      <4> QED
        BY <3>3, <4>1 DEF Fits
    <3>5. Accepted(s, d, size, a)
      BY <2>1, <3>1, <3>2, <3>4 DEF Accepted, Pushed
    <3> QED
      BY <3>5 DEF a
  <2> QED
    BY <2>2, <2>3
<1>5. conf.enqueueMethod \in {"DT", "MULTILAYER_DT", "PUSHOUT"}
  BY OccamyConfiguration DEF Methods
<1> QED
  BY <1>2, <1>3, <1>4, <1>5

\* What SendSwitch leaves, a packet having arrived for device d: the packet is
\* transmitted only by a device that was READY, which pays, and the first one to
\* ask for shared memory makes the switch add tokens.
Sent(s, d, t) ==
  /\ SwitchInv(conf, t)
  /\ s.generator # None \/ ~Counting => SameTurn(s, t)
  /\ s.generator = None => t.generator \in {None, d}
  /\ PaysTokens(conf) =>
       LET tokens == IF s.generator = None THEN RefilledTo(s.token_num) ELSE s.token_num
       IN  \/ t.remaining = s.remaining /\ t.token_num = tokens
           \/ /\ s.remaining[d] = Idle
              /\ \E size \in PacketSize :
                   /\ t.remaining = [s.remaining EXCEPT ![d] = Duration[size]]
                   /\ t.token_num = tokens - size

\* The packet having been accepted, with the state a, it is stored or not.
LEMMA AcceptedSends ==
  ASSUME conf \in Config, StaticSizes, NEW s, SwitchInv(conf, s), NEW d \in Device,
         NEW size \in conf.sizes, NEW a, Accepted(s, d, size, a), NEW t,
         t = a.sw \/ Stored(conf, a.sw, d, t)
  PROVE  Sent(s, d, t)
<1>1. Sound(conf, t) /\ SameTurn(a.sw, t)
  BY DEF Accepted, Stored, SameTurn
<1>2. s.generator # None \/ ~Counting => SameTurn(s, t)
  BY <1>1 DEF Accepted, SameTurn
<1>3. s.generator = None /\ Counting => /\ t.generator = d
                                        /\ t.last_head_drop \in Positions(d)
  BY <1>1 DEF Accepted, SameTurn
<1>4. s.generator = None => t.generator \in {None, d}
  BY <1>2, <1>3 DEF SameTurn
<1>5. t.generator # None => t.last_head_drop \in QueuesOf(conf, MmuOf(conf, t.generator))
  <2>1. CASE s.generator # None \/ ~Counting
    BY <1>2, <2>1 DEF SwitchInv, SameTurn
  <2>2. CASE s.generator = None /\ Counting
    <3>1. s \in SwitchType(conf)
      BY DEF SwitchInv, Sound
    <3>2. Mmu(d) = MmuOf(conf, d)
      BY <3>1, Views
    <3> QED
      BY <1>3, <2>2, <3>2, QueueNumbers
  <2> QED
    BY <2>1, <2>2
<1>6. ~(t.generator = None /\ PaysTokens(conf))
  <2>1. d # None
    <3>1. <<d, 0>> \in Places(conf)
      BY QueueNumbers DEF QueuesOf
    <3> QED
      BY <3>1, PlacesAreNumbers DEF None
  <2>2. PaysTokens(conf) => Counting
    BY DEF PaysTokens, Counting
  <2> QED
    BY <1>2, <1>3, <2>1, <2>2 DEF SameTurn
<1>7. SwitchInv(conf, t)
  BY <1>1, <1>5, <1>6 DEF SwitchInv
<1>8. ASSUME PaysTokens(conf), NEW tokens,
             tokens = IF s.generator = None THEN RefilledTo(s.token_num) ELSE s.token_num
      PROVE  \/ t.remaining = s.remaining /\ t.token_num = tokens
             \/ /\ s.remaining[d] = Idle
                /\ \E z \in PacketSize :
                     /\ t.remaining = [s.remaining EXCEPT ![d] = Duration[z]]
                     /\ t.token_num = tokens - z
  <2>1. Counting
    BY <1>8 DEF PaysTokens, Counting
  <2>2. a.sw.token_num = tokens /\ a.sw.remaining = s.remaining
    BY <1>8, <2>1 DEF Accepted
  <2> QED
    BY <1>8, <2>2 DEF Stored
<1> QED
  BY <1>2, <1>4, <1>7, <1>8 DEF Sent

\* SendSwitch, for packets of every size and for queues not in use.
LEMMA SwitchSends ==
  ASSUME conf \in Config, StaticSizes, NEW s, SwitchInv(conf, s), NEW d \in Device,
         NEW q \in 0 .. conf.useqCnt, NEW size \in conf.sizes
  PROVE  Sent(s, d, SendSwitch(s, d, q, size))
<1> DEFINE a == AcceptPacket(s, d, q, size)
           e == [s EXCEPT !.usedStaticBuffer[d][q] = @ + size]
<1>1. Sound(conf, s) /\ s \in SwitchType(conf)
  BY DEF SwitchInv, Sound
<1>2. /\ size \in Nat \ {0} /\ conf.useqCnt \in Nat \ {0} /\ conf.staticBuffer \in Nat
  BY SizesAreNumbers, OccamyConfiguration
<1>3. Subqueues(s.mq[d]) = 0 .. conf.useqCnt - 1
  BY <1>1, Views
<1>4. CASE StaticBytes(s, d, q) + size <= conf.staticBuffer
  <2>1. conf.staticBuffer # 0
    <3>1. q \in Subqueues(s.mq[d]) => StaticBytes(s, d, q) \in Nat
      <4> SUFFICES ASSUME q \in Subqueues(s.mq[d]) PROVE StaticBytes(s, d, q) \in Nat
        OBVIOUS
      <4>1. <<d, q>> \in Places(conf) /\ StaticBytes(s, d, q) = Static(s, <<d, q>>)
        BY <1>1, <1>3, Views
      <4> QED
        BY <1>1, <1>2, <4>1 DEF Sound, Split
    <3>2. q \notin Subqueues(s.mq[d]) => StaticBytes(s, d, q) = 0
      BY DEF StaticBytes
    <3> QED
      BY <1>2, <1>4, <3>1, <3>2
  <2>2. ~PaysTokens(conf)
    BY <2>1 DEF PaysTokens
  <2>3. CASE q \in Subqueues(s.mq[d])
    <3> DEFINE t == EnqueueAndSend(e, d, q, size)
    <3>1. SendSwitch(s, d, q, size) = t
      BY <1>4, <2>3 DEF SendSwitch
    <3>2. Stored(conf, s, d, t)
      BY <1>1, <1>3, <1>4, <2>3, StoreStatic
    <3> HIDE DEF t
    <3>3. Sound(conf, t) /\ SameTurn(s, t)
      BY <3>2 DEF Stored
    <3>4. SwitchInv(conf, t)
      BY <2>2, <3>3 DEF SwitchInv, SameTurn
    <3> QED
      BY <2>2, <3>1, <3>3, <3>4 DEF Sent, SameTurn
  <2>4. CASE q \notin Subqueues(s.mq[d])
    <3>1. SendSwitch(s, d, q, size) = s
      BY <1>4, <2>4 DEF SendSwitch
    <3> QED
      BY <2>2, <3>1 DEF Sent, SameTurn
  <2> QED
    BY <2>3, <2>4
<1>5. CASE ~(StaticBytes(s, d, q) + size <= conf.staticBuffer)
  <2>1. Accepted(s, d, size, a)
    BY PacketAccepted
  <2> HIDE DEF a
  <2>2. CASE a.ok /\ q \in Subqueues(s.mq[d])
    <3> DEFINE t == EnqueueAndSend(AddUsed(a.sw, d, size), d, q, size)
    <3>1. SendSwitch(s, d, q, size) = t
      BY <1>5, <2>2 DEF SendSwitch, a
    <3>2. Sound(conf, a.sw) /\ a.sw \in SwitchType(conf) /\ Fits(a.sw, d, size)
      BY <2>1, <2>2 DEF Accepted, Sound
    <3>3. q \in 0 .. conf.useqCnt - 1
      BY <1>3, <2>2
    <3>4. StaticBytes(a.sw, d, q) + size > conf.staticBuffer
      <4>1. /\ StaticBytes(s, d, q) = Static(s, <<d, q>>)
            /\ StaticBytes(a.sw, d, q) = Static(a.sw, <<d, q>>)
            /\ <<d, q>> \in Places(conf)
        BY <1>1, <3>2, <3>3, Views
      <4>2. Static(a.sw, <<d, q>>) = Static(s, <<d, q>>)
        BY <2>1 DEF Accepted, Static
      <4>3. Static(s, <<d, q>>) \in Int
        BY <1>1, <4>1, PlaceType
      <4> QED
        BY <1>2, <1>5, <4>1, <4>2, <4>3
    <3>5. Stored(conf, a.sw, d, t)
      BY <3>2, <3>3, <3>4, StoreShared
    <3> HIDE DEF t
    <3>6. Sent(s, d, t)
      BY <2>1, <3>5, AcceptedSends
    <3> QED
      BY <3>1, <3>6
  <2>3. CASE ~(a.ok /\ q \in Subqueues(s.mq[d]))
    <3>1. SendSwitch(s, d, q, size) = a.sw
      BY <1>5, <2>3 DEF SendSwitch, a
    <3> DEFINE t == a.sw
    <3>2. Sent(s, d, t)
      BY <2>1, AcceptedSends
    <3> QED
      BY <3>1, <3>2
  <2> QED
    BY <2>2, <2>3
<1> QED
  BY <1>4, <1>5

\* A completed transmission.
LEMMA CompletionKeeps ==
  ASSUME conf \in Config, StaticSizes, NEW s, SwitchInv(conf, s), NEW d \in Device,
         s.remaining[d] = 0
  PROVE  /\ SwitchInv(conf, Transmit(s, d))
         /\ SameTurn(s, Transmit(s, d))
         /\ Transmitted(conf, s, d, Transmit(s, d))
<1> DEFINE t == Transmit(s, d)
<1>1. Transmitted(conf, s, d, t)
  BY TransmitServes DEF SwitchInv
<1> HIDE DEF t
<1>2. Sound(conf, t) /\ SameTurn(s, t)
  BY <1>1 DEF Transmitted
<1>3. ~(s.generator = None /\ PaysTokens(conf))
  BY DEF SwitchInv, Idle
<1>4. SwitchInv(conf, t)
  BY <1>2, <1>3 DEF SwitchInv, SameTurn
<1> QED
  BY <1>1, <1>2, <1>4 DEF t

\* Time that passes.
LEMMA TimeKeeps ==
  ASSUME NEW c \in Config, NEW s, SwitchInv(c, s),
         NEW left \in [Device -> Nat \cup {Idle}], s.generator # None \/ ~PaysTokens(c),
         NEW t, t = [s EXCEPT !.remaining = left]
  PROVE  /\ SwitchInv(c, t) /\ SameTurn(s, t)
         /\ t.remaining = left /\ t.token_num = s.token_num
<1>1. Sound(c, s) /\ s \in SwitchType(c)
  BY DEF SwitchInv, Sound
<1>2. /\ t \in SwitchType(c) /\ t.mq = s.mq /\ t.usedStaticBuffer = s.usedStaticBuffer
      /\ t.m_usedBuffer = s.m_usedBuffer /\ t.remaining = left /\ t.token_num = s.token_num
      /\ t.generator = s.generator /\ t.last_head_drop = s.last_head_drop
  BY <1>1 DEF SwitchType
<1>3. Sound(c, t)
  BY <1>1, <1>2, OtherFields
<1> QED
  BY <1>2, <1>3 DEF SwitchInv, SameTurn

\* The transmissions one interval later.
Elapsed(s) == [d \in Device |-> IF s.remaining[d] > 0 THEN s.remaining[d] - 1 ELSE s.remaining[d]]

\* An interval of TokenAdd, from state s; r is the state when tokens are refilled.
IntervalOver(s, r, a) ==
  /\ SwitchInv(conf, a.sw)
  /\ SameTurn(s, r) /\ r.remaining = Elapsed(s) /\ r.token_num = RefilledTo(s.token_num)
  /\ Sound(conf, r)
  /\ Advanced(r, s.generator, a)

\* It keeps the invariant.
LEMMA IntervalKeeps ==
  ASSUME conf \in Config, StaticSizes, NEW s, SwitchInv(conf, s), s.generator # None
  PROVE  \E r : IntervalOver(s, r, TokenAdd([s EXCEPT !.remaining = Elapsed(s)], s.generator))
<1> DEFINE b == [s EXCEPT !.remaining = Elapsed(s)]
           d == s.generator
           r == Refill(b)
           a == TokenAdd(b, d)
<1>1. Sound(conf, s) /\ s \in SwitchType(conf)
  BY DEF SwitchInv, Sound
<1>2. d \in Device
  BY <1>1 DEF SwitchType
<1>3. Elapsed(s) \in [Device -> Nat \cup {Idle}]
  <2>1. \A e \in Device : s.remaining[e] \in Nat \cup {Idle}
    BY <1>1 DEF SwitchType
  <2> QED
    BY <2>1 DEF Elapsed, Idle
<1>4. /\ SwitchInv(conf, b) /\ SameTurn(s, b)
      /\ b.remaining = Elapsed(s) /\ b.token_num = s.token_num
  <2> HIDE DEF b
  <2>1. b = [s EXCEPT !.remaining = Elapsed(s)]
    BY DEF b
  <2> QED
    BY <1>3, <2>1, TimeKeeps
<1> HIDE DEF b
<1>5. Sound(conf, b)
  BY <1>4 DEF SwitchInv
<1>6. /\ Sound(conf, r) /\ SameTurn(b, r) /\ r.remaining = b.remaining
      /\ r.token_num = RefilledTo(b.token_num)
  BY <1>5, Refills
<1>7. Advanced(r, d, a)
  BY <1>2, <1>5, TokensAdded
<1> HIDE DEF r, a
<1>8. SameTurn(s, r) /\ r.remaining = Elapsed(s) /\ r.token_num = RefilledTo(s.token_num)
  BY <1>4, <1>6 DEF SameTurn
<1>9. Positions(d) = QueuesOf(conf, MmuOf(conf, d))
  BY <1>1, <1>2, QueueNumbers, Views
<1>10. a.sw.last_head_drop \in Positions(d)
  <2>1. r.last_head_drop \in Positions(d)
    BY <1>8, <1>9 DEF SwitchInv, SameTurn
  <2>2. HeadDropQueue(r, d) \subseteq Positions(d)
    BY <1>2, <1>6, DropsFromOver
  <2> QED
    BY <1>7, <2>1, <2>2 DEF Advanced
<1>11. SwitchInv(conf, a.sw)
  BY <1>7, <1>8, <1>9, <1>10 DEF SwitchInv, Advanced, SameTurn
<1>12. IntervalOver(s, r, a)
  BY <1>6, <1>7, <1>8, <1>11 DEF IntervalOver
<1> QED
  BY <1>12 DEF a, b

\* The switch begins empty, idle and without a generator.
LEMMA SwitchBegins ==
  ASSUME Init, StaticSizes
  PROVE  conf \in Config /\ SwitchInv(conf, sw)
<1>1. PICK c \in Config :
        /\ conf = c
        /\ sw = [mq |-> [d \in Device |-> NewMultipleQueue(c.dequeueType, c.useqCnt)],
                 usedStaticBuffer |-> [d \in Device |-> [q \in 0 .. c.useqCnt - 1 |-> 0]],
                 m_usedBuffer |-> [d \in {(e - 1) \div c.group : e \in Device} |-> 0],
                 remaining |-> [d \in Device |-> Idle],
                 token_num |-> 0,
                 generator |-> None,
                 last_head_drop |-> <<1, 0>>]
  BY DEF Init
<1>2. /\ sw.mq = [d \in Device |-> NewMultipleQueue(c.dequeueType, c.useqCnt)]
      /\ sw.usedStaticBuffer = [d \in Device |-> [q \in 0 .. c.useqCnt - 1 |-> 0]]
      /\ sw.m_usedBuffer = [m \in Mmus(c) |-> 0]
      /\ sw.remaining = [d \in Device |-> Idle] /\ sw.token_num = 0
      /\ sw.generator = None /\ sw.last_head_drop = <<1, 0>>
      /\ sw = [mq |-> sw.mq, usedStaticBuffer |-> sw.usedStaticBuffer,
               m_usedBuffer |-> sw.m_usedBuffer, remaining |-> sw.remaining,
               token_num |-> sw.token_num, generator |-> sw.generator,
               last_head_drop |-> sw.last_head_drop]
  BY <1>1 DEF Mmus, MmuOf
<1>3. c.useqCnt \in Nat \ {0} /\ c.staticBuffer \in Nat /\ c.maxBuffer \in Nat
  BY OccamyConfiguration
<1>4. NewMultipleQueue(c.dequeueType, c.useqCnt) \in SwitchQueue(c)
  <2>1. 7 % c.useqCnt \in 0 .. c.useqCnt - 1 /\ 2 % c.useqCnt \in 0 .. c.useqCnt - 1
    <3> DEFINE U == c.useqCnt
    <3>1. U \in Nat \ {0}
      BY <1>3
    <3> HIDE DEF U
    <3>2. 7 % U \in 0 .. U - 1 /\ 2 % U \in 0 .. U - 1
      BY <3>1, Around
    <3> QED
      BY <3>2 DEF U
  <2> DEFINE a == 7 % c.useqCnt
             b == 2 % c.useqCnt
  <2>2. NewMultipleQueue(c.dequeueType, c.useqCnt) =
          [m_dequeueType |-> c.dequeueType, m_useqCnt |-> c.useqCnt,
           m_queues |-> [q \in 0 .. c.useqCnt - 1 |-> <<>>],
           m_deindex |-> a, drr_index |-> b,
           m_drr_num |-> [q \in 0 .. c.useqCnt - 1 |-> 0]]
    BY DEF NewMultipleQueue
  <2>3. <<>> \in Seq(c.sizes)
    OBVIOUS
  <2> DEFINE Q == 0 .. c.useqCnt - 1
  <2>4. a \in Q /\ b \in Q
    BY <2>1
  <2> HIDE DEF a, b, Q
  <2>5. NewMultipleQueue(c.dequeueType, c.useqCnt) =
          [m_dequeueType |-> c.dequeueType, m_useqCnt |-> c.useqCnt,
           m_queues |-> [q \in Q |-> <<>>],
           m_deindex |-> a, drr_index |-> b,
           m_drr_num |-> [q \in Q |-> 0]]
    BY <2>2 DEF Q
  <2>6. [q \in Q |-> <<>>] \in [Q -> Seq(c.sizes)] /\ [q \in Q |-> 0] \in [Q -> Int]
    BY <2>3
  <2>7. NewMultipleQueue(c.dequeueType, c.useqCnt) \in
          [m_dequeueType : {c.dequeueType}, m_useqCnt : {c.useqCnt},
           m_queues : [Q -> Seq(c.sizes)], m_deindex : Q, drr_index : Q,
           m_drr_num : [Q -> Int]]
    BY <2>4, <2>5, <2>6
  <2> QED
    BY <2>7 DEF SwitchQueue, Q
<1>5. sw \in SwitchType(c)
  <2>1. sw.mq \in [Device -> SwitchQueue(c)]
    BY <1>2, <1>4
  <2>2. sw.usedStaticBuffer \in [Device -> [0 .. c.useqCnt - 1 -> Int]]
    BY <1>2
  <2>3. sw.m_usedBuffer \in [Mmus(c) -> Int]
    BY <1>2
  <2>4. sw.remaining \in [Device -> Nat \cup {Idle}]
    BY <1>2
  <2> QED
    BY <1>2, <2>1, <2>2, <2>3, <2>4 DEF SwitchType
<1>6. \A p \in Places(c) : Held(sw, p) = 0 /\ Static(sw, p) = 0
  <2> SUFFICES ASSUME NEW p \in Places(c) PROVE Held(sw, p) = 0 /\ Static(sw, p) = 0
    OBVIOUS
  <2>1. p[1] \in Device /\ p[2] \in 0 .. c.useqCnt - 1
    BY DEF Places
  <2>2. sw.mq[p[1]].m_queues = [q \in 0 .. c.useqCnt - 1 |-> <<>>]
    BY <1>2, <2>1 DEF NewMultipleQueue
  <2>3. sw.mq[p[1]].m_queues[p[2]] = <<>> /\ sw.usedStaticBuffer[p[1]][p[2]] = 0
    <3> DEFINE d == p[1]
               q == p[2]
               Q == 0 .. c.useqCnt - 1
               line == sw.mq[d].m_queues
               static == sw.usedStaticBuffer
    <3>1. d \in Device /\ q \in Q /\ line = [y \in Q |-> <<>>]
      BY <2>1, <2>2
    <3>2. static = [e \in Device |-> [y \in Q |-> 0]]
      BY <1>2
    <3> HIDE DEF d, q, Q, line, static
    <3>3. line[q] = <<>> /\ static[d][q] = 0
      BY <3>1, <3>2
    <3> QED
      BY <3>3 DEF d, q, line, static
  <2> QED
    BY <2>3, EmptyQueue DEF Held, Static
<1>7. Sound(c, sw)
  <2>1. \A p \in Places(c) : Split(c, Held(sw, p), Static(sw, p))
    BY <1>6, SplitsAreSound, SplitEmpty
  <2>2. \A m \in Mmus(c) : sw.m_usedBuffer[m] = 0 /\ SharedOf(c, sw, m) = 0
    <3> SUFFICES ASSUME NEW m \in Mmus(c) PROVE sw.m_usedBuffer[m] = 0 /\ SharedOf(c, sw, m) = 0
      OBVIOUS
    <3> DEFINE S == QueuesOf(c, m)
               w == [p \in S |-> Held(sw, p) - Static(sw, p)]
    <3>1. \A p \in S : w[p] = 0
      BY <1>6 DEF QueuesOf
    <3> HIDE DEF S, w
    <3>2. Total(S, w) = 0
      BY <3>1, TotalZero
    <3> QED
      BY <1>2, <3>2 DEF SharedOf, S, w
  <2> QED
    BY <1>3, <1>5, <2>1, <2>2 DEF Sound
<1>8. \A d \in Device : sw.remaining[d] = Idle
  BY <1>2
<1>9. SwitchInv(c, sw)
  BY <1>2, <1>6, <1>7, <1>8 DEF SwitchInv
<1> QED
  BY <1>1, <1>9

-------------------------------------------------------------------------------
(* The history of the head drops *)

\* Distance in the MMU of the generator, of a state of which it is not known that
\* it is the switch's.
NumberOf(c, d, p) == (p[1] - MmuOf(c, d) * c.group - 1) * c.useqCnt + p[2]

Waits(c, s, p) ==
  LET g == s.generator
  IN  Ahead(Cardinality(QueuesOf(c, MmuOf(c, g))), NumberOf(c, g, s.last_head_drop),
            NumberOf(c, g, p))

\* That is what it is.
LEMMA WaitsIs ==
  ASSUME conf \in Config, NEW s, SwitchInv(conf, s), s.generator # None
  PROVE  LET g == s.generator
             N == Cardinality(Positions(g))
         IN  /\ g \in Device
             /\ Positions(g) = QueuesOf(conf, MmuOf(conf, g))
             /\ s.last_head_drop \in Positions(g)
             /\ N \in Nat
             /\ \A p \in Positions(g) : /\ Waits(conf, s, p) = Distance(s, g, p)
                                        /\ Waits(conf, s, p) \in 1 .. N
<1> DEFINE g == s.generator
           N == Cardinality(Positions(g))
<1>1. s \in SwitchType(conf)
  BY DEF SwitchInv, Sound
<1>2. g \in Device
  BY <1>1 DEF SwitchType
<1>3. Mmu(g) = MmuOf(conf, g)
  BY <1>1, <1>2, Views
<1>4. Positions(g) = QueuesOf(conf, MmuOf(conf, g)) /\ N \in Nat
  BY <1>2, <1>3, QueueNumbers
<1>5. s.last_head_drop \in Positions(g)
  BY <1>4 DEF SwitchInv
<1>6. \A p \in Positions(g) : Waits(conf, s, p) = Distance(s, g, p) /\ Waits(conf, s, p) \in 1 .. N
  <2> SUFFICES ASSUME NEW p \in Positions(g)
               PROVE  Waits(conf, s, p) = Distance(s, g, p) /\ Waits(conf, s, p) \in 1 .. N
    OBVIOUS
  <2>1. Distance(s, g, p) = Ahead(N, Cursor(s, g), Number(g, p)) /\ Distance(s, g, p) \in 1 .. N
    BY <1>2, <1>5, DistanceIs
  <2>2. Number(g, p) = NumberOf(conf, g, p) /\ Cursor(s, g) = NumberOf(conf, g, s.last_head_drop)
    BY <1>3 DEF Number, NumberOf, Cursor
  <2>3. Waits(conf, s, p) = Ahead(N, Cursor(s, g), Number(g, p))
    BY <1>4, <2>2 DEF Waits
  <2> QED
    BY <2>1, <2>3
<1> QED
  BY <1>2, <1>4, <1>5, <1>6

\* The history o of the queues: before there is a generator there is none, and
\* then a queue in its MMU has been overtaken by no more queues than it need not
\* wait for any longer.
TurnsKept(c, s, o) ==
  /\ o \in [Places(c) -> Nat]
  /\ s.generator = None => \A p \in Places(c) : o[p] = 0
  /\ c.m_dropType = "TOKEN" /\ s.generator # None =>
       \A p \in QueuesOf(c, MmuOf(c, s.generator)) :
         o[p] + Waits(c, s, p) <= Cardinality(QueuesOf(c, MmuOf(c, s.generator)))

\* Steps that drop no heads in their turn.
LEMMA NoTurn ==
  ASSUME conf \in Config, NEW s, SwitchInv(conf, s), TurnsKept(conf, s, overtaken),
         NEW t, SwitchInv(conf, t), SameTurn(s, t) \/ s.generator = None
  PROVE  TurnsKept(conf, t, Recorded(t, {}))
<1> DEFINE o == Recorded(t, {})
<1>1. DOMAIN overtaken = Places(conf) /\ \A p \in Places(conf) : overtaken[p] \in Nat
  BY DEF TurnsKept
<1>2. /\ DOMAIN o = Places(conf)
      /\ o = [p \in Places(conf) |-> o[p]]
      /\ \A p \in Places(conf) : /\ o[p] = 0 \/ o[p] = overtaken[p]
                                 /\ t.generator = None => o[p] = 0
  BY <1>1 DEF Recorded
<1> HIDE DEF o
<1>3. o \in [Places(conf) -> Nat] /\ (t.generator = None => \A p \in Places(conf) : o[p] = 0)
  <2>1. \A p \in Places(conf) : o[p] \in Nat
    BY <1>1, <1>2
  <2> QED
    BY <1>2, <2>1
<1>4. ASSUME conf.m_dropType = "TOKEN", t.generator # None,
             NEW p \in QueuesOf(conf, MmuOf(conf, t.generator))
      PROVE  o[p] + Waits(conf, t, p) <= Cardinality(QueuesOf(conf, MmuOf(conf, t.generator)))
  <2> DEFINE N == Cardinality(QueuesOf(conf, MmuOf(conf, t.generator)))
  <2>1. Waits(conf, t, p) \in 1 .. N /\ N \in Nat
    BY <1>4, WaitsIs
  <2>2. p \in Places(conf)
    BY DEF QueuesOf
  <2>3. CASE o[p] = 0
    BY <2>1, <2>3
  <2>4. CASE o[p] = overtaken[p] /\ o[p] # 0
    <3>1. s.generator # None
      BY <2>2, <2>4 DEF TurnsKept
    <3>2. SameTurn(s, t)
      BY <3>1
    <3>3. Waits(conf, t, p) = Waits(conf, s, p) /\ t.generator = s.generator
      BY <3>2 DEF SameTurn, Waits
    <3> QED
      BY <1>4, <2>4, <3>1, <3>3 DEF TurnsKept
  <2> QED
    BY <1>2, <2>2, <2>3, <2>4
<1>5. TurnsKept(conf, t, o)
  BY <1>3, <1>4 DEF TurnsKept
<1> QED
  BY <1>5 DEF o

\* An interval in which a head may be dropped.
LEMMA OneTurn ==
  ASSUME conf \in Config, NEW s, SwitchInv(conf, s), TurnsKept(conf, s, overtaken),
         s.generator # None, NEW r, NEW a, IntervalOver(s, r, a)
  PROVE  TurnsKept(conf, a.sw, Recorded(a.sw, a.from))
<1> DEFINE t == a.sw
           from == a.from
           g == s.generator
           o == Recorded(t, from)
           N == Cardinality(QueuesOf(conf, MmuOf(conf, g)))
<1>1. SwitchInv(conf, t) /\ SameTurn(s, r) /\ Sound(conf, r) /\ Advanced(r, g, a)
  BY DEF IntervalOver
<1>2. t.generator = g /\ t.generator # None /\ r.generator = g
      /\ r.last_head_drop = s.last_head_drop
  BY <1>1 DEF Advanced, SameTurn
<1>3. CASE from = {}
  <2>1. t = r
    BY <1>1, <1>3 DEF Advanced
  <2>2. SameTurn(s, t)
    BY <1>1, <2>1
  <2> QED
    BY <1>1, <1>3, <2>2, NoTurn
<1>4. CASE from # {}
  <2>1. DOMAIN overtaken = Places(conf) /\ \A p \in Places(conf) : overtaken[p] \in Nat
    BY DEF TurnsKept
  <2>2. /\ DOMAIN o = Places(conf)
        /\ o = [p \in Places(conf) |-> o[p]]
        /\ \A p \in Places(conf) :
             \/ o[p] = 0
             \/ /\ o[p] = overtaken[p] + 1
                /\ p \notin from
                /\ OverThreshold(t, g, p)
    <3>1. o = [p \in Places(conf) |->
                 IF \/ t.generator = None
                    \/ p \in from
                    \/ Mmu(p[1]) # Mmu(t.generator)
                    \/ ~OverThreshold(t, t.generator, p)
                 THEN 0 ELSE overtaken[p] + 1]
      BY <1>4, <2>1 DEF Recorded
    <3> HIDE DEF o, t, from
    <3> QED
      BY <1>2, <3>1
  <2> HIDE DEF o, t, from
  <2>3. o \in [Places(conf) -> Nat]
    <3>1. \A p \in Places(conf) : o[p] \in Nat
      BY <2>1, <2>2
    <3> QED
      BY <2>2, <3>1
  <2>4. ASSUME conf.m_dropType = "TOKEN", NEW p \in QueuesOf(conf, MmuOf(conf, g))
        PROVE  o[p] + Waits(conf, t, p) <= N
    <3>1. /\ g \in Device /\ Positions(g) = QueuesOf(conf, MmuOf(conf, g)) /\ N \in Nat
          /\ s.last_head_drop \in Positions(g) /\ p \in Positions(g)
          /\ Waits(conf, s, p) = Distance(s, g, p) /\ Waits(conf, s, p) \in 1 .. N
      BY WaitsIs
    <3>2. Waits(conf, t, p) = Distance(t, g, p) /\ Waits(conf, t, p) \in 1 .. N
      BY <1>1, <1>2, <3>1, WaitsIs
    <3>3. p \in Places(conf)
      BY DEF QueuesOf
    <3>4. CASE o[p] = 0
      BY <3>1, <3>2, <3>4
    <3>5. CASE o[p] = overtaken[p] + 1 /\ p \notin from /\ OverThreshold(t, g, p)
      <4>1. from = NextInTurn(r, g) /\ t.last_head_drop \in NextInTurn(r, g)
        BY <1>1, <1>4, <2>4 DEF Advanced, HeadDropQueue, from, t
      <4>2. OverThreshold(r, g, p)
        BY <1>1, <3>1, <3>5 DEF Advanced, t
      <4>3. Distance(t, g, p) + 1 <= Distance(r, g, p)
        BY <1>2, <3>1, <3>5, <4>1, <4>2, TurnPasses
      <4>4. Distance(r, g, p) = Distance(s, g, p)
        BY <1>2 DEF Distance, Cursor
      <4>5. overtaken[p] + Waits(conf, s, p) <= N /\ overtaken[p] \in Nat
        BY <2>1, <2>4, <3>3 DEF TurnsKept
      <4> HIDE DEF N
      <4> QED
        BY <3>1, <3>2, <3>5, <4>3, <4>4, <4>5
    <3> QED
      BY <2>2, <3>3, <3>4, <3>5
  <2>5. TurnsKept(conf, t, o)
    BY <1>2, <2>3, <2>4 DEF TurnsKept
  <2> QED
    BY <2>5 DEF o, t, from
<1> QED
  BY <1>3, <1>4

\* The inductive invariant of the switch.
SwitchInvariant ==
  /\ conf \in Config
  /\ SwitchInv(conf, sw)
  /\ TurnsKept(conf, sw, overtaken)
  /\ scheduled \in BOOLEAN
  /\ scheduled => sw.generator # None

\* It holds at first.
LEMMA InvariantBegins ==
  ASSUME Init, StaticSizes
  PROVE  SwitchInvariant
<1>1. conf \in Config /\ SwitchInv(conf, sw)
  BY SwitchBegins
<1>2. sw.generator = None /\ overtaken = [p \in Places(conf) |-> 0]
  BY DEF Init, Places
<1>3. TurnsKept(conf, sw, overtaken)
  BY <1>2 DEF TurnsKept
<1>4. scheduled = FALSE
  BY DEF Init
<1> QED
  BY <1>1, <1>3, <1>4 DEF SwitchInvariant

\* A packet from another node.
LEMMA SendStep ==
  ASSUME StaticSizes, SwitchInvariant,
         NEW d \in Device, NEW q \in 0 .. conf.useqCnt, NEW size \in conf.sizes,
         Send(d, q, size)
  PROVE  /\ SwitchInvariant' /\ Sent(sw, d, sw')
         /\ Counting /\ sw.generator # None => Ended' = Ended
<1>1. conf \in Config /\ SwitchInv(conf, sw) /\ TurnsKept(conf, sw, overtaken)
  BY DEF SwitchInvariant
<1> DEFINE t == SendSwitch(sw, d, q, size)
<1>2. sw' = t /\ overtaken' = Recorded(sw', {}) /\ conf' = conf
  BY DEF Send
<1>3. Sent(sw, d, t)
  BY <1>1, SwitchSends
<1> HIDE DEF t
<1>4. SwitchInv(conf, t) /\ (SameTurn(sw, t) \/ sw.generator = None)
  BY <1>3 DEF Sent
<1>5. TurnsKept(conf, t, Recorded(t, {}))
  BY <1>1, <1>4, NoTurn
<1>6. overtaken' = Recorded(t, {})
  BY <1>2
<1>7. scheduled \in BOOLEAN /\ (scheduled => sw.generator # None)
  BY DEF SwitchInvariant
<1>8. IF t.generator = sw.generator THEN scheduled' = scheduled ELSE scheduled' \in BOOLEAN
  BY <1>2 DEF Send, Reschedule
<1>9. Counting /\ sw.generator # None => SameTurn(sw, t)
  BY <1>3 DEF Sent
<1>10. t.generator = sw.generator \/ sw.generator = None
  BY <1>4 DEF SameTurn
<1>11. scheduled' \in BOOLEAN /\ (scheduled' => t.generator # None)
  BY <1>7, <1>8, <1>10
<1>12. Counting /\ sw.generator # None => Ended' = Ended
  BY <1>2, <1>8, <1>9 DEF Ended, Counting, SameTurn
<1> QED
  BY <1>1, <1>2, <1>3, <1>4, <1>5, <1>6, <1>11, <1>12 DEF SwitchInvariant

\* The end of a transmission, and the start of the next.
LEMMA CompleteStep ==
  ASSUME StaticSizes, SwitchInvariant, NEW d \in Device, TransmitCompleteSwitch(d)
  PROVE  /\ SwitchInvariant' /\ SameTurn(sw, sw') /\ Transmitted(conf, sw, d, sw')
         /\ Ended' = Ended
<1>1. conf \in Config /\ SwitchInv(conf, sw) /\ TurnsKept(conf, sw, overtaken)
  BY DEF SwitchInvariant
<1> DEFINE t == Transmit(sw, d)
<1>2. /\ sw.remaining[d] = 0 /\ sw' = t /\ overtaken' = Recorded(sw', {}) /\ conf' = conf
      /\ scheduled' = scheduled
  BY DEF TransmitCompleteSwitch
<1>3. SwitchInv(conf, t) /\ SameTurn(sw, t) /\ Transmitted(conf, sw, d, t)
  BY <1>1, <1>2, CompletionKeeps
<1> HIDE DEF t
<1>4. TurnsKept(conf, t, Recorded(t, {}))
  BY <1>1, <1>3, NoTurn
<1>5. overtaken' = Recorded(t, {})
  BY <1>2
<1>6. t.generator = sw.generator
  BY <1>3 DEF SameTurn
<1>7. scheduled \in BOOLEAN /\ (scheduled => sw.generator # None)
  BY DEF SwitchInvariant
<1>8. Ended' = Ended
  BY <1>2, <1>6 DEF Ended, Counting
<1> QED
  BY <1>1, <1>2, <1>3, <1>4, <1>5, <1>6, <1>7, <1>8 DEF SwitchInvariant

\* An interval of TokenAdd.
LEMMA IntervalStep ==
  ASSUME StaticSizes, SwitchInvariant, TokenInterval
  PROVE  /\ SwitchInvariant'
         /\ \E r, a : IntervalOver(sw, r, a) /\ sw' = a.sw
<1>1. conf \in Config /\ SwitchInv(conf, sw) /\ TurnsKept(conf, sw, overtaken)
  BY DEF SwitchInvariant
<1>2. sw.generator # None /\ conf' = conf /\ scheduled' \in BOOLEAN
  BY DEF TokenInterval, SwitchInvariant, Reschedule
<1> DEFINE left == [d \in Device |-> IF sw.remaining[d] > 0 THEN sw.remaining[d] - 1
                                                          ELSE sw.remaining[d]]
           a == TokenAdd([sw EXCEPT !.remaining = left], sw.generator)
<1>3. sw' = a.sw /\ overtaken' = Recorded(a.sw, a.from)
  <2>1. sw \in SwitchType(conf)
    BY <1>1 DEF SwitchInv, Sound
  <2>2. [sw EXCEPT !.remaining = [d \in Device |-> IF @[d] > 0 THEN @[d] - 1 ELSE @[d]]]
          = [sw EXCEPT !.remaining = left]
    BY <2>1 DEF SwitchType
  <2> QED
    BY <2>2 DEF TokenInterval
<1>4. left = Elapsed(sw)
  BY DEF Elapsed
<1>5. PICK r : IntervalOver(sw, r, a)
  <2>1. \E r : IntervalOver(sw, r, TokenAdd([sw EXCEPT !.remaining = Elapsed(sw)], sw.generator))
    BY <1>1, <1>2, IntervalKeeps
  <2> QED
    BY <1>4, <2>1
<1> HIDE DEF a
<1>6. TurnsKept(conf, a.sw, Recorded(a.sw, a.from))
  BY <1>1, <1>2, <1>5, OneTurn
<1>7. SwitchInv(conf, a.sw)
  BY <1>5 DEF IntervalOver
<1>8. a.sw.generator # None
  BY <1>2, <1>5 DEF IntervalOver, Advanced, SameTurn
<1>9. SwitchInvariant'
  BY <1>1, <1>2, <1>3, <1>6, <1>7, <1>8 DEF SwitchInvariant
<1> QED
  BY <1>3, <1>5, <1>9

\* Time that passes where no tokens are added.
LEMMA TimeStep ==
  ASSUME SwitchInvariant, NEW d \in Device, TimePasses(d)
  PROVE  /\ SwitchInvariant' /\ Ended' = Ended
         /\ Counting /\ PaysTokens(conf) => Ended
<1>1. conf \in Config /\ SwitchInv(conf, sw) /\ TurnsKept(conf, sw, overtaken)
  BY DEF SwitchInvariant
<1>2. sw \in SwitchType(conf)
  BY <1>1 DEF SwitchInv, Sound
<1> DEFINE left == [sw.remaining EXCEPT ![d] = 0]
           t == [sw EXCEPT !.remaining = left]
<1>3. /\ sw' = t /\ conf' = conf /\ overtaken' = overtaken
      /\ sw.generator # None \/ ~PaysTokens(conf)
  <2>1. sw.remaining[d] > 0
    BY DEF TimePasses
  <2>2. sw.generator = None /\ PaysTokens(conf) => sw.remaining[d] = Idle
    BY <1>1 DEF SwitchInv
  <2> QED
    BY <1>2, <2>1, <2>2 DEF TimePasses, SwitchType, Idle
<1>7. ~scheduled /\ scheduled' = scheduled
  BY DEF TimePasses
<1>4. left \in [Device -> Nat \cup {Idle}]
  BY <1>2 DEF SwitchType
<1>5. SwitchInv(conf, t) /\ SameTurn(sw, t)
  <2> DEFINE u == t
  <2>1. u = [sw EXCEPT !.remaining = left]
    OBVIOUS
  <2> HIDE DEF u, left
  <2>2. SwitchInv(conf, u) /\ SameTurn(sw, u)
    BY <1>1, <1>3, <1>4, <2>1, TimeKeeps
  <2> QED
    BY <2>2 DEF u
<1> HIDE DEF t
<1>6. TurnsKept(conf, t, overtaken)
  BY <1>1, <1>5 DEF TurnsKept, SameTurn, Waits
<1>8. Ended' = Ended
  BY <1>3, <1>5, <1>7 DEF Ended, Counting, SameTurn
<1>9. Counting /\ PaysTokens(conf) => Ended
  BY <1>3, <1>7 DEF Ended
<1> QED
  BY <1>1, <1>3, <1>5, <1>6, <1>7, <1>8, <1>9 DEF SwitchInvariant

\* All steps keep the invariant: sizes vary only where there is no static memory.
THEOREM InvariantHolds ==
  ASSUME StaticSizes
  PROVE  Spec => []SwitchInvariant
<1>1. Init => SwitchInvariant
  BY InvariantBegins
<1>2. SwitchInvariant /\ [Next]_vars => SwitchInvariant'
  <2> SUFFICES ASSUME SwitchInvariant, [Next]_vars PROVE SwitchInvariant'
    OBVIOUS
  <2>1. ASSUME NEW d \in Device, NEW q \in 0 .. conf.useqCnt, NEW size \in conf.sizes,
               Send(d, q, size)
        PROVE  SwitchInvariant'
    BY <2>1, SendStep
  <2>2. ASSUME NEW d \in Device, TransmitCompleteSwitch(d) PROVE SwitchInvariant'
    BY <2>2, CompleteStep
  <2>3. ASSUME NEW d \in Device, TimePasses(d) PROVE SwitchInvariant'
    BY <2>3, TimeStep
  <2>4. CASE TokenInterval
    BY <2>4, IntervalStep
  <2>5. CASE UNCHANGED vars
    BY <2>5 DEF vars, SwitchInvariant
  <2> QED
    BY <2>1, <2>2, <2>3, <2>4, <2>5 DEF Next
<1> QED
  BY <1>1, <1>2, PTL DEF Spec

-------------------------------------------------------------------------------
(* The theorems *)

\* Every MMU counts as used the bytes of its queues that are not static, and a
\* queue's static bytes are among its bytes and within its limit, for every way to
\* admit, transmit, drop and push out, if packets have one size where there is
\* static memory.
THEOREM MemoryIsBalanced ==
  ASSUME StaticSizes
  PROVE  Spec => []MemoryBalanced
<1>1. SwitchInvariant => MemoryBalanced
  <2> SUFFICES ASSUME SwitchInvariant PROVE MemoryBalanced
    OBVIOUS
  <2>1. conf \in Config /\ Sound(conf, sw) /\ sw \in SwitchType(conf)
    BY DEF SwitchInvariant, SwitchInv, Sound
  <2>2. DOMAIN sw.m_usedBuffer = Mmus(conf)
    BY <2>1 DEF SwitchType
  <2>3. ASSUME NEW m \in Mmus(conf), NEW queues,
               queues = {p \in Device \X (0 .. conf.useqCnt - 1) : Mmu(p[1]) = m}
        PROVE  sw.m_usedBuffer[m] = Total(queues, [p \in queues |-> Shared(sw, p[1], p[2])])
    <3>1. queues = QueuesOf(conf, m)
      <4>1. \A p \in Places(conf) : Mmu(p[1]) = MmuOf(conf, p[1])
        BY <2>1, Views DEF Places
      <4> QED
        BY <2>3, <4>1 DEF QueuesOf, Places
    <3> DEFINE v == [p \in QueuesOf(conf, m) |-> Held(sw, p) - Static(sw, p)]
               w == [p \in queues |-> Shared(sw, p[1], p[2])]
    <3>2. \A p \in queues : v[p] = w[p]
      <4> SUFFICES ASSUME NEW p \in queues PROVE v[p] = w[p]
        OBVIOUS
      <4>1. p \in Places(conf)
        BY <3>1 DEF QueuesOf
      <4>2. p[1] \in Device /\ p[2] \in 0 .. conf.useqCnt - 1 /\ p = <<p[1], p[2]>>
        BY <2>1, <4>1, PlaceType
      <4>3. /\ Bytes(sw, p[1], p[2]) = Held(sw, <<p[1], p[2]>>)
            /\ StaticBytes(sw, p[1], p[2]) = Static(sw, <<p[1], p[2]>>)
        BY <2>1, <4>2, Views
      <4>4. Shared(sw, p[1], p[2]) = Held(sw, p) - Static(sw, p)
        BY <4>2, <4>3 DEF Shared
      <4> QED
        BY <3>1, <4>4
    <3>3. sw.m_usedBuffer[m] = Total(queues, v)
      BY <2>1, <3>1 DEF Sound, SharedOf
    <3> HIDE DEF v, w
    <3>4. Total(queues, v) = Total(queues, w)
      BY <3>2, TotalSame
    <3> QED
      BY <3>3, <3>4 DEF w
  <2>4. ASSUME NEW d \in Device, NEW q \in Subqueues(sw.mq[d])
        PROVE  /\ sw.usedStaticBuffer[d][q] >= 0
               /\ sw.usedStaticBuffer[d][q] <= Bytes(sw, d, q)
               /\ sw.usedStaticBuffer[d][q] <= conf.staticBuffer
    <3> DEFINE p == <<d, q>>
    <3>1. q \in 0 .. conf.useqCnt - 1
      BY <2>1, Views
    <3>2. /\ p \in Places(conf) /\ Bytes(sw, d, q) = Held(sw, p)
          /\ sw.usedStaticBuffer[d][q] = Static(sw, p)
      BY <2>1, <3>1, Views
    <3> HIDE DEF p
    <3>3. Split(conf, Held(sw, p), Static(sw, p)) /\ Held(sw, p) \in Nat
      BY <2>1, <3>2, PlaceType DEF Sound
    <3>4. conf.staticBuffer \in Nat
      BY <2>1, OccamyConfiguration
    <3> QED
      BY <3>2, <3>3, <3>4 DEF Split
  <2> QED
    BY <2>2, <2>3, <2>4 DEF MemoryBalanced
<1> QED
  BY <1>1, InvariantHolds, PTL

\* No MMU ever stores more than it has, by threshold or after pushing packets out.
THEOREM BufferIsNotOverrun ==
  ASSUME StaticSizes
  PROVE  Spec => []BufferNeverOverrun
<1>1. SwitchInvariant => BufferNeverOverrun
  <2> SUFFICES ASSUME SwitchInvariant PROVE BufferNeverOverrun
    OBVIOUS
  <2>1. conf \in Config /\ Sound(conf, sw) /\ sw \in SwitchType(conf)
    BY DEF SwitchInvariant, SwitchInv, Sound
  <2>2. DOMAIN sw.m_usedBuffer = Mmus(conf)
    BY <2>1 DEF SwitchType
  <2> QED
    BY <2>1, <2>2, UsedCovers DEF BufferNeverOverrun
<1> QED
  BY <1>1, InvariantHolds, PTL

\* Push-out always makes room for the packet it was asked to, unless priorities
\* protect the longest queue, if an MMU has room for two packets.
THEOREM PushoutFits ==
  ASSUME StaticSizes, TwoPacketsFit
  PROVE  Spec => []PushoutAlwaysFits
<1>1. SwitchInvariant => PushoutAlwaysFits
  <2> SUFFICES ASSUME SwitchInvariant, conf.enqueueMethod = "PUSHOUT",
                      conf.dequeueType # "PQ", NEW d \in Device, NEW size \in conf.sizes, NEW q
               PROVE  AcceptPacket(sw, d, q, size).ok
    BY DEF PushoutAlwaysFits
  <2>1. conf \in Config /\ Sound(conf, sw)
    BY DEF SwitchInvariant, SwitchInv
  <2>2. 2 * size <= conf.maxBuffer
    BY <2>1 DEF TwoPacketsFit
  <2>3. CASE Fits(sw, d, size)
    BY <2>3 DEF AcceptPacket
  <2>4. CASE ~Fits(sw, d, size)
    <3> DEFINE b == PushOut(sw, d, q, size)
               a == AcceptPacket(sw, d, q, size)
    <3>1. Pushed(sw, d, size, size, b)
      BY <2>1, <2>4, PushedOut
    <3>2. a = [sw |-> b.sw, ok |-> b.ok]
      BY <2>4 DEF AcceptPacket, MakeRoom
    <3> HIDE DEF a, b
    <3>3. b.ok /\ a.ok = b.ok
      BY <2>2, <3>1, <3>2 DEF Pushed
    <3> QED
      BY <3>3 DEF a
  <2> QED
    BY <2>3, <2>4
<1> QED
  BY <1>1, InvariantHolds, PTL

\* A queue over its threshold is dropped from before any other in its MMU is for
\* the second time, wherever the generator was and however queues grow and shrink.
THEOREM HeadsDropInTurn ==
  ASSUME StaticSizes
  PROVE  Spec => []HeadDropTurns
<1>1. SwitchInvariant => HeadDropTurns
  <2> SUFFICES ASSUME SwitchInvariant, conf.m_dropType = "TOKEN", sw.generator # None,
                      NEW p \in Positions(sw.generator)
               PROVE  overtaken[p] < Cardinality(Positions(sw.generator))
    BY DEF HeadDropTurns
  <2> DEFINE N == Cardinality(Positions(sw.generator))
  <2>1. conf \in Config /\ SwitchInv(conf, sw) /\ TurnsKept(conf, sw, overtaken)
    BY DEF SwitchInvariant
  <2>2. /\ Positions(sw.generator) = QueuesOf(conf, MmuOf(conf, sw.generator))
        /\ N \in Nat /\ Waits(conf, sw, p) \in 1 .. N
    BY <2>1, WaitsIs
  <2>3. overtaken[p] \in Nat /\ overtaken[p] + Waits(conf, sw, p) <= N
    BY <2>1, <2>2 DEF TurnsKept, QueuesOf
  <2> HIDE DEF N
  <2>4. overtaken[p] < N
    BY <2>2, <2>3
  <2> QED
    BY <2>4 DEF N
<1> QED
  BY <1>1, InvariantHolds, PTL

-------------------------------------------------------------------------------
(* The budget of tokens *)

\* The tokens and the transmissions of TokenBudget, in a state of the switch.
TokensOf(c, s) == IF c.enqueueMethod = "MULTILAYER_DT" THEN s.token_num ELSE 0

WorkOf(c, s) ==
  [d \in Device |-> IF c.enqueueMethod = "MULTILAYER_DT" /\ s.remaining[d] > 0
                    THEN s.remaining[d] ELSE 0]

\* The steps of TokenBudget: a transmission starts, an interval ends; tokens are
\* paid or added; the last ones have been added when e or, afterwards, f.
Starts(d, n, w, m, v) ==
  \E size \in PacketSize : /\ w[d] = 0
                           /\ v = [w EXCEPT ![d] = Duration[size]]
                           /\ m = n - size

Ticks(n, w, m, v) ==
  /\ v = [d \in Device |-> IF w[d] > 0 THEN w[d] - 1 ELSE 0]
  /\ \/ m = RefilledTo(n)
     \/ RefilledTo(n) > 0 /\ \E size \in PacketSize : m = RefilledTo(n) - size

Pays(n, w, m, v) ==
  \/ \E d \in Device : Starts(d, n, w, m, v)
  \/ m = n /\ v = w

Adds(n, w, m, v) ==
  \/ (\A d \in Device : w[d] = 0) /\ \E d \in Device : Starts(d, RefilledTo(n), w, m, v)
  \/ Ticks(n, w, m, v)

BudgetStep(n, w, e, m, v, f) ==
  \/ Pays(n, w, m, v) /\ f = e
  \/ Adds(n, w, m, v) /\ ~e /\ f \in BOOLEAN
  \/ /\ e /\ f = e /\ m = n
     /\ \E d \in Device : v = [w EXCEPT ![d] = 0]

\* A device that was not transmitting starts, or remains without a packet.
LEMMA WorkStarts ==
  ASSUME NEW c, c.enqueueMethod = "MULTILAYER_DT", NEW s \in SwitchType(c), NEW d \in Device,
         s.remaining[d] <= 0, NEW t, NEW k \in Nat \cup {Idle},
         t.remaining = [s.remaining EXCEPT ![d] = k]
  PROVE  /\ WorkOf(c, s)[d] = 0
         /\ k \in Nat => WorkOf(c, t) = [WorkOf(c, s) EXCEPT ![d] = k]
         /\ k = Idle => WorkOf(c, t) = WorkOf(c, s)
<1> DEFINE w == WorkOf(c, s)
           v == WorkOf(c, t)
<1>1. s.remaining \in [Device -> Nat \cup {Idle}]
  BY DEF SwitchType
<1>2. /\ w = [e \in Device |-> IF s.remaining[e] > 0 THEN s.remaining[e] ELSE 0]
      /\ v = [e \in Device |-> IF t.remaining[e] > 0 THEN t.remaining[e] ELSE 0]
  BY DEF WorkOf
<1>3. t.remaining[d] = k /\ \A e \in Device \ {d} : t.remaining[e] = s.remaining[e]
  BY <1>1
<1> HIDE DEF w, v
<1>4. w[d] = 0
  BY <1>1, <1>2 DEF Idle
<1>5. \A e \in Device \ {d} : v[e] = w[e]
  BY <1>2, <1>3
<1>6. v[d] = IF k \in Nat THEN k ELSE 0
  BY <1>2, <1>3 DEF Idle
<1>7. k \in Nat => v = [w EXCEPT ![d] = k]
  <2> SUFFICES ASSUME k \in Nat PROVE v = [w EXCEPT ![d] = k]
    OBVIOUS
  <2> DEFINE u == [w EXCEPT ![d] = k]
  <2>1. u = [e \in Device |-> u[e]] /\ v = [e \in Device |-> v[e]]
    BY <1>2
  <2>2. \A e \in Device : u[e] = v[e]
    BY <1>2, <1>5, <1>6
  <2> HIDE DEF u
  <2>3. u = v
    BY <2>1, <2>2
  <2> QED
    BY <2>3 DEF u
<1>8. k = Idle => v = w
  <2> SUFFICES ASSUME k = Idle PROVE v = w
    OBVIOUS
  <2>1. v[d] = 0
    BY <1>6 DEF Idle
  <2>2. \A e \in Device : v[e] = w[e]
    BY <1>4, <1>5, <2>1
  <2>3. v = [e \in Device |-> v[e]] /\ w = [e \in Device |-> w[e]]
    BY <1>2
  <2> QED
    BY <2>2, <2>3
<1> QED
  BY <1>4, <1>7, <1>8 DEF w, v

\* Time that passes brings transmissions to their ends.
LEMMA WorkElapses ==
  ASSUME NEW c, c.enqueueMethod = "MULTILAYER_DT", NEW s \in SwitchType(c), NEW t,
         t.remaining = Elapsed(s)
  PROVE  WorkOf(c, t) =
           [d \in Device |-> IF WorkOf(c, s)[d] > 0 THEN WorkOf(c, s)[d] - 1 ELSE 0]
<1>1. s.remaining \in [Device -> Nat \cup {Idle}]
  BY DEF SwitchType
<1> DEFINE w == WorkOf(c, s)
           v == WorkOf(c, t)
<1>2. /\ w = [e \in Device |-> IF s.remaining[e] > 0 THEN s.remaining[e] ELSE 0]
      /\ v = [e \in Device |-> IF t.remaining[e] > 0 THEN t.remaining[e] ELSE 0]
  BY DEF WorkOf
<1>3. \A e \in Device : v[e] = IF w[e] > 0 THEN w[e] - 1 ELSE 0
  <2> SUFFICES ASSUME NEW e \in Device PROVE v[e] = IF w[e] > 0 THEN w[e] - 1 ELSE 0
    OBVIOUS
  <2> DEFINE x == s.remaining[e]
  <2>1. x \in Nat \cup {Idle}
    BY <1>1
  <2>2. t.remaining[e] = IF x > 0 THEN x - 1 ELSE x
    BY DEF Elapsed
  <2>3. v[e] = (IF t.remaining[e] > 0 THEN t.remaining[e] ELSE 0) /\ w[e] = IF x > 0 THEN x ELSE 0
    BY <1>2
  <2> HIDE DEF x, v, w
  <2> QED
    BY <2>1, <2>2, <2>3 DEF Idle
<1>4. v = [e \in Device |-> v[e]]
  BY <1>2
<1> HIDE DEF w, v
<1>5. v = [e \in Device |-> IF w[e] > 0 THEN w[e] - 1 ELSE 0]
  BY <1>3, <1>4
<1> QED
  BY <1>5 DEF w, v

\* When time is not counted, a transmission ends at any time.
LEMMA WorkEnds ==
  ASSUME NEW c, c.enqueueMethod = "MULTILAYER_DT", NEW s \in SwitchType(c), NEW d \in Device,
         NEW t, t.remaining = [s.remaining EXCEPT ![d] = 0]
  PROVE  WorkOf(c, t) = [WorkOf(c, s) EXCEPT ![d] = 0]
<1> DEFINE w == WorkOf(c, s)
           v == WorkOf(c, t)
           u == [w EXCEPT ![d] = 0]
<1>1. s.remaining \in [Device -> Nat \cup {Idle}]
  BY DEF SwitchType
<1>2. /\ w = [e \in Device |-> IF s.remaining[e] > 0 THEN s.remaining[e] ELSE 0]
      /\ v = [e \in Device |-> IF t.remaining[e] > 0 THEN t.remaining[e] ELSE 0]
  BY DEF WorkOf
<1>3. t.remaining[d] = 0 /\ \A e \in Device \ {d} : t.remaining[e] = s.remaining[e]
  BY <1>1
<1> HIDE DEF w, v
<1>4. \A e \in Device : u[e] = v[e]
  BY <1>2, <1>3
<1>5. u = [e \in Device |-> u[e]] /\ v = [e \in Device |-> v[e]]
  BY <1>2
<1> HIDE DEF u
<1>6. u = v
  BY <1>4, <1>5
<1> QED
  BY <1>6 DEF u, v, w

\* A packet that is sent to an idle switch is its first one.
LEMMA SentInBudget ==
  ASSUME NEW s, SwitchInv(conf, s), PaysTokens(conf), NEW d \in Device, NEW t, Sent(s, d, t)
  PROVE  IF s.generator = None
         THEN Adds(TokensOf(conf, s), WorkOf(conf, s), TokensOf(conf, t), WorkOf(conf, t))
         ELSE Pays(TokensOf(conf, s), WorkOf(conf, s), TokensOf(conf, t), WorkOf(conf, t))
<1> DEFINE n == TokensOf(conf, s)
           m == TokensOf(conf, t)
           w == WorkOf(conf, s)
           v == WorkOf(conf, t)
           tokens == IF s.generator = None THEN RefilledTo(n) ELSE n
<1>1. conf.enqueueMethod = "MULTILAYER_DT" /\ s \in SwitchType(conf)
  BY DEF PaysTokens, SwitchInv, Sound
<1>2. n = s.token_num /\ m = t.token_num
  BY <1>1 DEF TokensOf
<1>3. s.generator = None => \A e \in Device : w[e] = 0
  <2> SUFFICES ASSUME s.generator = None, NEW e \in Device PROVE w[e] = 0
    OBVIOUS
  <2>1. s.remaining[e] = Idle
    BY DEF SwitchInv
  <2> QED
    BY <2>1 DEF WorkOf, Idle
<1>4. \/ t.remaining = s.remaining /\ t.token_num = tokens
      \/ /\ s.remaining[d] = Idle
         /\ \E size \in PacketSize :
              /\ t.remaining = [s.remaining EXCEPT ![d] = Duration[size]]
              /\ t.token_num = tokens - size
  BY <1>2 DEF Sent
<1>5. CASE t.remaining = s.remaining /\ t.token_num = tokens
  <2>1. v = w
    BY <1>5 DEF WorkOf
  <2>2. w = [e \in Device |-> w[e]]
    BY DEF WorkOf
  <2>3. CASE s.generator # None
    BY <1>2, <1>5, <2>1, <2>3 DEF Pays
  <2>4. CASE s.generator = None
    <3>1. m = RefilledTo(n)
      BY <1>2, <1>5, <2>4
    <3>2. v = [e \in Device |-> IF w[e] > 0 THEN w[e] - 1 ELSE 0]
      <4> HIDE DEF v, w
      <4>1. \A e \in Device : w[e] = IF w[e] > 0 THEN w[e] - 1 ELSE 0
        BY <1>3, <2>4
      <4> QED
        BY <2>1, <2>2, <4>1
    <3> HIDE DEF n, m, v, w
    <3>3. Ticks(n, w, m, v)
      BY <3>1, <3>2 DEF Ticks
    <3>4. Adds(n, w, m, v)
      BY <3>3 DEF Adds
    <3> QED
      BY <2>4, <3>4 DEF n, m, v, w
  <2> QED
    BY <2>3, <2>4
<1>6. ASSUME s.remaining[d] = Idle, NEW size \in PacketSize,
             t.remaining = [s.remaining EXCEPT ![d] = Duration[size]],
             t.token_num = tokens - size
      PROVE  IF s.generator = None THEN Adds(n, w, m, v) ELSE Pays(n, w, m, v)
  <2>1. w[d] = 0 /\ v = [w EXCEPT ![d] = Duration[size]]
    <3>1. Duration[size] \in Nat
      BY DurationsAreNumbers
    <3>2. s.remaining[d] <= 0
      BY <1>6 DEF Idle
    <3> QED
      BY <1>1, <1>6, <3>1, <3>2, WorkStarts
  <2>2. m = tokens - size
    BY <1>2, <1>6
  <2> HIDE DEF n, m, v, w, tokens
  <2>3. Starts(d, tokens, w, m, v)
    BY <2>1, <2>2 DEF Starts
  <2> QED
    BY <1>3, <2>3 DEF Adds, Pays, tokens
<1> QED
  BY <1>4, <1>5, <1>6

\* A transmission that ends may be followed by another.
LEMMA CompletedInBudget ==
  ASSUME NEW s, SwitchInv(conf, s), PaysTokens(conf), NEW d \in Device, s.remaining[d] = 0,
         NEW t, Transmitted(conf, s, d, t)
  PROVE  Pays(TokensOf(conf, s), WorkOf(conf, s), TokensOf(conf, t), WorkOf(conf, t))
<1> DEFINE n == TokensOf(conf, s)
           m == TokensOf(conf, t)
           w == WorkOf(conf, s)
           v == WorkOf(conf, t)
<1>1. conf.enqueueMethod = "MULTILAYER_DT" /\ s \in SwitchType(conf)
  BY DEF PaysTokens, SwitchInv, Sound
<1>2. n = s.token_num /\ m = t.token_num
  BY <1>1 DEF TokensOf
<1>3. CASE t.remaining = [s.remaining EXCEPT ![d] = Idle] /\ t.token_num = s.token_num
  <2>1. v = w
    <3> DEFINE k == Idle
    <3>1. k \in Nat \cup {Idle} /\ s.remaining[d] <= 0 /\ k = Idle
      OBVIOUS
    <3>2. t.remaining = [s.remaining EXCEPT ![d] = k]
      BY <1>3
    <3> HIDE DEF k
    <3> QED
      BY <1>1, <3>1, <3>2, WorkStarts
  <2> HIDE DEF n, m, v, w
  <2>2. Pays(n, w, m, v)
    BY <1>2, <1>3, <2>1 DEF Pays
  <2> QED
    BY <2>2 DEF n, m, v, w
<1>4. ASSUME NEW size \in PacketSize,
             t.remaining = [s.remaining EXCEPT ![d] = Duration[size]],
             t.token_num = s.token_num - size
      PROVE  Pays(n, w, m, v)
  <2>1. w[d] = 0 /\ v = [w EXCEPT ![d] = Duration[size]]
    <3>1. Duration[size] \in Nat
      BY DurationsAreNumbers
    <3> QED
      BY <1>1, <1>4, <3>1, WorkStarts
  <2>2. m = n - size
    BY <1>2, <1>4
  <2> HIDE DEF n, m, v, w
  <2>3. Starts(d, n, w, m, v)
    BY <2>1, <2>2 DEF Starts
  <2>4. Pays(n, w, m, v)
    BY <2>3 DEF Pays
  <2> QED
    BY <2>4 DEF n, m, v, w
<1> QED
  BY <1>3, <1>4 DEF Transmitted

\* An interval earns tokens and may spend them on a head drop.
LEMMA IntervalInBudget ==
  ASSUME NEW s, SwitchInv(conf, s), PaysTokens(conf), NEW r, NEW a, IntervalOver(s, r, a)
  PROVE  Adds(TokensOf(conf, s), WorkOf(conf, s), TokensOf(conf, a.sw), WorkOf(conf, a.sw))
<1> DEFINE t == a.sw
           n == TokensOf(conf, s)
           m == TokensOf(conf, t)
           w == WorkOf(conf, s)
           v == WorkOf(conf, t)
<1>1. conf.enqueueMethod = "MULTILAYER_DT" /\ Counting /\ s \in SwitchType(conf)
  BY DEF PaysTokens, SwitchInv, Sound, Counting
<1>2. n = s.token_num /\ m = t.token_num
  BY <1>1 DEF TokensOf
<1>3. Advanced(r, s.generator, a) /\ r.token_num = RefilledTo(n) /\ t.remaining = Elapsed(s)
  BY <1>2 DEF IntervalOver, Advanced
<1>4. v = [d \in Device |-> IF w[d] > 0 THEN w[d] - 1 ELSE 0]
  BY <1>1, <1>3, WorkElapses
<1>5. \/ m = RefilledTo(n)
      \/ RefilledTo(n) > 0 /\ \E size \in PacketSize : m = RefilledTo(n) - size
  <2>1. CASE t = r
    BY <1>2, <1>3, <2>1
  <2>2. CASE MayDrop(r) /\ \E size \in PacketSize : Counting => t.token_num = r.token_num - size
    BY <1>1, <1>2, <1>3, <2>2 DEF MayDrop
  <2> QED
    BY <1>3, <2>1, <2>2 DEF Advanced
<1> HIDE DEF n, m, v, w
<1>6. Adds(n, w, m, v)
  BY <1>4, <1>5 DEF Adds, Ticks
<1> QED
  BY <1>6 DEF t, n, m, v, w

\* The steps are those of TokenBudget.
LEMMA BudgetSteps ==
  ASSUME conf' = conf,
         BudgetStep(TokensOf(conf, sw), WorkOf(conf, sw), Ended,
                    TokensOf(conf, sw'), WorkOf(conf, sw'), Ended')
  PROVE  [Budget!Next]_(Budget!vars)
<1> DEFINE n == TokensOf(conf, sw)
           m == TokensOf(conf, sw')
           w == WorkOf(conf, sw)
           v == WorkOf(conf, sw')
<1>1. /\ n = IF Counting THEN sw.token_num ELSE 0
      /\ m = (IF Counting THEN sw.token_num ELSE 0)'
      /\ w = [d \in Device |-> IF Counting /\ sw.remaining[d] > 0 THEN sw.remaining[d] ELSE 0]
      /\ v = [d \in Device |-> IF Counting /\ sw.remaining[d] > 0 THEN sw.remaining[d] ELSE 0]'
  BY DEF TokensOf, WorkOf, Counting
<1> HIDE DEF n, m, w, v
<1>2. Budget!Refilled = RefilledTo(n)
  BY <1>1 DEF Budget!Refilled, Budget!Full, RefilledTo
<1>3. CASE Pays(n, w, m, v) /\ Ended' = Ended
  <2>1. ASSUME NEW d \in Device, Starts(d, n, w, m, v) PROVE Budget!Next
    <3>1. Budget!Start(d, IF Counting THEN sw.token_num ELSE 0)
      BY <1>1, <2>1 DEF Budget!Start, Starts
    <3> QED
      BY <1>3, <3>1 DEF Budget!Next
  <2>2. ASSUME m = n /\ v = w PROVE UNCHANGED Budget!vars
    BY <1>1, <1>3, <2>2 DEF Budget!vars
  <2> QED
    BY <1>3, <2>1, <2>2 DEF Pays
<1>4. CASE Adds(n, w, m, v) /\ ~Ended /\ Ended' \in BOOLEAN
  <2>1. Budget!Add
    BY <1>4 DEF Budget!Add
  <2>2. ASSUME Ticks(n, w, m, v) PROVE Budget!Tick
    BY <1>1, <1>2, <2>1, <2>2 DEF Budget!Tick, Ticks
  <2>3. ASSUME \A e \in Device : w[e] = 0, NEW d \in Device, Starts(d, RefilledTo(n), w, m, v)
        PROVE  Budget!Next
    <3>1. Budget!Start(d, Budget!Refilled)
      BY <1>1, <1>2, <2>3 DEF Budget!Start, Starts
    <3>2. Budget!First(d)
      BY <1>1, <2>1, <2>3, <3>1 DEF Budget!First
    <3> QED
      BY <3>2 DEF Budget!Next
  <2> QED
    BY <1>4, <2>2, <2>3 DEF Adds, Budget!Next
<1>5. CASE /\ Ended /\ Ended' = Ended /\ m = n
           /\ \E d \in Device : v = [w EXCEPT ![d] = 0]
  <2>1. PICK d \in Device : v = [w EXCEPT ![d] = 0]
    BY <1>5
  <2>2. Budget!Finish(d)
    BY <1>1, <1>5, <2>1 DEF Budget!Finish
  <2> QED
    BY <2>2 DEF Budget!Next
<1>6. BudgetStep(n, w, Ended, m, v, Ended')
  BY DEF n, m, w, v
<1> QED
  BY <1>3, <1>4, <1>5, <1>6 DEF BudgetStep

\* Transmissions and head drops of all devices and MMUs together spend tokens as
\* TokenBudget allows, if no packet is stored where none are paid; when TokenAdd
\* has run for the last time, packets still pay, and no head is dropped.
THEOREM SpendsWithinBudget ==
  ASSUME StaticSizes, AllPay
  PROVE  Spec => ImplementsTokenBudget
<1>1. Init => Budget!Init
  <2> SUFFICES ASSUME Init PROVE Budget!Init
    OBVIOUS
  <2>1. /\ sw.token_num = 0 /\ sw.generator = None
        /\ \A d \in Device : sw.remaining[d] = Idle
    BY DEF Init
  <2> QED
    BY <2>1 DEF Budget!Init, Idle, Ended
<1>2. SwitchInvariant /\ [Next]_vars => [Budget!Next]_(Budget!vars)
  <2> SUFFICES ASSUME SwitchInvariant, [Next]_vars PROVE [Budget!Next]_(Budget!vars)
    OBVIOUS
  <2>1. conf \in Config /\ SwitchInv(conf, sw) /\ conf.staticBuffer \in Nat
    BY OccamyConfiguration DEF SwitchInvariant
  <2>2. conf' = conf
    BY DEF Next, Send, TransmitCompleteSwitch, TimePasses, TokenInterval, vars
  <2> DEFINE n == TokensOf(conf, sw)
             m == TokensOf(conf, sw')
             w == WorkOf(conf, sw)
             v == WorkOf(conf, sw')
             Keeps == BudgetStep(n, w, Ended, m, v, Ended')
  <2>3. SUFFICES Keeps
    BY <2>2, BudgetSteps
  <2>4. Ended' \in BOOLEAN
    BY DEF Ended
  <2>5. CASE ~Counting
    <3>1. m = n /\ v = w
      BY <2>5 DEF TokensOf, WorkOf, Counting
    <3>2. Ended' = Ended
      BY <2>2, <2>5 DEF Ended, Counting
    <3> HIDE DEF n, m, w, v
    <3> QED
      BY <3>1, <3>2 DEF BudgetStep, Pays
  <2>6. CASE Counting
    <3>1. PaysTokens(conf)
      BY <2>1, <2>6 DEF AllPay, PaysTokens, Counting
    <3>2. ASSUME NEW d \in Device, NEW q \in 0 .. conf.useqCnt, NEW size \in conf.sizes,
                 Send(d, q, size)
          PROVE  Keeps
      <4>1. Sent(sw, d, sw') /\ (sw.generator # None => Ended' = Ended)
        BY <2>6, <3>2, SendStep
      <4>2. IF sw.generator = None THEN Adds(n, w, m, v) ELSE Pays(n, w, m, v)
        BY <2>1, <3>1, <4>1, SentInBudget
      <4>3. sw.generator = None => ~Ended
        BY DEF Ended
      <4> HIDE DEF n, m, w, v
      <4> QED
        BY <2>4, <4>1, <4>2, <4>3 DEF BudgetStep
    <3>3. ASSUME NEW d \in Device, TransmitCompleteSwitch(d) PROVE Keeps
      <4>1. Transmitted(conf, sw, d, sw') /\ Ended' = Ended
        BY <3>3, CompleteStep
      <4>2. sw.remaining[d] = 0
        BY <3>3 DEF TransmitCompleteSwitch
      <4>3. Pays(n, w, m, v)
        BY <2>1, <3>1, <4>1, <4>2, CompletedInBudget
      <4> HIDE DEF n, m, w, v
      <4> QED
        BY <4>1, <4>3 DEF BudgetStep
    <3>4. ASSUME NEW d \in Device, TimePasses(d) PROVE Keeps
      <4>1. Ended /\ Ended' = Ended
        BY <2>6, <3>1, <3>4, TimeStep
      <4>2. sw \in SwitchType(conf)
        BY <2>1 DEF SwitchInv, Sound
      <4>3. sw' = [sw EXCEPT !.remaining[d] = 0]
        BY <3>4 DEF TimePasses
      <4>4. sw'.remaining = [sw.remaining EXCEPT ![d] = 0] /\ sw'.token_num = sw.token_num
        BY <4>2, <4>3 DEF SwitchType
      <4>5. m = n
        BY <4>4 DEF TokensOf
      <4>6. v = [w EXCEPT ![d] = 0]
        BY <2>6, <4>2, <4>4, WorkEnds DEF Counting
      <4> HIDE DEF n, m, w, v
      <4> QED
        BY <4>1, <4>5, <4>6 DEF BudgetStep
    <3>5. CASE TokenInterval
      <4>1. PICK r, a : IntervalOver(sw, r, a) /\ sw' = a.sw
        BY <3>5, IntervalStep
      <4>2. Adds(n, w, m, v)
        BY <2>1, <3>1, <4>1, IntervalInBudget
      <4>3. ~Ended
        BY <3>5 DEF TokenInterval, Ended
      <4> HIDE DEF n, m, w, v
      <4> QED
        BY <2>4, <4>2, <4>3 DEF BudgetStep
    <3>6. CASE UNCHANGED vars
      <4>1. m = n /\ v = w
        BY <3>6 DEF vars
      <4>2. Ended' = Ended
        BY <3>6 DEF vars, Ended, Counting
      <4> HIDE DEF n, m, w, v
      <4> QED
        BY <4>1, <4>2 DEF BudgetStep, Pays
    <3> QED
      BY <3>2, <3>3, <3>4, <3>5, <3>6 DEF Next
  <2> QED
    BY <2>5, <2>6
<1> QED
  BY <1>1, <1>2, InvariantHolds, PTL DEF Spec, ImplementsTokenBudget, Budget!Spec

\* An interval takes at most one from the work of each port.
LEMMA IntervalWork ==
  ASSUME NEW S, IsFiniteSet(S), NEW v, \A x \in S : v[x] \in Nat,
         NEW w, \A x \in S : w[x] = IF v[x] > 0 THEN v[x] - 1 ELSE 0
  PROVE  /\ Total(S, w) \in Nat
         /\ Total(S, v) <= Total(S, w) + Cardinality(S)
<1> DEFINE Last(x) == <<x, v[x]>>
           lasts == {Last(x) : x \in S}
           both == Cells(S, w) \cup lasts
<1>1. \A x \in S : w[x] \in Nat
  OBVIOUS
<1>2. /\ IsFiniteSet(Cells(S, w)) /\ Total(S, w) \in Nat
      /\ IsFiniteSet(Cells(S, v)) /\ Total(S, v) \in Nat
  BY <1>1, TotalType
<1>3. IsFiniteSet(lasts) /\ Cardinality(lasts) <= Cardinality(S)
  <2> DEFINE f == [x \in S |-> Last(x)]
  <2>1. f \in Surjection(S, lasts)
    BY DEF Surjection
  <2> HIDE DEF f, lasts
  <2> QED
    BY <2>1, FS_Surjection
<1>4. Cells(S, v) \subseteq both
  <2> SUFFICES ASSUME NEW x \in S, NEW k \in 1 .. v[x]
               PROVE  <<x, k>> \in both
    BY DEF Cells
  <2>1. CASE k = v[x]
    BY <2>1
  <2>2. CASE k # v[x]
    <3>1. k \in 1 .. w[x]
      BY <2>2
    <3>2. <<x, k>> \in Cells(S, w)
      BY <3>1 DEF Cells
    <3> QED
      BY <3>2
  <2> QED
    BY <2>1, <2>2
<1> HIDE DEF lasts
<1>5. /\ IsFiniteSet(both)
      /\ Cardinality(both) <= Cardinality(Cells(S, w)) + Cardinality(lasts)
  <2>1. /\ IsFiniteSet(both)
        /\ Cardinality(both) = Cardinality(Cells(S, w)) + Cardinality(lasts)
                               - Cardinality(Cells(S, w) \cap lasts)
    BY <1>2, <1>3, FS_Union
  <2>2. IsFiniteSet(Cells(S, w) \cap lasts)
    BY <1>2, FS_Subset
  <2>3. /\ Cardinality(Cells(S, w) \cap lasts) \in Nat
        /\ Cardinality(Cells(S, w)) \in Nat
        /\ Cardinality(lasts) \in Nat
    BY <1>2, <1>3, <2>2, FS_CardinalityType
  <2> QED
    BY <2>1, <2>3
<1>6. Cardinality(Cells(S, v)) <= Cardinality(both)
  <2> HIDE DEF both
  <2> QED
    BY <1>4, <1>5, FS_Subset
<1>7. /\ Cardinality(Cells(S, w)) \in Nat /\ Cardinality(Cells(S, v)) \in Nat
      /\ Cardinality(lasts) \in Nat /\ Cardinality(S) \in Nat
      /\ Cardinality(both) \in Nat
  BY <1>2, <1>3, <1>5, FS_CardinalityType
<1> HIDE DEF both
<1> QED
  BY <1>2, <1>3, <1>5, <1>6, <1>7 DEF Total

\* What the switch's packets and ports earn and pay.
LEMMA Earnings ==
  /\ IsFiniteSet(Device)
  /\ port_num \in Nat \ {0}
  /\ Cardinality(Device) \in Nat /\ Cardinality(Device) <= port_num
  /\ \A size \in PacketSize : /\ size \in 1 .. 8 /\ Duration[size] \in Nat
                              /\ size * port_num <= 8 * Duration[size]
<1>1. /\ IsFiniteSet(Device)
      /\ port_num \in Nat \ {0}
      /\ Cardinality(Device) <= port_num
  BY SwitchEarnsTokens DEF Budget!BudgetConfiguration, Budget!IsFiniteSet, Budget!Cardinality,
     IsFiniteSet, Cardinality
<1>2. ASSUME NEW size \in PacketSize
      PROVE  /\ size \in 1 .. 8 /\ Duration[size] \in Nat
             /\ size * port_num <= 8 * Duration[size]
  <2> DEFINE Cost == [x \in PacketSize |-> x]
  <2>1. Cost \in [PacketSize -> 1 .. 8] /\ Cost[size] * port_num <= 8 * Duration[size]
    BY SwitchEarnsTokens DEF Budget!BudgetConfiguration, Budget!Full
  <2> QED
    BY <2>1, DurationsAreNumbers
<1> QED
  BY <1>1, <1>2, FS_CardinalityType

\* The inductive invariant of TokenBudget, for the devices of the switch.
BudgetSound(n, w) ==
  /\ n \in Int /\ n <= 8
  /\ w \in [Device -> Nat]
  /\ n * port_num + 8 * Total(Device, w) >= (1 - 8) * port_num

\* What a packet pays, its transmission will have earned.
LEMMA StartKeepsBudget ==
  ASSUME NEW n \in Int, n <= 8, NEW w \in [Device -> Nat],
         n * port_num + 8 * Total(Device, w) >= (1 - 8) * port_num,
         NEW d \in Device, NEW m, NEW v, Starts(d, n, w, m, v)
  PROVE  BudgetSound(m, v)
<1>1. PICK size \in PacketSize : /\ w[d] = 0
                                 /\ v = [w EXCEPT ![d] = Duration[size]]
                                 /\ m = n - size
  BY DEF Starts
<1> DEFINE time == Duration[size]
           before == Total(Device, w)
           after == Total(Device, v)
<1>2. /\ IsFiniteSet(Device) /\ port_num \in Nat \ {0}
      /\ size \in 1 .. 8 /\ time \in Nat /\ size * port_num <= 8 * time
  BY Earnings
<1>3. v \in [Device -> Nat]
  BY <1>1, <1>2
<1>4. after = before + time
  <2>1. \A e \in Device : w[e] \in Nat /\ v[e] \in Nat
    BY <1>3
  <2>2. \A e \in Device \ {d} : w[e] = v[e]
    BY <1>1
  <2>3. before + v[d] = after + w[d]
    BY <1>2, <2>1, <2>2, TotalChange
  <2>4. v[d] = time /\ w[d] = 0
    BY <1>1
  <2>5. before \in Nat /\ after \in Nat
    BY <1>2, <2>1, TotalType
  <2> HIDE DEF time, before, after
  <2> QED
    BY <1>2, <2>3, <2>4, <2>5
<1>5. before \in Nat
  BY <1>2, TotalType
<1>6. n * port_num + 8 * before >= (1 - 8) * port_num
  OBVIOUS
<1>7. BudgetSound(m, v) <=> /\ m \in Int /\ m <= 8 /\ v \in [Device -> Nat]
                            /\ m * port_num + 8 * after >= (1 - 8) * port_num
  BY DEF BudgetSound
<1> HIDE DEF time, before, after
<1>8. m * port_num = n * port_num - size * port_num
  BY <1>1, <1>2
<1>9. m * port_num + 8 * after >= (1 - 8) * port_num
  <2>1. n * port_num \in Int /\ size * port_num \in Int
    BY <1>2
  <2> QED
    BY <1>2, <1>4, <1>5, <1>6, <1>8, <2>1
<1> QED
  BY <1>1, <1>2, <1>3, <1>7, <1>9

\* An interval adds what the devices' work loses in it, or the budget is full.
LEMMA TickKeepsBudget ==
  ASSUME NEW n, NEW w, BudgetSound(n, w), NEW m, NEW v, Ticks(n, w, m, v)
  PROVE  BudgetSound(m, v)
<1> DEFINE N == port_num
           before == Total(Device, w)
           after == Total(Device, v)
<1>1. v = [d \in Device |-> IF w[d] > 0 THEN w[d] - 1 ELSE 0]
  BY DEF Ticks
<1>2. w \in [Device -> Nat] /\ v \in [Device -> Nat]
  BY <1>1 DEF BudgetSound
<1>3. after \in Nat /\ before <= after + Cardinality(Device)
  BY <1>1, <1>2, Earnings, IntervalWork
<1>4. before \in Nat /\ Cardinality(Device) \in Nat /\ Cardinality(Device) <= N /\ N \in Nat
  BY <1>2, TotalType, Earnings
<1>5. before <= after + N
  BY <1>3, <1>4
<1>6. n \in Int /\ n <= 8 /\ n * N + 8 * before >= (1 - 8) * N
  BY DEF BudgetSound
<1>7. BudgetSound(m, v) <=> m \in Int /\ m <= 8 /\ m * N + 8 * after >= (1 - 8) * N
  BY <1>2 DEF BudgetSound
<1>8. \A size \in PacketSize : size \in 1 .. 8
  BY Earnings
<1> HIDE DEF N, before, after
<1>9. CASE m = RefilledTo(n)
  <2>1. CASE n + 8 > 8
    <3>1. m = 8
      BY <1>9, <2>1 DEF RefilledTo
    <3>2. 8 * N + 8 * after >= (1 - 8) * N
      BY <1>3, <1>4
    <3> QED
      BY <1>7, <3>1, <3>2
  <2>2. CASE ~ (n + 8 > 8)
    <3>1. m = n + 8
      BY <1>9, <2>2 DEF RefilledTo
    <3>2. (n + 8) * N = n * N + 8 * N
      BY <1>4, <1>6
    <3>3. n * N \in Int
      BY <1>4, <1>6
    <3>4. m * N + 8 * after >= (1 - 8) * N
      BY <1>3, <1>4, <1>5, <1>6, <3>1, <3>2, <3>3
    <3> QED
      BY <1>6, <1>7, <2>2, <3>1, <3>4
  <2> QED
    BY <2>1, <2>2
<1>10. CASE RefilledTo(n) > 0 /\ \E size \in PacketSize : m = RefilledTo(n) - size
  <2>1. RefilledTo(n) \in 1 .. 8
    BY <1>6, <1>10 DEF RefilledTo
  <2>2. m \in -7 .. 7
    BY <1>8, <1>10, <2>1
  <2>3. m * N >= (1 - 8) * N
    <3>1. \A k \in -7 .. 7 : k * N >= (1 - 8) * N
      BY <1>4
    <3> QED
      BY <2>2, <3>1
  <2>4. m * N \in Int
    BY <1>4, <2>2
  <2>5. m * N + 8 * after >= (1 - 8) * N
    BY <1>3, <1>4, <2>3, <2>4
  <2> QED
    BY <1>7, <2>2, <2>5
<1> QED
  BY <1>9, <1>10 DEF Ticks

\* The budget is kept as long as tokens are added.
LEMMA AddingKeepsBudget ==
  ASSUME NEW n, NEW w, BudgetSound(n, w), NEW m, NEW v, Pays(n, w, m, v) \/ Adds(n, w, m, v)
  PROVE  BudgetSound(m, v)
<1>1. /\ n \in Int /\ n <= 8 /\ w \in [Device -> Nat]
      /\ n * port_num + 8 * Total(Device, w) >= (1 - 8) * port_num
  BY DEF BudgetSound
<1>2. ASSUME NEW d \in Device, Starts(d, n, w, m, v)
      PROVE  BudgetSound(m, v)
  BY <1>1, <1>2, StartKeepsBudget
<1>3. ASSUME NEW d \in Device, \A e \in Device : w[e] = 0, Starts(d, RefilledTo(n), w, m, v)
      PROVE  BudgetSound(m, v)
  <2> DEFINE k == RefilledTo(n)
  <2>1. Total(Device, w) = 0
    BY <1>3, TotalZero
  <2>2. port_num \in Nat \ {0}
    BY Earnings
  <2>3. n * port_num >= (1 - 8) * port_num
    <3>1. n * port_num \in Int
      BY <1>1, <2>2
    <3> QED
      BY <1>1, <2>1, <2>2, <3>1
  <2>4. k \in Int /\ k <= 8
    BY <1>1 DEF RefilledTo
  <2>5. k * port_num >= (1 - 8) * port_num
    <3>1. CASE n + 8 > 8
      <4>1. k = 8
        BY <3>1 DEF RefilledTo
      <4> QED
        BY <2>2, <4>1
    <3>2. CASE ~ (n + 8 > 8)
      <4>1. k = n + 8
        BY <3>2 DEF RefilledTo
      <4>2. (n + 8) * port_num = n * port_num + 8 * port_num /\ n * port_num \in Int
        BY <1>1, <2>2
      <4> QED
        BY <2>2, <2>3, <4>1, <4>2
    <3> QED
      BY <3>1, <3>2
  <2> HIDE DEF k
  <2>6. k * port_num + 8 * Total(Device, w) >= (1 - 8) * port_num
    <3>1. k * port_num \in Int
      BY <2>2, <2>4
    <3> QED
      BY <2>1, <2>2, <2>5, <3>1
  <2>7. Starts(d, k, w, m, v)
    BY <1>3 DEF k
  <2> QED
    BY <1>1, <2>4, <2>6, <2>7, StartKeepsBudget
<1>4. CASE Ticks(n, w, m, v)
  BY <1>4, TickKeepsBudget
<1>5. CASE m = n /\ v = w
  BY <1>5
<1> QED
  BY <1>2, <1>3, <1>4, <1>5 DEF Pays, Adds

\* Transmissions and tokens as they may be at any time; e: no more tokens are added.
BudgetType(n, w, e) ==
  /\ n \in Int /\ n <= 8
  /\ w \in [Device -> Nat]
  /\ e \in BOOLEAN

\* Every step keeps the budget, until it has ended.
LEMMA StepKeepsBudget ==
  ASSUME NEW n, NEW w, NEW e, BudgetType(n, w, e), e \/ BudgetSound(n, w),
         NEW m, NEW v, NEW f, BudgetStep(n, w, e, m, v, f)
  PROVE  BudgetType(m, v, f) /\ (f \/ BudgetSound(m, v))
<1>1. n \in Int /\ n <= 8 /\ w \in [Device -> Nat] /\ e \in BOOLEAN
  BY DEF BudgetType
<1>2. CASE ~e
  <2>1. BudgetSound(n, w)
    BY <1>2
  <2>2. Pays(n, w, m, v) \/ Adds(n, w, m, v)
    BY <1>2 DEF BudgetStep
  <2>3. BudgetSound(m, v)
    BY <2>1, <2>2, AddingKeepsBudget
  <2>4. f \in BOOLEAN
    BY <1>1, <1>2 DEF BudgetStep
  <2> QED
    BY <2>3, <2>4 DEF BudgetSound, BudgetType
<1>3. CASE e
  <2>1. f = e
    BY <1>3 DEF BudgetStep
  <2>2. \/ Pays(n, w, m, v)
        \/ m = n /\ \E d \in Device : v = [w EXCEPT ![d] = 0]
    BY <1>3 DEF BudgetStep
  <2>3. ASSUME NEW d \in Device, Starts(d, n, w, m, v)
        PROVE  m \in Int /\ m <= 8 /\ v \in [Device -> Nat]
    <3>1. PICK size \in PacketSize : v = [w EXCEPT ![d] = Duration[size]] /\ m = n - size
      BY <2>3 DEF Starts
    <3>2. size \in 1 .. 8 /\ Duration[size] \in Nat
      BY Earnings
    <3> QED
      BY <1>1, <3>1, <3>2
  <2>4. m \in Int /\ m <= 8 /\ v \in [Device -> Nat]
    BY <1>1, <2>2, <2>3 DEF Pays
  <2> QED
    BY <1>1, <1>3, <2>1, <2>4 DEF BudgetType
<1> QED
  BY <1>1, <1>2, <1>3

\* What TokenBudget's variables are for the switch.
LEMMA BudgetView ==
  /\ TokensOf(conf, sw) = IF Counting THEN sw.token_num ELSE 0
  /\ WorkOf(conf, sw) =
       [d \in Device |-> IF Counting /\ sw.remaining[d] > 0 THEN sw.remaining[d] ELSE 0]
  /\ Budget!Refilled = RefilledTo(TokensOf(conf, sw))
<1>1. /\ TokensOf(conf, sw) = IF Counting THEN sw.token_num ELSE 0
      /\ WorkOf(conf, sw) =
           [d \in Device |-> IF Counting /\ sw.remaining[d] > 0 THEN sw.remaining[d] ELSE 0]
  BY DEF TokensOf, WorkOf, Counting
<1>2. Budget!Refilled = RefilledTo(TokensOf(conf, sw))
  BY <1>1 DEF Budget!Refilled, Budget!Full, RefilledTo
<1> QED
  BY <1>1, <1>2

\* TokenBudget's invariant, for the tokens and the transmissions of the switch.
BudgetInv ==
  /\ BudgetType(TokensOf(conf, sw), WorkOf(conf, sw), Ended)
  /\ Ended \/ BudgetSound(TokensOf(conf, sw), WorkOf(conf, sw))

\* Nobody has spent anything yet.
LEMMA BudgetInit ==
  ASSUME Budget!Init
  PROVE  BudgetInv
<1> DEFINE n == TokensOf(conf, sw)
           w == WorkOf(conf, sw)
<1>1. n = 0 /\ w = [d \in Device |-> 0] /\ Ended = FALSE
  BY BudgetView DEF Budget!Init
<1>2. BudgetInv <=> BudgetType(n, w, Ended) /\ (Ended \/ BudgetSound(n, w))
  BY DEF BudgetInv
<1> HIDE DEF n, w
<1>3. Total(Device, w) = 0
  BY <1>1, TotalZero
<1>4. BudgetSound(n, w)
  BY <1>1, <1>3, Earnings DEF BudgetSound
<1>5. BudgetType(n, w, Ended)
  BY <1>1, <1>4 DEF BudgetSound, BudgetType
<1> QED
  BY <1>2, <1>4, <1>5

\* TokenBudget's steps.
LEMMA BudgetNext ==
  ASSUME [Budget!Next]_(Budget!vars)
  PROVE  BudgetStep(TokensOf(conf, sw), WorkOf(conf, sw), Ended,
                    TokensOf(conf, sw)', WorkOf(conf, sw)', Ended')
<1> DEFINE n == TokensOf(conf, sw)
           m == TokensOf(conf, sw)'
           w == WorkOf(conf, sw)
           v == WorkOf(conf, sw)'
<1>1. /\ n = IF Counting THEN sw.token_num ELSE 0
      /\ m = (IF Counting THEN sw.token_num ELSE 0)'
      /\ w = [d \in Device |-> IF Counting /\ sw.remaining[d] > 0 THEN sw.remaining[d] ELSE 0]
      /\ v = [d \in Device |-> IF Counting /\ sw.remaining[d] > 0 THEN sw.remaining[d] ELSE 0]'
  BY DEF TokensOf, WorkOf, Counting
<1>2. Budget!Refilled = RefilledTo(n)
  BY BudgetView
<1>3. BudgetStep(n, w, Ended, m, v, Ended') <=>
        BudgetStep(TokensOf(conf, sw), WorkOf(conf, sw), Ended,
                   TokensOf(conf, sw)', WorkOf(conf, sw)', Ended')
  OBVIOUS
<1> HIDE DEF n, m, w, v
<1>4. ASSUME NEW d \in Device, Budget!Start(d, IF Counting THEN sw.token_num ELSE 0), Ended' = Ended
      PROVE  Pays(n, w, m, v) /\ Ended' = Ended
  <2>1. Starts(d, n, w, m, v)
    BY <1>1, <1>4 DEF Budget!Start, Starts
  <2> QED
    BY <1>4, <2>1 DEF Pays
<1>5. ASSUME NEW d \in Device, Budget!First(d)
      PROVE  Adds(n, w, m, v) /\ ~Ended /\ Ended' \in BOOLEAN
  <2>1. (\A e \in Device : w[e] = 0) /\ Starts(d, RefilledTo(n), w, m, v)
    BY <1>1, <1>2, <1>5 DEF Budget!First, Budget!Start, Starts
  <2> QED
    BY <1>5, <2>1 DEF Adds, Budget!First, Budget!Add
<1>6. ASSUME Budget!Tick PROVE Adds(n, w, m, v) /\ ~Ended /\ Ended' \in BOOLEAN
  <2>1. Ticks(n, w, m, v)
    BY <1>1, <1>2, <1>6 DEF Budget!Tick, Ticks
  <2> QED
    BY <1>6, <2>1 DEF Adds, Budget!Tick, Budget!Add
<1>7. ASSUME NEW d \in Device, Budget!Finish(d)
      PROVE  /\ Ended /\ Ended' = Ended /\ m = n
             /\ v = [w EXCEPT ![d] = 0]
  BY <1>1, <1>7 DEF Budget!Finish
<1>8. ASSUME UNCHANGED Budget!vars PROVE Pays(n, w, m, v) /\ Ended' = Ended
  BY <1>1, <1>8 DEF Budget!vars, Pays
<1>9. BudgetStep(n, w, Ended, m, v, Ended')
  BY <1>4, <1>5, <1>6, <1>7, <1>8 DEF Budget!Next, BudgetStep
<1> QED
  BY <1>3, <1>9

\* BudgetKept of TokenBudget, for the devices and the packets of any switch: as long
\* as tokens are added, those spent beyond what there is never exceed what the
\* packets on the wires will earn and one head drop.
THEOREM BudgetHolds == Budget!Spec => []Budget!BudgetKept
<1>1. Budget!Init => BudgetInv
  BY BudgetInit
<1>2. BudgetInv /\ [Budget!Next]_(Budget!vars) => BudgetInv'
  <2> SUFFICES ASSUME BudgetInv, [Budget!Next]_(Budget!vars) PROVE BudgetInv'
    OBVIOUS
  <2> DEFINE n == TokensOf(conf, sw)
             m == TokensOf(conf, sw)'
             w == WorkOf(conf, sw)
             v == WorkOf(conf, sw)'
  <2>1. /\ BudgetType(n, w, Ended) /\ (Ended \/ BudgetSound(n, w))
        /\ BudgetStep(n, w, Ended, m, v, Ended')
    BY BudgetNext DEF BudgetInv
  <2>2. BudgetType(m, v, Ended') /\ (Ended' \/ BudgetSound(m, v)) <=> BudgetInv'
    BY DEF BudgetInv, BudgetType, BudgetSound
  <2> HIDE DEF n, m, w, v
  <2>3. BudgetType(m, v, Ended') /\ (Ended' \/ BudgetSound(m, v))
    BY <2>1, StepKeepsBudget
  <2> QED
    BY <2>2, <2>3
<1>3. BudgetInv => Budget!BudgetKept
  <2> SUFFICES ASSUME BudgetInv PROVE Budget!BudgetKept
    OBVIOUS
  <2> DEFINE n == IF Counting THEN sw.token_num ELSE 0
             w == [d \in Device |->
                     IF Counting /\ sw.remaining[d] > 0 THEN sw.remaining[d] ELSE 0]
  <2>1. BudgetType(n, w, Ended) /\ (Ended \/ BudgetSound(n, w))
    BY BudgetView DEF BudgetInv
  <2>2. Budget!Total(Device, w) = Total(Device, w)
    BY DEF Budget!Total, Budget!Cells, Total, Cells, Budget!Cardinality, Cardinality
  <2> QED
    BY <2>1, <2>2 DEF Budget!BudgetKept, Budget!Full, BudgetType, BudgetSound
<1> QED
  BY <1>1, <1>2, <1>3, PTL DEF Budget!Spec

\* BudgetKept of the switch: until TokenAdd has run for the last time, and however
\* long its devices have been busy, the debt of tokens is what a bounded number of
\* intervals earns.
THEOREM DebtIsBounded ==
  ASSUME StaticSizes, AllPay
  PROVE  Spec => []Budget!BudgetKept
BY SpendsWithinBudget, BudgetHolds, PTL DEF ImplementsTokenBudget

===============================================================================
