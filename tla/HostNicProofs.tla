------------------------------ MODULE HostNicProofs -----------------------------
(***************************************************************************)
(* The RDMA NIC of a host: it never forgets a pair that waits for its pace *)
(* and, unless a pair stops beside others, sends only what is ready.  For  *)
(* any number of pairs, priorities and rates.                              *)
(***************************************************************************)
EXTENDS HostNic, ByteTotalsProofs

-------------------------------------------------------------------------------
(* The group without its finished pairs *)

\* Places of kept positions follow their order.
LEMMA Places ==
  ASSUME NEW n \in Nat, NEW kept, kept \subseteq 1 .. n
  PROVE  /\ Cardinality(kept) \in Nat
         /\ \A k \in kept : Place(kept, k) \in 1 .. Cardinality(kept)
         /\ \A j, k \in kept : Place(kept, j) = Place(kept, k) => j = k
         /\ \A i \in 1 .. Cardinality(kept) : \E k \in kept : Place(kept, k) = i
<1> DEFINE upto(k) == {j \in kept : j <= k}
<1>1. IsFiniteSet(kept) /\ Cardinality(kept) \in Nat
  <2>1. IsFiniteSet(1 .. n)
    BY FS_Interval
  <2>2. IsFiniteSet(kept)
    BY <2>1, FS_Subset
  <2> QED
    BY <2>2, FS_CardinalityType
<1>2. ASSUME NEW k \in kept
      PROVE  /\ IsFiniteSet(upto(k)) /\ Place(kept, k) = Cardinality(upto(k))
             /\ Place(kept, k) \in 1 .. Cardinality(kept)
  <2>1. upto(k) \subseteq kept /\ k \in upto(k)
    BY DEF upto
  <2>2. Place(kept, k) = Cardinality(upto(k))
    BY DEF Place
  <2> HIDE DEF upto
  <2>3. IsFiniteSet(upto(k)) /\ Cardinality(upto(k)) <= Cardinality(kept)
    BY <1>1, <2>1, FS_Subset
  <2>4. Cardinality(upto(k)) \in Nat /\ Cardinality(upto(k)) # 0
    BY <2>1, <2>3, FS_CardinalityType, FS_EmptySet
  <2> QED
    BY <1>1, <2>2, <2>3, <2>4
<1>3. ASSUME NEW j \in kept, NEW k \in kept, j < k
      PROVE  Place(kept, j) # Place(kept, k)
  <2>1. upto(j) \subseteq upto(k) /\ k \in upto(k) /\ k \notin upto(j)
    <3>1. \A e \in kept : e \in Int
      OBVIOUS
    <3>2. ASSUME NEW e \in kept, e <= j
          PROVE  e <= k
      BY <1>3, <3>1, <3>2
    <3>3. k <= k /\ ~ (k <= j)
      BY <1>3, <3>1
    <3> QED
      BY <3>2, <3>3 DEF upto
  <2>2. upto(j) # upto(k)
    BY <2>1
  <2>3. IsFiniteSet(upto(k)) /\ Place(kept, k) = Cardinality(upto(k))
        /\ Place(kept, j) = Cardinality(upto(j))
    BY <1>2
  <2> HIDE DEF upto
  <2> QED
    BY <2>1, <2>2, <2>3, FS_Subset
<1>4. ASSUME NEW j \in kept, NEW k \in kept, Place(kept, j) = Place(kept, k)
      PROVE  j = k
  <2>1. j \in Int /\ k \in Int
    OBVIOUS
  <2> QED
    BY <1>3, <1>4, <2>1
<1>5. \A i \in 1 .. Cardinality(kept) : \E k \in kept : Place(kept, k) = i
  <2> DEFINE T == 1 .. Cardinality(kept)
             g == [k \in kept |-> Place(kept, k)]
  <2>1. g \in Injection(kept, T)
    BY <1>2, <1>4 DEF Injection, IsInjective
  <2>2. IsFiniteSet(T) /\ Cardinality(T) = Cardinality(kept)
    BY <1>1, FS_Interval
  <2>3. g \in Surjection(kept, T)
    <3> HIDE DEF g, T
    <3> QED
      BY <2>1, <2>2, FS_Injection
  <2> QED
    BY <2>3 DEF Surjection
<1> QED
  BY <1>1, <1>2, <1>4, <1>5

\* What the state of the NIC is made of.
QpType ==
  [snd_nxt : Nat, snd_una : Nat, since : 0 .. MaxGap, m_rate : Rate, stopped : BOOLEAN]

NicType ==
  [qp : [Pairs -> QpType], m_qpMap : SUBSET Pairs, m_qps : Seq(Pairs), m_rrlast : Nat,
   hostDequeueIndex : {0, 1}, m_ackQ : Nat, tcp : Nat, m_paused : SUBSET Priority,
   m_currentPkt : Pairs \cup {None, Ack, Tcp, Beyond}, remaining : {0, 1},
   m_nextSend : Nat \cup {NoWakeup}]

\* Nothing is confirmed that was not sent, and only stop times stop pairs.
Sound(s) ==
  /\ s \in NicType
  /\ \A f \in Pairs : /\ s.qp[f].snd_una <= s.qp[f].snd_nxt
                      /\ s.qp[f].stopped => flow[f].stops

\* Kept positions keep their pairs.
LEMMA ClearedKeeps ==
  ASSUME NEW s, s.m_qps \in Seq(Pairs), NEW first
  PROVE  /\ Cleared(s, first) \in Seq(Pairs)
         /\ ToSet(Cleared(s, first)) \subseteq ToSet(s.m_qps)
         /\ \A k \in Kept(s, first) :
              /\ Place(Kept(s, first), k) \in 1 .. Len(Cleared(s, first))
              /\ Cleared(s, first)[Place(Kept(s, first), k)] = s.m_qps[k]
<1> DEFINE n == Len(s.m_qps)
           kept == Kept(s, first)
           size == Cardinality(kept)
           at(i) == CHOOSE k \in kept : Place(kept, k) = i
           cleared == Cleared(s, first)
<1>1. n \in Nat /\ kept \subseteq 1 .. n /\ \A k \in 1 .. n : s.m_qps[k] \in Pairs
  BY DEF Kept
<1>2. cleared = [i \in 1 .. size |-> s.m_qps[at(i)]]
  BY DEF Cleared
<1>3. /\ size \in Nat
      /\ \A k \in kept : Place(kept, k) \in 1 .. size
      /\ \A j, k \in kept : Place(kept, j) = Place(kept, k) => j = k
      /\ \A i \in 1 .. size : \E k \in kept : Place(kept, k) = i
  <2> HIDE DEF n, kept
  <2> QED
    BY <1>1, Places
<1> HIDE DEF n, kept, size
<1>4. \A i \in 1 .. size : at(i) \in kept /\ Place(kept, at(i)) = i
  BY <1>3
<1>5. \A k \in kept : at(Place(kept, k)) = k
  BY <1>3, <1>4
<1> HIDE DEF at, cleared
<1>6. \A i \in 1 .. size : cleared[i] \in Pairs
  BY <1>1, <1>2, <1>4
<1>7. cleared \in Seq(Pairs) /\ Len(cleared) = size
  BY <1>2, <1>3, <1>6
<1>8. \A k \in kept : Place(kept, k) \in 1 .. size /\ cleared[Place(kept, k)] = s.m_qps[k]
  BY <1>2, <1>3, <1>5
<1>9. ToSet(cleared) \subseteq ToSet(s.m_qps)
  <2>1. DOMAIN cleared = 1 .. size /\ DOMAIN s.m_qps = 1 .. n
    BY <1>2 DEF n
  <2>2. \A i \in 1 .. size : cleared[i] = s.m_qps[at(i)] /\ at(i) \in 1 .. n
    BY <1>1, <1>2, <1>4
  <2> QED
    BY <2>1, <2>2 DEF ToSet
<1> QED
  BY <1>7, <1>8, <1>9 DEF cleared, kept

\* A choice that is moved with the group still is the same pair, unless that pair is
\* finished itself.
LEMMA MovedKeeps ==
  ASSUME NEW s, s.m_qps \in Seq(Pairs), NEW first \in 1 .. Len(s.m_qps),
         NEW chosen \in 1 .. Len(s.m_qps)
  PROVE  /\ Moved(s, first, chosen) \in Nat \ {0}
         /\ ~IsFinished(s, s.m_qps[chosen]) =>
              /\ Moved(s, first, chosen) \in 1 .. Len(Cleared(s, first))
              /\ Cleared(s, first)[Moved(s, first, chosen)] = s.m_qps[chosen]
<1> DEFINE n == Len(s.m_qps)
           kept == Kept(s, first)
<1>1. n \in Nat /\ kept \subseteq 1 .. n
  BY DEF Kept
<1>2. \A k \in kept : /\ Place(kept, k) \in 1 .. Len(Cleared(s, first))
                      /\ Cleared(s, first)[Place(kept, k)] = s.m_qps[k]
  BY ClearedKeeps
<1>3. CASE chosen < first
  <2>1. Moved(s, first, chosen) = chosen
    BY <1>3 DEF Moved
  <2>2. chosen \in kept
    BY <1>3 DEF Kept
  <2>3. Place(kept, chosen) = chosen
    <3>1. 1 .. chosen \subseteq kept
      BY <1>3 DEF Kept
    <3>2. {j \in kept : j <= chosen} = 1 .. chosen
      BY <1>1, <3>1
    <3>3. Cardinality(1 .. chosen) = chosen
      BY FS_Interval
    <3> QED
      BY <3>2, <3>3 DEF Place
  <2> QED
    BY <1>2, <2>1, <2>2, <2>3
<1>4. CASE ~ (chosen < first) /\ IsFinished(s, s.m_qps[chosen])
  BY <1>4 DEF Moved
<1>5. CASE ~ (chosen < first) /\ ~IsFinished(s, s.m_qps[chosen])
  <2>1. Moved(s, first, chosen) = Place(kept, chosen)
    BY <1>5 DEF Moved
  <2>2. chosen \in kept
    BY <1>5 DEF Kept
  <2>3. Place(kept, chosen) \in Nat \ {0}
    <3> HIDE DEF kept, n
    <3>1. Place(kept, chosen) \in 1 .. Cardinality(kept) /\ Cardinality(kept) \in Nat
      BY <1>1, <2>2, Places
    <3> QED
      BY <3>1
  <2> QED
    BY <1>2, <2>1, <2>2, <2>3
<1> QED
  BY <1>3, <1>4, <1>5

-------------------------------------------------------------------------------
(* The pairs' turn *)

\* Rates have a slowest one.
LEMMA Gaps ==
  /\ MaxGap \in Nat \ {0}
  /\ \A r \in Rate : Gap[r] \in Nat \ {0} /\ Gap[r] <= MaxGap
<1>1. \A r \in Rate : Gap[r] \in Nat \ {0}
  BY NicConfiguration
<1>2. PICK slow \in Rate : \A r \in Rate : Gap[r] <= Gap[slow]
  BY NicConfiguration
<1> DEFINE gaps == {Gap[r] : r \in Rate}
<1>3. \E g \in gaps : \A r \in Rate : Gap[r] <= g
  BY <1>2
<1>4. MaxGap \in gaps /\ \A r \in Rate : Gap[r] <= MaxGap
  <2>1. MaxGap = CHOOSE g \in gaps : \A r \in Rate : Gap[r] <= g
    BY DEF MaxGap
  <2> HIDE DEF gaps
  <2> QED
    BY <1>3, <2>1
<1> QED
  BY <1>1, <1>4

\* The parameters of the pairs.
LEMMA FlowTypes ==
  ASSUME flow \in Flows, NEW f \in Pairs
  PROVE  /\ f \in Nat \ {0}
         /\ flow[f].m_pg \in Priority /\ flow[f].m_size \in Nat \ {0}
         /\ flow[f].m_win \in Nat /\ flow[f].stops \in BOOLEAN
BY NicConfiguration DEF Pairs

\* The search visits every position once.
LEMMA Positions ==
  ASSUME NEW L \in Nat \ {0}, NEW last \in Nat
  PROVE  /\ \A k \in 1 .. L : ((k + last) % L) + 1 \in 1 .. L
         /\ \A i \in 1 .. L : \E k \in 1 .. L : ((k + last) % L) + 1 = i
<1>1. \A k \in 1 .. L : (k + last) % L \in 0 .. L - 1
  BY SMT
<1>2. ASSUME NEW i \in 1 .. L
      PROVE  \E k \in 1 .. L : ((k + last) % L) + 1 = i
  <2> DEFINE r == last % L
             w == last \div L
             k == IF i - 1 > r THEN i - 1 - r ELSE i - 1 - r + L
  <2>1. r \in 0 .. L - 1 /\ w \in Int /\ last = w * L + r
    BY SMT
  <2> HIDE DEF r, w
  <2>2. k \in 1 .. L
    BY <2>1
  <2>3. \A x \in 0 .. L - 1, y \in Int : (y * L + x) % L = x
    BY SMTT(20)
  <2>4. (k + last) % L = i - 1
    <3>1. CASE i - 1 > r
      <4>1. k + last = w * L + (i - 1)
        BY <2>1, <3>1
      <4> QED
        BY <2>1, <2>3, <4>1
    <3>2. CASE ~ (i - 1 > r)
      <4>1. (w + 1) * L = w * L + L
        BY <2>1
      <4>2. k + last = (w + 1) * L + (i - 1)
        BY <2>1, <3>2, <4>1
      <4>3. w + 1 \in Int
        BY <2>1
      <4> QED
        BY <2>3, <4>2, <4>3
    <3> QED
      BY <3>1, <3>2
  <2> QED
    BY <2>2, <2>4
<1> QED
  BY <1>1, <1>2

\* Least picks the least of a set of numbers that is bounded from below.
LEMMA LeastOf ==
  ASSUME NEW S, S \subseteq Int, S # {}, NEW b \in Nat, \A x \in S : x >= -b
  PROVE  Least(S) \in S /\ \A x \in S : Least(S) <= x
<1> DEFINE T == {x + b : x \in S}
<1>1. T \subseteq Nat /\ T # {}
  <2>1. ASSUME NEW x \in S PROVE x + b \in Nat
    <3>1. x \in Int /\ x >= -b
      OBVIOUS
    <3> QED
      BY <3>1
  <2> QED
    BY <2>1
<1>2. PICK t \in T : \A u \in T : t <= u
  <2> HIDE DEF T
  <2> QED
    BY <1>1, LeastNumber
<1>3. PICK y \in S : t = y + b
  OBVIOUS
<1>4. ASSUME NEW x \in S PROVE y <= x
  <2>1. x + b \in T
    OBVIOUS
  <2>2. y + b <= x + b
    BY <1>2, <1>3, <2>1
  <2> QED
    BY <2>2
<1> QED
  BY <1>4 DEF Least

\* The search finds a pair that is due if there is one, and the pair that is sent is
\* the one it found although finished pairs have been removed.
LEMMA NextQpFinds ==
  ASSUME flow \in Flows, NEW s, Sound(s)
  PROVE  /\ \E q \in Seq(Pairs) : /\ ToSet(q) \subseteq ToSet(s.m_qps)
                                  /\ NextQp(s).nic = [s EXCEPT !.m_qps = q]
         /\ NextQp(s).chosen \in Nat
         /\ NextQp(s).chosen = 0 => \A f \in ToSet(s.m_qps) : ~Due(s, f)
         /\ NextQp(s).chosen # 0 /\ StopsAlone(Flows) =>
              /\ NextQp(s).chosen <= Len(NextQp(s).nic.m_qps)
              /\ Due(s, NextQp(s).nic.m_qps[NextQp(s).chosen])
<1> DEFINE L == Len(s.m_qps)
           at(k) == s.m_qps[Position(s, k)]
           due == {k \in 1 .. L : Due(s, at(k))}
           looked == IF due = {} THEN 1 .. L ELSE 1 .. Least(due)
           finished == {Position(s, k) : k \in {i \in looked :
                          LET f == at(i) IN ~Sendable(s, f) /\ IsFinished(s, f)}}
           chosen == IF due = {} THEN 0 ELSE Position(s, Least(due))
           first == Least(finished)
           next == NextQp(s)
<1>1. /\ s \in NicType /\ s.m_qps \in Seq(Pairs) /\ L \in Nat /\ s.m_rrlast \in Nat
      /\ \A i \in 1 .. L : s.m_qps[i] \in Pairs
  BY DEF Sound, NicType
<1>2. /\ \A k \in 1 .. L : Position(s, k) \in 1 .. L
      /\ \A i \in 1 .. L : \E k \in 1 .. L : Position(s, k) = i
  <2>1. CASE L = 0
    BY <2>1
  <2>2. CASE L # 0
    BY <1>1, <2>2, Positions DEF Position
  <2> QED
    BY <2>1, <2>2
<1>3. due # {} => Least(due) \in due /\ Least(due) \in 1 .. L
  <2>1. due \subseteq Int /\ \A x \in due : x >= -0 /\ x \in 1 .. L
    OBVIOUS
  <2> HIDE DEF due
  <2> QED
    BY <2>1, LeastOf
<1>4. looked \subseteq 1 .. L
  <2> HIDE DEF due
  <2> QED
    BY <1>1, <1>3
<1>5. finished \subseteq 1 .. L
  BY <1>2, <1>4
<1>6. finished # {} => first \in finished
  <2> HIDE DEF finished
  <2>1. finished \subseteq Int /\ \A x \in finished : x >= -0
    BY <1>5
  <2> QED
    BY <2>1, LeastOf
<1>7. due # {} => chosen \in 1 .. L /\ Due(s, s.m_qps[chosen])
  BY <1>2, <1>3
<1>8. due = {} => \A f \in ToSet(s.m_qps) : ~Due(s, f)
  <2> SUFFICES ASSUME due = {}, NEW i \in 1 .. L PROVE ~Due(s, s.m_qps[i])
    BY <1>1 DEF ToSet
  <2>1. PICK k \in 1 .. L : Position(s, k) = i
    BY <1>2
  <2> QED
    BY <2>1
<1>9. next = IF finished = {} THEN [nic |-> s, chosen |-> chosen]
             ELSE [nic |-> [s EXCEPT !.m_qps = Cleared(s, first)],
                   chosen |-> IF chosen = 0 THEN 0 ELSE Moved(s, first, chosen)]
  BY DEF NextQp
<1>10. \A g \in finished : ~Sendable(s, s.m_qps[g]) /\ IsFinished(s, s.m_qps[g])
  OBVIOUS
<1>11. due = {} => chosen = 0
  OBVIOUS
<1> HIDE DEF due, looked, finished, chosen, first, next, L, at
<1>12. CASE finished = {}
  <2>1. next.nic = s /\ next.chosen = chosen
    BY <1>9, <1>12
  <2>2. s = [s EXCEPT !.m_qps = s.m_qps]
    BY <1>1 DEF NicType
  <2> QED
    BY <1>1, <1>7, <1>8, <1>11, <2>1, <2>2 DEF next, L
<1>13. CASE finished # {}
  <2> DEFINE q == Cleared(s, first)
  <2>1. next.nic = [s EXCEPT !.m_qps = q]
        /\ next.chosen = IF chosen = 0 THEN 0 ELSE Moved(s, first, chosen)
    BY <1>9, <1>13
  <2>2. q \in Seq(Pairs) /\ ToSet(q) \subseteq ToSet(s.m_qps)
    BY <1>1, ClearedKeeps
  <2>3. next.nic.m_qps = q
    BY <1>1, <2>1 DEF NicType
  <2>4. first \in 1 .. L
    BY <1>5, <1>6, <1>13
  <2>5. due # {} => /\ chosen # 0 /\ Moved(s, first, chosen) \in Nat \ {0}
                    /\ ~IsFinished(s, s.m_qps[chosen]) =>
                         /\ Moved(s, first, chosen) \in 1 .. Len(q)
                         /\ q[Moved(s, first, chosen)] = s.m_qps[chosen]
    <3> SUFFICES ASSUME due # {}
                 PROVE  /\ chosen # 0 /\ Moved(s, first, chosen) \in Nat \ {0}
                        /\ ~IsFinished(s, s.m_qps[chosen]) =>
                             /\ Moved(s, first, chosen) \in 1 .. Len(q)
                             /\ q[Moved(s, first, chosen)] = s.m_qps[chosen]
      OBVIOUS
    <3>1. chosen \in 1 .. Len(s.m_qps) /\ first \in 1 .. Len(s.m_qps)
      BY <1>7, <2>4 DEF L
    <3>2. chosen # 0
      BY <3>1
    <3>3. \A c \in 1 .. Len(s.m_qps) :
            /\ Moved(s, first, c) \in Nat \ {0}
            /\ ~IsFinished(s, s.m_qps[c]) => /\ Moved(s, first, c) \in 1 .. Len(q)
                                             /\ q[Moved(s, first, c)] = s.m_qps[c]
      BY <1>1, <3>1, MovedKeeps
    <3> QED
      BY <3>1, <3>2, <3>3
  <2>6. ASSUME due # {}, StopsAlone(Flows)
        PROVE  ~IsFinished(s, s.m_qps[chosen])
    <3> DEFINE f == s.m_qps[chosen]
               g == s.m_qps[first]
    <3>1. f \in Pairs /\ g \in Pairs /\ Due(s, f)
      BY <1>1, <1>7, <2>4, <2>6
    <3>2. ~Sendable(s, g)
      BY <1>6, <1>10, <1>13
    <3>3. f # g /\ Sendable(s, f)
      BY <3>1, <3>2 DEF Due
    <3> HIDE DEF f, g
    <3>4. ~flow[f].stops
      BY <2>6, <3>1, <3>3 DEF StopsAlone, Pairs
    <3>5. ~s.qp[f].stopped
      BY <3>1, <3>4 DEF Sound
    <3>6. /\ s.qp[f].snd_una \in Nat /\ s.qp[f].snd_nxt \in Nat /\ flow[f].m_size \in Nat
          /\ s.qp[f].snd_una <= s.qp[f].snd_nxt
      BY <1>1, <3>1, FlowTypes DEF Sound, NicType, QpType
    <3>7. s.qp[f].snd_una < flow[f].m_size
      BY <3>3, <3>6 DEF Sendable, GetBytesLeft
    <3>8. ~IsFinished(s, f)
      BY <3>5, <3>6, <3>7 DEF IsFinished
    <3> QED
      BY <3>8 DEF f
  <2> HIDE DEF q
  <2>7. next.chosen \in Nat
    BY <1>11, <2>1, <2>5
  <2>8. next.chosen = 0 => due = {}
    BY <2>1, <2>5
  <2>9. next.chosen # 0 /\ StopsAlone(Flows) =>
          next.chosen <= Len(next.nic.m_qps) /\ Due(s, next.nic.m_qps[next.chosen])
    <3> SUFFICES ASSUME next.chosen # 0, StopsAlone(Flows)
                 PROVE  next.chosen <= Len(q) /\ Due(s, q[next.chosen])
      BY <2>3
    <3>1. due # {}
      BY <1>11, <2>1
    <3>2. next.chosen \in 1 .. Len(q) /\ q[next.chosen] = s.m_qps[chosen]
      BY <2>1, <2>5, <2>6, <3>1
    <3>3. Len(q) \in Nat
      BY <2>2
    <3> QED
      BY <1>7, <3>1, <3>2, <3>3
  <2> QED
    BY <1>8, <2>1, <2>2, <2>7, <2>8, <2>9 DEF next
<1> QED
  BY <1>12, <1>13

-------------------------------------------------------------------------------
(* Transmission *)

\* WakeupScheduled, of any state.
Scheduled(s) ==
  \A f \in ToSet(s.m_qps) :
    s.m_currentPkt = None /\ Sendable(s, f) =>
      \/ s.m_nextSend # NoWakeup
      \/ \E g \in ToSet(s.m_qps) : GetBytesLeft(s, g) > 0 /\ ~Sendable(s, g)

\* SendsOnlyReady, of any two states.
ReadySent(s, t) ==
  /\ t.m_currentPkt # Beyond
  /\ \A f \in Pairs : t.qp[f].snd_nxt > s.qp[f].snd_nxt =>
       /\ flow[f].m_pg \notin t.m_paused
       /\ s.qp[f].since >= Gap[t.qp[f].m_rate]
       /\ flow[f].m_win # 0 => GetOnTheFly(t, f) <= flow[f].m_win

\* Nothing is sent.
LEMMA NothingSent ==
  ASSUME NEW s, Sound(s), NEW t, t.qp = s.qp, t.m_currentPkt # Beyond
  PROVE  ReadySent(s, t)
<1>1. \A f \in Pairs : s.qp[f].snd_nxt \in Nat
  BY DEF Sound, NicType, QpType
<1> QED
  BY <1>1 DEF ReadySent

\* What a packet changes in its pair.
LEMMA PktSentIs ==
  ASSUME NEW p \in QpType
  PROVE  /\ PktSent(p) \in QpType
         /\ PktSent(p).snd_nxt = p.snd_nxt + 1 /\ PktSent(p).snd_una = p.snd_una
         /\ PktSent(p).m_rate = p.m_rate /\ PktSent(p).stopped = p.stopped
<1>1. 0 \in 0 .. MaxGap
  BY Gaps
<1>2. p.snd_nxt + 1 \in Nat
  BY DEF QpType
<1> QED
  BY <1>1, <1>2 DEF QpType, PktSent

\* A pair sends a packet.
LEMMA PairSends ==
  ASSUME flow \in Flows, NEW s, Sound(s), NEW i \in Nat \ {0}
  PROVE  /\ Sound(SendQp(s, i))
         /\ SendQp(s, i).m_currentPkt # None
         /\ i <= Len(s.m_qps) /\ Due(s, s.m_qps[i]) => ReadySent(s, SendQp(s, i))
<1>1. s \in NicType /\ s.m_qps \in Seq(Pairs)
  BY DEF Sound, NicType
<1>2. CASE i > Len(s.m_qps)
  <2> DEFINE t == [s EXCEPT !.m_currentPkt = Beyond]
  <2>1. SendQp(s, i) = t
    BY <1>2 DEF SendQp
  <2>2. t \in NicType /\ t.qp = s.qp /\ t.m_currentPkt = Beyond
    BY <1>1 DEF NicType
  <2> HIDE DEF t
  <2>3. Sound(t)
    BY <2>2 DEF Sound
  <2>4. Len(s.m_qps) \in Nat
    BY <1>1
  <2> QED
    BY <1>2, <2>1, <2>2, <2>3, <2>4 DEF Beyond, None
<1>3. CASE ~ (i > Len(s.m_qps))
  <2> DEFINE f == s.m_qps[i]
             p == s.qp[f]
             sent == PktSent(p)
             t == SendQp(s, i)
  <2>1. f \in Pairs
    BY <1>1, <1>3
  <2>2. /\ s.qp \in [Pairs -> QpType] /\ p \in QpType /\ f \in Nat \ {0}
        /\ p.snd_una <= p.snd_nxt /\ (p.stopped => flow[f].stops)
    BY <1>1, <2>1, FlowTypes DEF Sound, NicType
  <2> DEFINE u == [s EXCEPT !.qp = [s.qp EXCEPT ![f] = sent], !.m_rrlast = i - 1,
                            !.hostDequeueIndex = 1]
  <2>3. t = [u EXCEPT !.m_currentPkt = f, !.remaining = 1]
    BY <1>3 DEF SendQp, TransmitStart, Turn
  <2> HIDE DEF t, f, p
  <2>5. /\ sent \in QpType /\ sent.snd_nxt = p.snd_nxt + 1 /\ sent.snd_una = p.snd_una
        /\ sent.m_rate = p.m_rate /\ sent.stopped = p.stopped
    BY <2>2, PktSentIs
  <2> HIDE DEF sent
  <2>6. /\ i - 1 \in Nat /\ [s.qp EXCEPT ![f] = sent] \in [Pairs -> QpType]
        /\ s \in NicType /\ f \in Pairs
    BY <1>1, <2>1, <2>2, <2>5
  <2>7. u \in NicType /\ u.qp = [s.qp EXCEPT ![f] = sent] /\ u.m_paused = s.m_paused
    BY <2>6 DEF NicType
  <2> HIDE DEF u
  <2>8. /\ t \in NicType /\ t.qp = [s.qp EXCEPT ![f] = sent] /\ t.m_currentPkt = f
        /\ t.m_paused = s.m_paused
    BY <2>3, <2>6, <2>7 DEF NicType
  <2>9. \A g \in Pairs : t.qp[g] = IF g = f THEN sent ELSE s.qp[g]
    BY <2>2, <2>8
  <2>10. Sound(t)
    <3> SUFFICES ASSUME NEW g \in Pairs
                 PROVE  /\ t.qp[g].snd_una <= t.qp[g].snd_nxt
                        /\ t.qp[g].stopped => flow[g].stops
      BY <2>8 DEF Sound
    <3>1. CASE g = f
      BY <2>2, <2>5, <2>9, <3>1 DEF QpType
    <3>2. CASE g # f
      BY <2>9, <3>2 DEF Sound
    <3> QED
      BY <3>1, <3>2
  <2>11. ASSUME Due(s, f) PROVE ReadySent(s, t)
    <3>1. /\ flow[f].m_pg \notin s.m_paused /\ Gap[p.m_rate] - p.since <= 0
          /\ flow[f].m_win # 0 => p.snd_nxt - p.snd_una < flow[f].m_win
      <4>1. p.snd_nxt \in Nat /\ p.snd_una \in Nat /\ flow[f].m_win \in Nat
        BY <2>1, <2>2, FlowTypes DEF QpType
      <4> QED
        BY <2>11, <4>1 DEF Due, Sendable, Wait, IsWinBound, GetOnTheFly, p
    <3>2. p.since >= Gap[sent.m_rate]
      BY <2>2, <2>5, <3>1, Gaps DEF QpType
    <3>3. flow[f].m_win # 0 => GetOnTheFly(t, f) <= flow[f].m_win
      <4>1. p.snd_nxt \in Nat /\ p.snd_una \in Nat /\ flow[f].m_win \in Nat
        BY <2>1, <2>2, FlowTypes DEF QpType
      <4> QED
        BY <2>1, <2>5, <2>9, <3>1, <4>1 DEF GetOnTheFly
    <3> SUFFICES ASSUME NEW g \in Pairs, t.qp[g].snd_nxt > s.qp[g].snd_nxt
                 PROVE  /\ flow[g].m_pg \notin t.m_paused
                        /\ s.qp[g].since >= Gap[t.qp[g].m_rate]
                        /\ flow[g].m_win # 0 => GetOnTheFly(t, g) <= flow[g].m_win
      BY <2>2, <2>8 DEF ReadySent, Beyond
    <3>4. g = f
      <4>1. s.qp[g].snd_nxt \in Nat
        BY <2>2 DEF QpType
      <4> QED
        BY <2>9, <4>1
    <3> QED
      BY <2>1, <2>8, <2>9, <3>1, <3>2, <3>3, <3>4 DEF p
  <2> QED
    BY <2>2, <2>8, <2>10, <2>11 DEF t, f, None
<1> QED
  BY <1>2, <1>3

\* Acknowledgements and TCP packets.
LEMMA OthersSend ==
  ASSUME NEW s, Sound(s)
  PROVE  /\ s.m_ackQ > 0 =>
              LET t == TransmitStart([s EXCEPT !.m_ackQ = @ - 1], Ack)
              IN  Sound(t) /\ t.qp = s.qp /\ t.m_currentPkt = Ack
         /\ s.tcp > 0 =>
              /\ Sound(SendTcpPacket(s)) /\ SendTcpPacket(s).qp = s.qp
              /\ SendTcpPacket(s).m_currentPkt = Tcp
<1>1. s \in NicType
  BY DEF Sound
<1>2. ASSUME s.m_ackQ > 0
      PROVE  LET t == TransmitStart([s EXCEPT !.m_ackQ = @ - 1], Ack)
             IN  Sound(t) /\ t.qp = s.qp /\ t.m_currentPkt = Ack
  <2> DEFINE u == [s EXCEPT !.m_ackQ = @ - 1]
             t == TransmitStart(u, Ack)
  <2>1. s.m_ackQ - 1 \in Nat
    BY <1>1, <1>2 DEF NicType
  <2>2. u \in NicType /\ u.qp = s.qp
    BY <1>1, <2>1 DEF NicType
  <2> HIDE DEF u
  <2>3. t \in NicType /\ t.qp = u.qp /\ t.m_currentPkt = Ack
    BY <2>2 DEF NicType, TransmitStart
  <2> HIDE DEF t
  <2>4. Sound(t)
    BY <2>2, <2>3 DEF Sound
  <2> QED
    BY <2>2, <2>3, <2>4 DEF t, u
<1>3. ASSUME s.tcp > 0
      PROVE  /\ Sound(SendTcpPacket(s)) /\ SendTcpPacket(s).qp = s.qp
             /\ SendTcpPacket(s).m_currentPkt = Tcp
  <2> DEFINE u == [s EXCEPT !.tcp = @ - 1, !.hostDequeueIndex = 0]
             t == [u EXCEPT !.m_currentPkt = Tcp, !.remaining = 1]
  <2>1. s.tcp - 1 \in Nat
    BY <1>1, <1>3 DEF NicType
  <2>2. SendTcpPacket(s) = t
    BY DEF SendTcpPacket, TransmitStart, Turn
  <2>3. u \in NicType /\ u.qp = s.qp
    BY <1>1, <2>1 DEF NicType
  <2> HIDE DEF u
  <2>4. t \in NicType /\ t.qp = u.qp /\ t.m_currentPkt = Tcp
    BY <2>3 DEF NicType
  <2> HIDE DEF t
  <2>5. Sound(t)
    BY <2>3, <2>4 DEF Sound
  <2> QED
    BY <2>2, <2>3, <2>4, <2>5
<1> QED
  BY <1>2, <1>3

\* If nothing is due, whoever waits for its pace will be looked for.
LEMMA NextSendScheduled ==
  ASSUME NEW s, Sound(s), \A f \in ToSet(s.m_qps) : ~Due(s, f)
  PROVE  /\ Sound(ScheduleNextSend(s)) /\ Scheduled(ScheduleNextSend(s))
         /\ ScheduleNextSend(s).qp = s.qp
         /\ ScheduleNextSend(s).m_currentPkt = s.m_currentPkt
<1> DEFINE left == {g \in ToSet(s.m_qps) : GetBytesLeft(s, g) > 0}
           waits == {Wait(s, f) : f \in left}
           t == ScheduleNextSend(s)
           changes == s.m_nextSend = NoWakeup /\ waits # {} /\ Least(waits) > 0
<1>1. s \in NicType /\ ToSet(s.m_qps) \subseteq Pairs
  BY DEF Sound, NicType, ToSet
<1>2. waits \subseteq Int /\ MaxGap \in Nat /\ \A x \in waits : x >= -MaxGap
  <2> SUFFICES ASSUME NEW f \in left
               PROVE  Wait(s, f) \in Int /\ Wait(s, f) >= -MaxGap
    BY Gaps
  <2>1. s.qp[f] \in QpType
    BY <1>1 DEF NicType
  <2>2. s.qp[f].since \in 0 .. MaxGap /\ Gap[s.qp[f].m_rate] \in Nat \ {0} /\ MaxGap \in Nat
    BY <2>1, Gaps DEF QpType
  <2> QED
    BY <2>2 DEF Wait
<1>3. t = IF changes THEN [s EXCEPT !.m_nextSend = Least(waits)] ELSE s
  BY DEF ScheduleNextSend
<1>4. waits # {} => Least(waits) \in waits
  <2> HIDE DEF waits
  <2> QED
    BY <1>2, LeastOf
<1>5. \A f \in ToSet(s.m_qps) : Wait(s, f) <= 0 => ~Sendable(s, f)
  BY DEF Due
<1>6. \A f \in ToSet(s.m_qps) : Sendable(s, f) => f \in left
  BY DEF Sendable
<1>7. CASE changes
  <2>1. Least(waits) \in Nat
    <3> HIDE DEF waits
    <3>1. Least(waits) \in Int /\ Least(waits) > 0
      BY <1>2, <1>4, <1>7
    <3> QED
      BY <3>1
  <2> HIDE DEF waits
  <2>2. t = [s EXCEPT !.m_nextSend = Least(waits)]
    BY <1>3, <1>7
  <2> HIDE DEF changes, t
  <2>3. /\ t \in NicType /\ t.qp = s.qp /\ t.m_currentPkt = s.m_currentPkt
        /\ t.m_nextSend \in Nat
    BY <1>1, <2>1, <2>2 DEF NicType
  <2>4. Sound(t)
    BY <2>3 DEF Sound
  <2>5. Scheduled(t)
    BY <2>3 DEF Scheduled, NoWakeup
  <2> QED
    BY <2>3, <2>4, <2>5 DEF t
<1>8. CASE ~changes
  <2>1. t = s
    BY <1>3, <1>8
  <2>2. ASSUME NEW f \in ToSet(s.m_qps), Sendable(s, f), s.m_nextSend = NoWakeup
        PROVE  \E g \in ToSet(s.m_qps) : GetBytesLeft(s, g) > 0 /\ ~Sendable(s, g)
    <3>1. f \in left
      BY <1>6, <2>2
    <3>2. waits # {}
      BY <3>1
    <3>3. ~ (Least(waits) > 0)
      BY <1>8, <2>2, <3>2
    <3>4. PICK g \in left : Least(waits) = Wait(s, g)
      BY <1>4, <3>2
    <3>5. Wait(s, g) \in Int
      BY <1>2
    <3>6. Wait(s, g) <= 0
      BY <3>3, <3>4, <3>5
    <3>7. g \in ToSet(s.m_qps) /\ GetBytesLeft(s, g) > 0
      OBVIOUS
    <3> QED
      BY <1>5, <3>6, <3>7
  <2>3. Scheduled(s)
    BY <2>2 DEF Scheduled
  <2> HIDE DEF t
  <2>4. Sound(t) /\ Scheduled(t) /\ t.qp = s.qp /\ t.m_currentPkt = s.m_currentPkt
    BY <2>1, <2>3
  <2> QED
    BY <2>4 DEF t
<1> QED
  BY <1>7, <1>8

\* The NIC looks for something to send.
LEMMA Looks ==
  ASSUME flow \in Flows, NEW s, Sound(s)
  PROVE  /\ Sound(DequeueAndTransmit(s))
         /\ Scheduled(DequeueAndTransmit(s))
         /\ StopsAlone(Flows) /\ s.m_currentPkt # Beyond => ReadySent(s, DequeueAndTransmit(s))
<1> DEFINE t == DequeueAndTransmit(s)
           n == NextQp(s)
           Good(x) == /\ Sound(x) /\ Scheduled(x)
                      /\ StopsAlone(Flows) /\ s.m_currentPkt # Beyond => ReadySent(s, x)
<1>1. s \in NicType /\ s.m_qps \in Seq(Pairs)
  BY DEF Sound, NicType
<1>2. CASE s.m_currentPkt # None
  <2>1. t = s
    BY <1>2 DEF DequeueAndTransmit
  <2>2. Scheduled(s)
    BY <1>2 DEF Scheduled
  <2>3. s.m_currentPkt # Beyond => ReadySent(s, s)
    BY NothingSent
  <2> QED
    BY <2>1, <2>2, <2>3
<1>3. ASSUME s.m_currentPkt = None, NEW x, Sound(x), x.qp = s.qp,
             x.m_currentPkt \in {Ack, Tcp}
      PROVE  Good(x)
  <2>1. x.m_currentPkt # None /\ x.m_currentPkt # Beyond
    BY <1>3 DEF Ack, Tcp, None, Beyond
  <2>2. Scheduled(x)
    BY <2>1 DEF Scheduled
  <2>3. ReadySent(s, x)
    BY <1>3, <2>1, NothingSent
  <2> QED
    BY <1>3, <2>2, <2>3
<1>4. CASE s.m_currentPkt = None /\ AckQ \notin s.m_paused /\ s.m_ackQ > 0
  <2> DEFINE x == TransmitStart([s EXCEPT !.m_ackQ = @ - 1], Ack)
  <2>1. t = x
    BY <1>4 DEF DequeueAndTransmit
  <2>2. Sound(x) /\ x.qp = s.qp /\ x.m_currentPkt = Ack
    BY <1>4, OthersSend
  <2> HIDE DEF x, t
  <2>3. Good(x)
    <3> HIDE DEF Good
    <3> QED
      BY <1>3, <1>4, <2>2
  <2> QED
    BY <2>1, <2>3 DEF t
<1>5. CASE /\ s.m_currentPkt = None /\ ~ (AckQ \notin s.m_paused /\ s.m_ackQ > 0)
           /\ s.hostDequeueIndex = 1 /\ s.tcp > 0
  <2> DEFINE x == SendTcpPacket(s)
  <2>1. t = x
    BY <1>5 DEF DequeueAndTransmit
  <2>2. Sound(x) /\ x.qp = s.qp /\ x.m_currentPkt = Tcp
    BY <1>5, OthersSend
  <2> HIDE DEF x, t
  <2>3. Good(x)
    <3> HIDE DEF Good
    <3> QED
      BY <1>3, <1>5, <2>2
  <2> QED
    BY <2>1, <2>3 DEF t
<1>6. CASE /\ s.m_currentPkt = None /\ ~ (AckQ \notin s.m_paused /\ s.m_ackQ > 0)
           /\ ~ (s.hostDequeueIndex = 1 /\ s.tcp > 0)
  <2> DEFINE u == n.nic
             i == n.chosen
  <2>1. t = IF i # 0 THEN SendQp(u, i)
            ELSE IF s.tcp > 0 THEN SendTcpPacket(u) ELSE ScheduleNextSend(u)
    BY <1>6 DEF DequeueAndTransmit
  <2>2. PICK q \in Seq(Pairs) : ToSet(q) \subseteq ToSet(s.m_qps) /\ u = [s EXCEPT !.m_qps = q]
    BY NextQpFinds
  <2>3. /\ i \in Nat
        /\ i = 0 => \A f \in ToSet(s.m_qps) : ~Due(s, f)
        /\ i # 0 /\ StopsAlone(Flows) => i <= Len(u.m_qps) /\ Due(s, u.m_qps[i])
    BY NextQpFinds
  <2> HIDE DEF n, t, u, i
  <2>4. /\ u \in NicType /\ u.qp = s.qp /\ u.m_paused = s.m_paused /\ u.tcp = s.tcp
        /\ u.m_currentPkt = None /\ u.m_qps = q
    BY <1>1, <1>6, <2>2 DEF NicType
  <2>5. Sound(u)
    BY <2>4 DEF Sound
  <2>6. \A f : Due(u, f) <=> Due(s, f)
    BY <2>4 DEF Due, Sendable, Wait, GetBytesLeft, IsWinBound, GetOnTheFly
  <2>7. CASE i # 0
    <3> DEFINE x == SendQp(u, i)
    <3>1. /\ Sound(x) /\ x.m_currentPkt # None
          /\ StopsAlone(Flows) => ReadySent(u, x)
      BY <2>3, <2>5, <2>6, <2>7, PairSends
    <3> HIDE DEF x
    <3>2. Scheduled(x)
      BY <3>1 DEF Scheduled
    <3>3. ReadySent(u, x) => ReadySent(s, x)
      BY <2>4 DEF ReadySent
    <3>4. t = x
      BY <2>1, <2>7 DEF x
    <3> QED
      BY <3>1, <3>2, <3>3, <3>4 DEF t
  <2>8. CASE i = 0 /\ s.tcp > 0
    <3> DEFINE x == SendTcpPacket(u)
    <3>1. Sound(x) /\ x.qp = s.qp /\ x.m_currentPkt = Tcp
      BY <2>4, <2>5, <2>8, OthersSend
    <3> HIDE DEF x
    <3>2. Good(x)
      <4> HIDE DEF Good
      <4> QED
        BY <1>3, <1>6, <3>1
    <3>3. t = x
      BY <2>1, <2>8 DEF x
    <3> QED
      BY <3>2, <3>3 DEF t
  <2>9. CASE i = 0 /\ ~ (s.tcp > 0)
    <3> DEFINE x == ScheduleNextSend(u)
    <3>1. \A f \in ToSet(u.m_qps) : ~Due(u, f)
      BY <2>2, <2>3, <2>4, <2>6, <2>9
    <3>2. Sound(x) /\ Scheduled(x) /\ x.qp = s.qp /\ x.m_currentPkt = None
      BY <2>4, <2>5, <3>1, NextSendScheduled
    <3> HIDE DEF x
    <3>3. ReadySent(s, x)
      BY <3>2, NothingSent DEF None, Beyond
    <3>4. t = x
      BY <2>1, <2>9 DEF x
    <3> QED
      BY <3>2, <3>3, <3>4 DEF t
  <2> QED
    BY <2>7, <2>8, <2>9
<1> QED
  BY <1>2, <1>4, <1>5, <1>6

-------------------------------------------------------------------------------
(* Events *)

\* What an event does before the NIC looks for something to send.
Prepared(s, t) ==
  /\ Sound(t)
  /\ t.m_currentPkt # Beyond
  /\ \A f \in Pairs : /\ t.qp[f].snd_nxt = s.qp[f].snd_nxt
                      /\ t.qp[f].since = s.qp[f].since

\* A pair is changed.
LEMMA PairChanges ==
  ASSUME NEW s, Sound(s), NEW f \in Pairs, NEW p \in QpType,
         p.snd_una <= p.snd_nxt, p.stopped => flow[f].stops,
         NEW t, t = [s EXCEPT !.qp = [s.qp EXCEPT ![f] = p]]
  PROVE  /\ Sound(t) /\ \A g \in Pairs : t.qp[g] = IF g = f THEN p ELSE s.qp[g]
         /\ t.m_qpMap = s.m_qpMap /\ t.m_qps = s.m_qps /\ t.m_paused = s.m_paused
         /\ t.m_currentPkt = s.m_currentPkt /\ t.m_nextSend = s.m_nextSend
<1> DEFINE qp == [s.qp EXCEPT ![f] = p]
<1>1. s \in NicType /\ s.qp \in [Pairs -> QpType]
  BY DEF Sound, NicType
<1>2. qp \in [Pairs -> QpType] /\ \A g \in Pairs : qp[g] = IF g = f THEN p ELSE s.qp[g]
  BY <1>1
<1> HIDE DEF qp
<1>3. t = [s EXCEPT !.qp = qp]
  BY DEF qp
<1>4. /\ t \in NicType /\ t.qp = qp
      /\ t.m_qpMap = s.m_qpMap /\ t.m_qps = s.m_qps /\ t.m_paused = s.m_paused
      /\ t.m_currentPkt = s.m_currentPkt /\ t.m_nextSend = s.m_nextSend
  BY <1>1, <1>2, <1>3 DEF NicType
<1>5. Sound(t)
  <2> SUFFICES ASSUME NEW g \in Pairs
               PROVE  /\ t.qp[g].snd_una <= t.qp[g].snd_nxt
                      /\ t.qp[g].stopped => flow[g].stops
    BY <1>4 DEF Sound
  <2>1. CASE g = f
    BY <1>2, <1>4, <2>1
  <2>2. CASE g # f
    BY <1>2, <1>4, <2>2 DEF Sound
  <2> QED
    BY <2>1, <2>2
<1> QED
  BY <1>2, <1>4, <1>5

\* The congestion control sets a rate.
LEMMA RateIsSet ==
  ASSUME NEW s, Sound(s), NEW f \in Pairs, NEW r \in Rate
  PROVE  LET t == SetRate(s, f, r)
         IN  /\ Sound(t) /\ t.m_currentPkt = s.m_currentPkt /\ t.m_qps = s.m_qps
             /\ t.m_paused = s.m_paused
             /\ s.m_nextSend # NoWakeup => t.m_nextSend # NoWakeup
             /\ \A g \in Pairs : /\ t.qp[g].snd_nxt = s.qp[g].snd_nxt
                                 /\ t.qp[g].snd_una = s.qp[g].snd_una
                                 /\ t.qp[g].since = s.qp[g].since
<1> DEFINE p == [s.qp[f] EXCEPT !.m_rate = r]
           u == [s EXCEPT !.qp[f].m_rate = r]
           v == [s EXCEPT !.qp = [s.qp EXCEPT ![f] = p]]
           w == Wait(u, f)
           t == SetRate(s, f, r)
<1>1. s.qp[f] \in QpType /\ s \in NicType
  BY DEF Sound, NicType
<1>2. /\ p \in QpType /\ p.snd_nxt = s.qp[f].snd_nxt /\ p.snd_una = s.qp[f].snd_una
      /\ p.since = s.qp[f].since /\ p.stopped = s.qp[f].stopped /\ p.m_rate = r
  BY <1>1 DEF QpType
<1>3. u = v
  OBVIOUS
<1>4. t = UpdateNextAvail(u, w)
  BY DEF SetRate
<1> HIDE DEF p
<1>5. /\ Sound(v) /\ \A g \in Pairs : v.qp[g] = IF g = f THEN p ELSE s.qp[g]
      /\ v.m_qps = s.m_qps /\ v.m_paused = s.m_paused
      /\ v.m_currentPkt = s.m_currentPkt /\ v.m_nextSend = s.m_nextSend
  BY <1>1, <1>2, PairChanges DEF Sound
<1> HIDE DEF u, v, t, w
<1>6. w \in Int
  BY <1>2, <1>3, <1>5, Gaps DEF Wait, w, QpType
<1>7. CASE v.m_nextSend # NoWakeup /\ w < v.m_nextSend
  <2> DEFINE k == IF w > 0 THEN w ELSE 0
  <2>1. t = [v EXCEPT !.m_nextSend = k]
    BY <1>3, <1>4, <1>7 DEF UpdateNextAvail
  <2>2. k \in Nat
    BY <1>6
  <2> HIDE DEF k
  <2>3. v \in NicType
    BY <1>5 DEF Sound
  <2>4. /\ t \in NicType /\ t.qp = v.qp /\ t.m_qps = v.m_qps /\ t.m_paused = v.m_paused
        /\ t.m_currentPkt = v.m_currentPkt /\ t.m_nextSend = k
    BY <2>1, <2>2, <2>3 DEF NicType
  <2>5. Sound(t) /\ t.m_nextSend # NoWakeup
    BY <1>5, <2>2, <2>4 DEF Sound, NoWakeup
  <2>6. \A g \in Pairs : /\ t.qp[g].snd_nxt = s.qp[g].snd_nxt
                         /\ t.qp[g].snd_una = s.qp[g].snd_una
                         /\ t.qp[g].since = s.qp[g].since
    BY <1>2, <1>5, <2>4
  <2> QED
    BY <1>5, <2>4, <2>5, <2>6 DEF t
<1>8. CASE ~ (v.m_nextSend # NoWakeup /\ w < v.m_nextSend)
  <2>1. t = v
    BY <1>3, <1>4, <1>8 DEF UpdateNextAvail
  <2>2. \A g \in Pairs : /\ t.qp[g].snd_nxt = s.qp[g].snd_nxt
                         /\ t.qp[g].snd_una = s.qp[g].snd_una
                         /\ t.qp[g].since = s.qp[g].since
    BY <1>2, <1>5, <2>1
  <2> QED
    BY <1>5, <2>1, <2>2 DEF t
<1> QED
  BY <1>7, <1>8

\* A step of the NIC that keeps what there is to keep.
Good(s, t) == Sound(t) /\ Scheduled(t) /\ (StopsAlone(Flows) => ReadySent(s, t))

\* An event after which the NIC looks for something to send.
LEMMA EventLooks ==
  ASSUME flow \in Flows, NEW s, Sound(s), NEW t, Prepared(s, t)
  PROVE  Good(s, DequeueAndTransmit(t))
<1> DEFINE x == DequeueAndTransmit(t)
<1>1. Sound(x) /\ Scheduled(x) /\ (StopsAlone(Flows) => ReadySent(t, x))
  BY Looks DEF Prepared
<1> HIDE DEF x
<1>2. ReadySent(t, x) => ReadySent(s, x)
  BY DEF Prepared, ReadySent
<1> QED
  BY <1>1, <1>2 DEF Good, x

\* An event after which it does not, and that makes no pair ready.
LEMMA EventWaits ==
  ASSUME NEW s, Sound(s), Scheduled(s), NEW t, Sound(t),
         s.m_currentPkt = None <=> t.m_currentPkt = None, t.m_currentPkt # Beyond,
         t.m_qps = s.m_qps, s.m_paused \subseteq t.m_paused,
         s.m_nextSend # NoWakeup => t.m_nextSend # NoWakeup,
         \A f \in Pairs : /\ t.qp[f].snd_nxt = s.qp[f].snd_nxt
                          /\ t.qp[f].snd_una = s.qp[f].snd_una
  PROVE  Good(s, t)
<1>1. ToSet(s.m_qps) \subseteq Pairs
  BY DEF Sound, NicType, ToSet
<1>2. ASSUME NEW f \in Pairs
      PROVE  /\ GetBytesLeft(t, f) = GetBytesLeft(s, f)
             /\ Sendable(t, f) => Sendable(s, f)
  BY <1>2 DEF GetBytesLeft, Sendable, IsWinBound, GetOnTheFly
<1>3. Scheduled(t)
  BY <1>1, <1>2 DEF Scheduled
<1>4. \A f \in Pairs : s.qp[f].snd_nxt \in Nat
  BY DEF Sound, NicType, QpType
<1>5. ReadySent(s, t)
  BY <1>4 DEF ReadySent
<1> QED
  BY <1>3, <1>5 DEF Good

\* The inductive invariant.
NicInv == flow \in Flows /\ Sound(nic) /\ Scheduled(nic)

\* The pairs and the packets that ask to be sent.
LEMMA ArrivalSteps ==
  ASSUME NicInv, Running
  PROVE  /\ \A f \in Pairs : NewQp(f) => Good(nic, nic')
         /\ Send => Good(nic, nic')
         /\ ReceiveUdp => Good(nic, nic')
<1>1. /\ nic \in NicType /\ Sound(nic) /\ flow \in Flows /\ nic.m_currentPkt # Beyond
      /\ nic.m_ackQ \in Nat /\ nic.tcp \in Nat /\ nic.m_qps \in Seq(Pairs)
      /\ nic.m_qpMap \subseteq Pairs
  BY DEF NicInv, Sound, NicType, Running
<1>2. ASSUME NEW s \in NicType, s.qp = nic.qp, s.m_currentPkt = nic.m_currentPkt,
             nic' = DequeueAndTransmit(s)
      PROVE  Good(nic, nic')
  <2>1. Sound(s)
    BY <1>1, <1>2 DEF Sound
  <2>2. Prepared(nic, s)
    BY <1>1, <1>2, <2>1 DEF Prepared
  <2> QED
    BY <1>1, <1>2, <2>2, EventLooks
<1>3. ASSUME NEW f \in Pairs, NewQp(f) PROVE Good(nic, nic')
  <2> DEFINE s == [nic EXCEPT !.m_qpMap = @ \cup {f}, !.m_qps = Append(@, f)]
  <2>1. nic' = DequeueAndTransmit(s)
    BY <1>3 DEF NewQp
  <2>2. Append(nic.m_qps, f) \in Seq(Pairs) /\ nic.m_qpMap \cup {f} \subseteq Pairs
    BY <1>1
  <2>3. s \in NicType /\ s.qp = nic.qp /\ s.m_currentPkt = nic.m_currentPkt
    BY <1>1, <2>2 DEF NicType
  <2> HIDE DEF s
  <2> QED
    BY <1>2, <2>1, <2>3
<1>4. ASSUME Send PROVE Good(nic, nic')
  <2> DEFINE s == [nic EXCEPT !.tcp = @ + 1]
  <2>1. nic' = DequeueAndTransmit(s)
    BY <1>4 DEF Send
  <2>2. s \in NicType /\ s.qp = nic.qp /\ s.m_currentPkt = nic.m_currentPkt
    BY <1>1 DEF NicType
  <2> HIDE DEF s
  <2> QED
    BY <1>2, <2>1, <2>2
<1>5. ASSUME ReceiveUdp PROVE Good(nic, nic')
  <2> DEFINE s == [nic EXCEPT !.m_ackQ = @ + 1]
  <2>1. nic' = DequeueAndTransmit(s)
    BY <1>5 DEF ReceiveUdp
  <2>2. s \in NicType /\ s.qp = nic.qp /\ s.m_currentPkt = nic.m_currentPkt
    BY <1>1 DEF NicType
  <2> HIDE DEF s
  <2> QED
    BY <1>2, <2>1, <2>2
<1> QED
  BY <1>3, <1>4, <1>5

\* Rates, acknowledgements and stop times.
LEMMA PairSteps ==
  ASSUME NicInv, Running, NEW f \in Pairs
  PROVE  /\ \A r \in Rate : ChangeRate(f, r) => Good(nic, nic')
         /\ \A r \in Rate : \A seq \in 1 .. Arrived(f) :
              ReceiveAck(f, seq, r) => Good(nic, nic')
         /\ StopTime(f) => Good(nic, nic')
<1> DEFINE p == nic.qp[f]
<1>1. /\ nic \in NicType /\ Sound(nic) /\ Scheduled(nic) /\ flow \in Flows
      /\ nic.m_currentPkt # Beyond
      /\ p \in QpType /\ p.snd_una <= p.snd_nxt /\ (p.stopped => flow[f].stops)
  BY DEF NicInv, Sound, NicType, Running
<1>2. ASSUME NEW r \in Rate, ChangeRate(f, r) PROVE Good(nic, nic')
  <2>1. nic' = SetRate(nic, f, r)
    BY <1>2 DEF ChangeRate
  <2> DEFINE t == SetRate(nic, f, r)
  <2>2. /\ Sound(t) /\ t.m_currentPkt = nic.m_currentPkt /\ t.m_qps = nic.m_qps
        /\ t.m_paused = nic.m_paused
        /\ nic.m_nextSend # NoWakeup => t.m_nextSend # NoWakeup
        /\ \A g \in Pairs : /\ t.qp[g].snd_nxt = nic.qp[g].snd_nxt
                            /\ t.qp[g].snd_una = nic.qp[g].snd_una
                            /\ t.qp[g].since = nic.qp[g].since
    BY <1>1, RateIsSet
  <2> HIDE DEF t
  <2>3. Good(nic, t)
    BY <1>1, <2>2, EventWaits
  <2> QED
    BY <2>1, <2>3 DEF t
<1>3. ASSUME NEW r \in Rate, NEW seq \in 1 .. Arrived(f), ReceiveAck(f, seq, r)
      PROVE  Good(nic, nic')
  <2> DEFINE acked == [nic EXCEPT !.qp[f].snd_una = seq]
             left == IF IsFinished(acked, f) THEN [acked EXCEPT !.m_qpMap = @ \ {f}] ELSE acked
             last == IF nic.qp[f].m_rate = r THEN left ELSE SetRate(left, f, r)
             a == [p EXCEPT !.snd_una = seq]
  <2>1. nic' = DequeueAndTransmit(last)
    BY <1>3 DEF ReceiveAck
  <2>2. seq \in Nat /\ seq <= p.snd_nxt
    <3>1. p.snd_nxt \in Nat
      BY <1>1 DEF QpType
    <3>2. Arrived(f) \in Int /\ Arrived(f) <= p.snd_nxt
      BY <3>1 DEF Arrived
    <3> HIDE DEF p
    <3> QED
      BY <3>1, <3>2
  <2>3. acked = [nic EXCEPT !.qp = [nic.qp EXCEPT ![f] = a]]
    OBVIOUS
  <2> HIDE DEF acked, left, last
  <2>4. /\ a \in QpType /\ a.snd_una <= a.snd_nxt /\ (a.stopped => flow[f].stops)
        /\ a.snd_nxt = p.snd_nxt /\ a.since = p.since
    <3> HIDE DEF p
    <3> QED
      BY <1>1, <2>2 DEF QpType
  <2> HIDE DEF a
  <2>5. /\ Sound(acked) /\ acked.m_currentPkt = nic.m_currentPkt
        /\ \A g \in Pairs : acked.qp[g] = IF g = f THEN a ELSE nic.qp[g]
    BY <1>1, <2>3, <2>4, PairChanges
  <2>6. Prepared(nic, acked)
    BY <1>1, <2>4, <2>5 DEF Prepared
  <2>7. Sound(left) /\ left.qp = acked.qp /\ left.m_currentPkt = acked.m_currentPkt
    <3>1. CASE left = acked
      BY <2>5, <3>1
    <3>2. CASE left = [acked EXCEPT !.m_qpMap = @ \ {f}]
      <4>1. /\ left \in NicType /\ left.qp = acked.qp
            /\ left.m_currentPkt = acked.m_currentPkt
        BY <2>5, <3>2 DEF Sound, NicType
      <4> QED
        BY <2>5, <4>1 DEF Sound
    <3> QED
      BY <3>1, <3>2 DEF left
  <2>8. Prepared(nic, left)
    BY <2>6, <2>7 DEF Prepared
  <2>9. Prepared(nic, last)
    <3>1. CASE last = left
      BY <2>8, <3>1
    <3>2. CASE last = SetRate(left, f, r)
      <4>1. /\ Sound(last) /\ last.m_currentPkt = left.m_currentPkt
            /\ \A g \in Pairs : /\ last.qp[g].snd_nxt = left.qp[g].snd_nxt
                                /\ last.qp[g].since = left.qp[g].since
        BY <2>7, <3>2, RateIsSet
      <4> QED
        BY <2>8, <4>1 DEF Prepared
    <3> QED
      BY <3>1, <3>2 DEF last
  <2> QED
    BY <1>1, <2>1, <2>9, EventLooks
<1>4. ASSUME StopTime(f) PROVE Good(nic, nic')
  <2> DEFINE a == [p EXCEPT !.stopped = TRUE]
  <2>1. nic' = [nic EXCEPT !.qp = [nic.qp EXCEPT ![f] = a]] /\ flow[f].stops
    BY <1>4 DEF StopTime
  <2>2. /\ a \in QpType /\ a.snd_una <= a.snd_nxt /\ (a.stopped => flow[f].stops)
        /\ a.snd_nxt = p.snd_nxt /\ a.snd_una = p.snd_una
    <3> HIDE DEF p
    <3> QED
      BY <1>1, <2>1 DEF QpType
  <2> HIDE DEF a
  <2>3. /\ Sound(nic') /\ \A g \in Pairs : nic'.qp[g] = IF g = f THEN a ELSE nic.qp[g]
        /\ nic'.m_qps = nic.m_qps /\ nic'.m_paused = nic.m_paused
        /\ nic'.m_currentPkt = nic.m_currentPkt /\ nic'.m_nextSend = nic.m_nextSend
    BY <1>1, <2>1, <2>2, PairChanges
  <2> QED
    BY <1>1, <2>2, <2>3, EventWaits
<1> QED
  BY <1>2, <1>3, <1>4

\* Pauses, the end of a transmission, the event that looks again, and time.
LEMMA OtherSteps ==
  ASSUME NicInv, Running
  PROVE  /\ \A pg \in Priority : ReceivePause(pg) \/ Resume(pg) => Good(nic, nic')
         /\ TransmitComplete => Good(nic, nic')
         /\ NextSend => Good(nic, nic')
         /\ Tick => Good(nic, nic')
<1>1. /\ nic \in NicType /\ Sound(nic) /\ Scheduled(nic) /\ flow \in Flows
      /\ nic.m_currentPkt # Beyond /\ nic.m_paused \subseteq Priority
  BY DEF NicInv, Sound, NicType, Running
<1>2. ASSUME NEW s \in NicType, s.qp = nic.qp, s.m_currentPkt # Beyond,
             nic' = DequeueAndTransmit(s)
      PROVE  Good(nic, nic')
  <2>1. Sound(s)
    BY <1>1, <1>2 DEF Sound
  <2>2. Prepared(nic, s)
    BY <1>1, <1>2, <2>1 DEF Prepared
  <2> QED
    BY <1>1, <1>2, <2>2, EventLooks
<1>3. ASSUME NEW pg \in Priority, ReceivePause(pg) PROVE Good(nic, nic')
  <2> DEFINE t == [nic EXCEPT !.m_paused = @ \cup {pg}]
  <2>1. nic' = t
    BY <1>3 DEF ReceivePause
  <2>2. /\ t \in NicType /\ t.qp = nic.qp /\ t.m_qps = nic.m_qps
        /\ t.m_currentPkt = nic.m_currentPkt /\ t.m_nextSend = nic.m_nextSend
        /\ nic.m_paused \subseteq t.m_paused
    BY <1>1 DEF NicType
  <2> HIDE DEF t
  <2>3. Sound(t)
    BY <1>1, <2>2 DEF Sound
  <2>4. Good(nic, t)
    BY <1>1, <2>2, <2>3, EventWaits
  <2> QED
    BY <2>1, <2>4
<1>4. ASSUME NEW pg \in Priority, Resume(pg) PROVE Good(nic, nic')
  <2> DEFINE s == [nic EXCEPT !.m_paused = @ \ {pg}]
  <2>1. nic' = DequeueAndTransmit(s)
    BY <1>4 DEF Resume
  <2>2. s \in NicType /\ s.qp = nic.qp /\ s.m_currentPkt = nic.m_currentPkt
    BY <1>1 DEF NicType
  <2> HIDE DEF s
  <2> QED
    BY <1>1, <1>2, <2>1, <2>2
<1>5. ASSUME TransmitComplete PROVE Good(nic, nic')
  <2> DEFINE s == [nic EXCEPT !.m_currentPkt = None]
  <2>1. nic' = DequeueAndTransmit(s)
    BY <1>5 DEF TransmitComplete
  <2>2. s \in NicType /\ s.qp = nic.qp /\ s.m_currentPkt = None
    BY <1>1 DEF NicType
  <2> HIDE DEF s
  <2> QED
    BY <1>2, <2>1, <2>2 DEF None, Beyond
<1>6. ASSUME NextSend PROVE Good(nic, nic')
  <2> DEFINE s == [nic EXCEPT !.m_nextSend = NoWakeup]
  <2>1. nic' = DequeueAndTransmit(s)
    BY <1>6 DEF NextSend
  <2>2. s \in NicType /\ s.qp = nic.qp /\ s.m_currentPkt = nic.m_currentPkt
    BY <1>1 DEF NicType
  <2> HIDE DEF s
  <2> QED
    BY <1>1, <1>2, <2>1, <2>2
<1>7. ASSUME Tick PROVE Good(nic, nic')
  <2> DEFINE qp == [f \in Pairs |-> Waited(nic.qp[f])]
             remaining == IF nic.remaining > 0 THEN nic.remaining - 1 ELSE nic.remaining
             left == IF nic.m_nextSend > 0 THEN nic.m_nextSend - 1 ELSE nic.m_nextSend
             t == [nic EXCEPT !.qp = qp, !.remaining = remaining, !.m_nextSend = left]
  <2>1. nic' = t /\ nic.m_nextSend # 0
    BY <1>7 DEF Tick
  <2>2. nic.remaining \in {0, 1} /\ nic.m_nextSend \in Nat \cup {NoWakeup}
    BY <1>1 DEF NicType
  <2>3. remaining \in {0, 1}
    BY <2>2
  <2>4. left \in Nat \cup {NoWakeup} /\ (nic.m_nextSend # NoWakeup => left # NoWakeup)
    BY <2>1, <2>2 DEF NoWakeup
  <2>5. ASSUME NEW p \in QpType
        PROVE  /\ Waited(p) \in QpType /\ Waited(p).snd_nxt = p.snd_nxt
               /\ Waited(p).snd_una = p.snd_una /\ Waited(p).stopped = p.stopped
    <3> DEFINE since == IF p.since < MaxGap THEN p.since + 1 ELSE p.since
    <3>1. p.since \in 0 .. MaxGap /\ MaxGap \in Nat
      BY Gaps DEF QpType
    <3>2. since \in 0 .. MaxGap
      BY <3>1
    <3>3. Waited(p) = [p EXCEPT !.since = since]
      BY DEF Waited
    <3> HIDE DEF since
    <3> QED
      BY <3>2, <3>3 DEF QpType
  <2>6. nic.qp \in [Pairs -> QpType]
    BY <1>1 DEF NicType
  <2>7. qp \in [Pairs -> QpType] /\ \A f \in Pairs : qp[f] = Waited(nic.qp[f])
    BY <2>5, <2>6
  <2> HIDE DEF qp, remaining, left
  <2>8. /\ t \in NicType /\ t.qp = qp /\ t.m_qps = nic.m_qps /\ t.m_paused = nic.m_paused
        /\ t.m_currentPkt = nic.m_currentPkt /\ t.m_nextSend = left
    BY <1>1, <2>3, <2>4, <2>7 DEF NicType
  <2> HIDE DEF t
  <2>9. \A f \in Pairs : /\ t.qp[f].snd_nxt = nic.qp[f].snd_nxt
                         /\ t.qp[f].snd_una = nic.qp[f].snd_una
                         /\ t.qp[f].stopped = nic.qp[f].stopped
    BY <2>5, <2>6, <2>7, <2>8
  <2>10. Sound(t)
    BY <1>1, <2>8, <2>9 DEF Sound
  <2>11. Good(nic, t)
    BY <1>1, <2>4, <2>8, <2>9, <2>10, EventWaits
  <2> QED
    BY <2>1, <2>11
<1> QED
  BY <1>3, <1>4, <1>5, <1>6, <1>7

\* Every step is a good one.
LEMMA NicSteps ==
  ASSUME NicInv, Next
  PROVE  Good(nic, nic') /\ flow' = flow
<1>1. Running
  BY DEF Next
<1>2. Good(nic, nic')
  BY <1>1, ArrivalSteps, PairSteps, OtherSteps DEF Next
<1>3. flow' = flow
  BY DEF Next, NewQp, StopTime, ChangeRate, ReceiveAck, ReceivePause, Resume, Send, ReceiveUdp,
         TransmitComplete, NextSend, Tick
<1> QED
  BY <1>2, <1>3

-------------------------------------------------------------------------------
(* The NIC *)

\* The invariant of the next state.
LEMMA NicInvNext ==
  ASSUME flow' = flow
  PROVE  NicInv' <=> flow \in Flows /\ Sound(nic') /\ Scheduled(nic')
BY DEF NicInv, Sound, NicType, Pairs, Scheduled, Sendable, GetBytesLeft, IsWinBound, GetOnTheFly

\* No pair is known yet.
LEMMA NicInit ==
  ASSUME Init
  PROVE  NicInv
<1>1. flow \in Flows
  BY DEF Init
<1> DEFINE p == [snd_nxt |-> 0, snd_una |-> 0, since |-> MaxGap, m_rate |-> LineRate,
                 stopped |-> FALSE]
<1>2. PICK parity \in {0, 1} :
        nic = [qp |-> [f \in Pairs |-> p], m_qpMap |-> {}, m_qps |-> <<>>, m_rrlast |-> 0,
               hostDequeueIndex |-> parity, m_ackQ |-> 0, tcp |-> 0, m_paused |-> {},
               m_currentPkt |-> None, remaining |-> 0, m_nextSend |-> NoWakeup]
  BY DEF Init
<1>3. p \in QpType /\ p.snd_nxt = 0 /\ p.snd_una = 0 /\ p.stopped = FALSE
  <2>1. MaxGap \in 0 .. MaxGap /\ LineRate \in Rate
    BY Gaps, NicConfiguration
  <2> QED
    BY <2>1 DEF QpType
<1> HIDE DEF p
<1>4. nic \in NicType /\ nic.qp = [f \in Pairs |-> p] /\ nic.m_qps = <<>>
  BY <1>2, <1>3 DEF NicType
<1>5. Sound(nic)
  BY <1>3, <1>4 DEF Sound
<1>6. ToSet(nic.m_qps) = {}
  BY <1>4 DEF ToSet
<1> QED
  BY <1>1, <1>5, <1>6 DEF NicInv, Scheduled

\* The invariant holds, for any pairs, priorities and rates.
THEOREM NicInvHolds == Spec => []NicInv
<1>1. Init => NicInv
  BY NicInit
<1>2. NicInv /\ [Next]_vars => NicInv'
  <2> SUFFICES ASSUME NicInv, [Next]_vars PROVE NicInv'
    OBVIOUS
  <2>1. CASE Next
    <3>1. Sound(nic') /\ Scheduled(nic') /\ flow' = flow
      BY <2>1, NicSteps DEF Good
    <3> QED
      BY <3>1, NicInvNext DEF NicInv
  <2>2. CASE UNCHANGED vars
    <3>1. nic' = nic /\ flow' = flow
      BY <2>2 DEF vars
    <3>2. Sound(nic') /\ Scheduled(nic')
      BY <3>1 DEF NicInv
    <3> QED
      BY <3>1, <3>2, NicInvNext DEF NicInv
  <2> QED
    BY <2>1, <2>2
<1> QED
  BY <1>1, <1>2, PTL DEF Spec

\* WakeupScheduled: whatever is sent, paused, confirmed, removed or paced anew, an
\* idle NIC looks again for a pair that only waits for its pace, or waits for an
\* acknowledgement or a resume that will make it look.
THEOREM NobodyForgotten == Spec => []WakeupScheduled
<1>1. NicInv => WakeupScheduled
  BY DEF NicInv, Scheduled, WakeupScheduled
<1> QED
  BY <1>1, NicInvHolds, PTL

\* SendsOnlyReady, if no pair stops beside others: the pair chosen is the pair that
\* sends, although finished pairs before it have left the group in between.
THEOREM ReadyAreSent ==
  ASSUME StopsAlone(Flows)
  PROVE  Spec => SendsOnlyReady
<1> DEFINE Ready ==
      /\ nic'.m_currentPkt # Beyond
      /\ \A f \in Pairs : nic'.qp[f].snd_nxt > nic.qp[f].snd_nxt =>
           /\ flow[f].m_pg \notin nic'.m_paused
           /\ nic.qp[f].since >= Gap[nic'.qp[f].m_rate]
           /\ flow[f].m_win # 0 => GetOnTheFly(nic', f) <= flow[f].m_win
<1>1. NicInv /\ [Next]_vars => [Ready]_vars
  <2> SUFFICES ASSUME NicInv, Next PROVE Ready
    OBVIOUS
  <2>1. ReadySent(nic, nic')
    BY NicSteps DEF Good
  <2> QED
    BY <2>1 DEF ReadySent
<1> QED
  BY <1>1, NicInvHolds, PTL DEF Spec, SendsOnlyReady

===============================================================================
