--------------------------- MODULE SwitchNodeProofs ---------------------------
(***************************************************************************)
(* Theorems about SwitchNode: its types, WorkConserving, PfcStreamFaithful *)
(* and PauseRespected, and that it implements SwitchBuffer.                *)
(*                                                                         *)
(* The calls of an event nest, so there is a lemma for each method, from   *)
(* the inside out: what SendPfc does to a good state, then Accept and      *)
(* SwitchNotifyDequeue, DequeueAndTransmit, SendToDev, and the events.     *)
(* Each says what becomes of the queues, of the streams of PFC frames, of  *)
(* the ports that are ready and of the MMU.                                *)
(***************************************************************************)
EXTENDS SwitchNode, SwitchMmuProofs, FiniteSetTheorems, WellFoundedInduction

-------------------------------------------------------------------------------
(* The MMU of Buffer is the MMU of the switch *)

\* The instance of SwitchBuffer has its own copy of every operator of SwitchMmu;
\* the copies agree with the originals.
LEMMA SameBasics ==
  /\ Buffer!LOSSLESS = LOSSLESS /\ Buffer!LOSSY = LOSSY
  /\ Buffer!PortQueue = PortQueue /\ Buffer!Classes = Classes
  /\ Buffer!DataPackets = DataPackets
  /\ Buffer!xoffTotal = xoffTotal
  /\ Buffer!totalIngressReserved = totalIngressReserved
  /\ \A p : Buffer!In(p) = In(p) /\ Buffer!Out(p) = Out(p)
  /\ \A a, b : /\ Buffer!Smaller(a, b) = Smaller(a, b)
               /\ Buffer!Larger(a, b) = Larger(a, b)
               /\ Buffer!Monus(a, b) = Monus(a, b)
<1>1. \A S : Buffer!Cardinality(S) = Cardinality(S)
  BY DEF Buffer!Cardinality, Cardinality
<1>2. /\ Buffer!xoffTotal = xoffTotal
      /\ Buffer!totalIngressReserved = totalIngressReserved
  BY <1>1 DEF Buffer!xoffTotal, xoffTotal, Buffer!totalIngressReserved, totalIngressReserved,
              Buffer!Total, Total, Buffer!Cells, Cells, Buffer!PortQueue, PortQueue
<1>3. /\ Buffer!LOSSLESS = LOSSLESS /\ Buffer!LOSSY = LOSSY
      /\ Buffer!PortQueue = PortQueue /\ Buffer!Classes = Classes
      /\ Buffer!DataPackets = DataPackets
      /\ \A p : Buffer!In(p) = In(p) /\ Buffer!Out(p) = Out(p)
  BY DEF Buffer!LOSSLESS, LOSSLESS, Buffer!LOSSY, LOSSY, Buffer!PortQueue, PortQueue,
         Buffer!Classes, Classes, Buffer!DataPackets, DataPackets,
         Buffer!In, In, Buffer!Out, Out
<1>4. \A a, b : /\ Buffer!Smaller(a, b) = Smaller(a, b)
                /\ Buffer!Larger(a, b) = Larger(a, b)
                /\ Buffer!Monus(a, b) = Monus(a, b)
  BY DEF Buffer!Smaller, Smaller, Buffer!Larger, Larger, Buffer!Monus, Monus
<1> QED
  BY <1>2, <1>3, <1>4

\* The thresholds.
LEMMA SameThresholds ==
  /\ \A m, i : GetIngressReservedUsed(m, i) = Buffer!GetIngressReservedUsed(m, i)
  /\ \A m, i, type, u :
       /\ Buffer!IngressThreshold(m, i, type, u) = IngressThreshold(m, i, type, u)
       /\ Buffer!EgressThreshold(m, i, type, u) = EgressThreshold(m, i, type, u)
  /\ \A m, i : /\ Buffer!setCongestedIngress(m, i) = setCongestedIngress(m, i)
               /\ Buffer!setCongestedEgress(m, i) = setCongestedEgress(m, i)
  /\ \A m, i, u : Buffer!ReverieLossyThreshold(m, i, u) = ReverieLossyThreshold(m, i, u)
  /\ \A m, i, u : Buffer!LosslessThreshold(m, i, u) = LosslessThreshold(m, i, u)
  /\ \A m, i : Buffer!LosslessOccupancy(m, i) = LosslessOccupancy(m, i)
<1>1. \A m, i : GetIngressReservedUsed(m, i) = Buffer!GetIngressReservedUsed(m, i)
  BY SameBasics DEF GetIngressReservedUsed, Buffer!GetIngressReservedUsed
<1>2. /\ \A pool, used, alpha, den :
           Buffer!ShareOf(pool, used, alpha, den) = ShareOf(pool, used, alpha, den)
      /\ \A alg, alpha, u : Buffer!Alpha(alg, alpha, u) = Alpha(alg, alpha, u)
      /\ \A m : Buffer!GetIngressSharedUsed(m) = GetIngressSharedUsed(m)
  BY SameBasics DEF Buffer!ShareOf, ShareOf, Buffer!Alpha, Alpha,
                    Buffer!GetIngressSharedUsed, GetIngressSharedUsed
<1>3. \A m, i, type, u :
        /\ Buffer!IngressThreshold(m, i, type, u) = IngressThreshold(m, i, type, u)
        /\ Buffer!EgressThreshold(m, i, type, u) = EgressThreshold(m, i, type, u)
  BY <1>2, SameBasics DEF Buffer!IngressThreshold, IngressThreshold,
                          Buffer!EgressThreshold, EgressThreshold
<1>4. \A m, i : /\ Buffer!setCongestedIngress(m, i) = setCongestedIngress(m, i)
                /\ Buffer!setCongestedEgress(m, i) = setCongestedEgress(m, i)
  BY DEF Buffer!setCongestedIngress, setCongestedIngress, Buffer!setCongestedEgress,
         setCongestedEgress, Buffer!Saturation, Saturation, Buffer!Smaller, Smaller
<1>5. \A m, a, n : Buffer!ReverieShare(m, a, n) = ReverieShare(m, a, n)
  BY <1>2, SameBasics DEF Buffer!ReverieShare, ReverieShare
<1>6. /\ \A m, i, u : Buffer!ReverieLossyThreshold(m, i, u) = ReverieLossyThreshold(m, i, u)
      /\ \A m, i : Buffer!ReverieLosslessThreshold(m, i) = ReverieLosslessThreshold(m, i)
  BY <1>4, <1>5 DEF Buffer!ReverieLossyThreshold, ReverieLossyThreshold,
                    Buffer!ReverieLosslessThreshold, ReverieLosslessThreshold
<1>7. /\ \A m, i, u : Buffer!LosslessThreshold(m, i, u) = LosslessThreshold(m, i, u)
      /\ \A m, i : Buffer!LosslessOccupancy(m, i) = LosslessOccupancy(m, i)
  BY <1>3, <1>6, SameBasics DEF Buffer!LosslessThreshold, LosslessThreshold,
                                Buffer!LosslessOccupancy, LosslessOccupancy
<1> QED
  BY <1>1, <1>3, <1>4, <1>6, <1>7

\* Admission.
LEMMA SameAdmission ==
  \A m, p : /\ Buffer!Admits(m, p) <=> Admits(m, p)
            /\ Buffer!AfterChecks(m, p) = AfterChecks(m, p)
<1>1. \A m, p : Buffer!CheckIngressAdmission(m, p) <=> CheckIngressAdmission(m, p)
  BY SameBasics, SameThresholds
     DEF Buffer!CheckIngressAdmission, CheckIngressAdmission,
         Buffer!CheckIngressLossless, CheckIngressLossless,
         Buffer!CheckIngressLossySonic, CheckIngressLossySonic
<1>2. \A m, p : Buffer!CheckEgressAdmission(m, p) <=> CheckEgressAdmission(m, p)
  BY SameBasics, SameThresholds
     DEF Buffer!CheckEgressAdmission, CheckEgressAdmission,
         Buffer!CheckEgressSonic, CheckEgressSonic,
         Buffer!CheckEgressLossyReverie, CheckEgressLossyReverie
<1>3. \A m, p : Buffer!AfterChecks(m, p) = AfterChecks(m, p)
  BY <1>1, SameBasics, SameThresholds DEF Buffer!AfterChecks, AfterChecks
<1> QED
  BY <1>1, <1>2, <1>3 DEF Buffer!Admits, Admits

\* Accounting.
LEMMA SameAdmitted == \A m, p : Buffer!Admitted(m, p) = Admitted(m, p)
<1>1. \A m, p : Buffer!CountIngress(m, p) = CountIngress(m, p)
  BY DEF Buffer!CountIngress, CountIngress, Buffer!GetIngressReservedUsed, GetIngressReservedUsed,
         Buffer!setCongestedIngress, setCongestedIngress, Buffer!Saturation, Saturation,
         Buffer!In, In, Buffer!Smaller, Smaller, Buffer!Monus, Monus, Buffer!LOSSLESS, LOSSLESS
<1>2. \A m, p : Buffer!EntersHeadroom(m, p) <=> EntersHeadroom(m, p)
  BY SameBasics, SameThresholds DEF Buffer!EntersHeadroom, EntersHeadroom
<1>3. \A m, p : Buffer!UpdateIngressAdmission(m, p) = UpdateIngressAdmission(m, p)
  BY <1>1, <1>2, SameBasics DEF Buffer!UpdateIngressAdmission, UpdateIngressAdmission
<1>4. \A m, p : Buffer!UpdateEgressAdmission(m, p) = UpdateEgressAdmission(m, p)
  BY SameBasics DEF Buffer!UpdateEgressAdmission, UpdateEgressAdmission
<1>5. \A m, i : Buffer!PauseIfNeeded(m, i) = PauseIfNeeded(m, i)
  BY DEF Buffer!PauseIfNeeded, PauseIfNeeded, Buffer!CheckShouldPause, CheckShouldPause
<1> QED
  BY <1>3, <1>4, <1>5, SameBasics, SameAdmission DEF Buffer!Admitted, Admitted

LEMMA SameReleased == \A m, p : Buffer!Released(m, p) = Released(m, p)
<1>1. \A lpf, bytes : Buffer!Lpf(lpf, bytes) = Lpf(lpf, bytes)
  BY SameBasics DEF Buffer!Lpf, Lpf
<1>2. \A m, p : Buffer!UncountIngress(m, p) = UncountIngress(m, p)
  BY <1>1, SameBasics, SameThresholds DEF Buffer!UncountIngress, UncountIngress
<1>3. \A m, p : Buffer!LeaveHeadroom(m, p) = LeaveHeadroom(m, p)
  BY SameBasics DEF Buffer!LeaveHeadroom, LeaveHeadroom
<1>4. \A m, p : Buffer!RemoveFromIngressAdmission(m, p) = RemoveFromIngressAdmission(m, p)
  BY <1>2, <1>3, SameBasics DEF Buffer!RemoveFromIngressAdmission, RemoveFromIngressAdmission
<1>5. \A m, p : Buffer!RemoveFromEgressAdmission(m, p) = RemoveFromEgressAdmission(m, p)
  BY DEF Buffer!RemoveFromEgressAdmission, RemoveFromEgressAdmission, Buffer!Lpf, Lpf,
         Buffer!Out, Out, Buffer!Smaller, Smaller, Buffer!Monus, Monus, Buffer!LOSSLESS, LOSSLESS
<1>6. /\ \A m, i : Buffer!BelowXon(m, i) <=> BelowXon(m, i)
      /\ \A m, i : Buffer!CheckShouldResume(m, i) <=> CheckShouldResume(m, i)
  BY SameThresholds DEF Buffer!BelowXon, BelowXon, Buffer!CheckShouldResume, CheckShouldResume
<1>7. \A m, i : Buffer!ResumeIfPossible(m, i) = ResumeIfPossible(m, i)
  BY <1>6, SameThresholds DEF Buffer!ResumeIfPossible, ResumeIfPossible
<1> QED
  BY <1>4, <1>5, <1>7, SameBasics DEF Buffer!Released, Released

-------------------------------------------------------------------------------
(* What the MMU does to the pause state *)

\* All that is needed of a counter record here.
PauseType(m) == "paused" \in DOMAIN m /\ m.paused \in [PortQueue -> BOOLEAN]

\* The checks leave the pause state alone.
LEMMA ChecksPause ==
  ASSUME NEW m, PauseType(m), NEW p
  PROVE  PauseType(AfterChecks(m, p)) /\ AfterChecks(m, p).paused = m.paused
<1>1. \A i : /\ PauseType(setCongestedIngress(m, i))
             /\ setCongestedIngress(m, i).paused = m.paused
             /\ PauseType(setCongestedEgress(m, i))
             /\ setCongestedEgress(m, i).paused = m.paused
  BY DEF PauseType, setCongestedIngress, setCongestedEgress
<1> QED
  BY <1>1 DEF AfterChecks

\* Counting does neither.
LEMMA CountingPause ==
  ASSUME NEW m, PauseType(m), NEW p
  PROVE  LET a == UpdateEgressAdmission(UpdateIngressAdmission(m, p), p)
             r == RemoveFromEgressAdmission(RemoveFromIngressAdmission(m, p), p)
         IN  /\ PauseType(a) /\ a.paused = m.paused
             /\ PauseType(r) /\ r.paused = m.paused
<1> DEFINE Same(n) == PauseType(n) /\ n.paused = m.paused
<1>1. Same(CountIngress(m, p))
  BY DEF CountIngress, setCongestedIngress, PauseType
<1>2. Same(UpdateIngressAdmission(m, p))
  BY <1>1 DEF UpdateIngressAdmission, PauseType
<1>3. Same(UpdateEgressAdmission(UpdateIngressAdmission(m, p), p))
  BY <1>2 DEF UpdateEgressAdmission, PauseType
<1>4. Same(UncountIngress(m, p))
  BY DEF UncountIngress, PauseType
<1>5. Same(RemoveFromIngressAdmission(m, p))
  BY <1>4 DEF RemoveFromIngressAdmission, LeaveHeadroom, PauseType
<1>6. Same(RemoveFromEgressAdmission(RemoveFromIngressAdmission(m, p), p))
  BY <1>5 DEF RemoveFromEgressAdmission, PauseType
<1> QED
  BY <1>3, <1>6

\* Admission may pause the packet's own queue, and nothing else.
LEMMA AdmittedPause ==
  ASSUME NEW m, PauseType(m), NEW p, In(p) \in PortQueue
  PROVE  /\ PauseType(Admitted(m, p))
         /\ m.paused[In(p)] => Admitted(m, p).paused[In(p)]
         /\ \A i \in PortQueue \ {In(p)} : Admitted(m, p).paused[i] = m.paused[i]
<1> DEFINE c == AfterChecks(m, p)
           n == UpdateEgressAdmission(UpdateIngressAdmission(c, p), p)
<1>1. PauseType(c) /\ c.paused = m.paused
  BY ChecksPause
<1>2. PauseType(n) /\ n.paused = m.paused
  <2> HIDE DEF c
  <2> QED
    BY <1>1, CountingPause
<1>3. Admitted(m, p) = PauseIfNeeded(n, In(p))
  BY DEF Admitted
<1> HIDE DEF n
<1>4. Admitted(m, p) = [n EXCEPT !.paused[In(p)] = @ \/ CheckShouldPause(n, In(p))]
  BY <1>3 DEF PauseIfNeeded
<1>5. PauseType(Admitted(m, p))
  BY <1>2, <1>4 DEF PauseType
<1>6. Admitted(m, p).paused[In(p)] = (m.paused[In(p)] \/ CheckShouldPause(n, In(p)))
  BY <1>2, <1>4 DEF PauseType
<1>7. \A i \in PortQueue \ {In(p)} : Admitted(m, p).paused[i] = m.paused[i]
  BY <1>2, <1>4 DEF PauseType
<1> QED
  BY <1>5, <1>6, <1>7, Zenon

\* A departure may end the pause of the packet's own queue, and nothing else.
LEMMA ReleasedPause ==
  ASSUME NEW m, PauseType(m), NEW p, In(p) \in PortQueue
  PROVE  /\ PauseType(Released(m, p))
         /\ Released(m, p).paused[In(p)] => m.paused[In(p)]
         /\ \A i \in PortQueue \ {In(p)} : Released(m, p).paused[i] = m.paused[i]
<1> DEFINE n == RemoveFromEgressAdmission(RemoveFromIngressAdmission(m, p), p)
           ends == CheckShouldResume(n, In(p))
<1>1. PauseType(n) /\ n.paused = m.paused
  BY CountingPause
<1>2. Released(m, p) = ResumeIfPossible(n, In(p))
  BY DEF Released
<1> HIDE DEF n
<1>3. PICK seen : /\ PauseType(seen) /\ seen.paused = m.paused
                  /\ Released(m, p) = [seen EXCEPT !.paused[In(p)] = @ /\ ~ends]
  <2>1. /\ PauseType(setCongestedIngress(n, In(p)))
        /\ setCongestedIngress(n, In(p)).paused = m.paused
    BY <1>1 DEF PauseType, setCongestedIngress
  <2> QED
    BY <1>1, <1>2, <2>1 DEF ResumeIfPossible
<1> HIDE DEF ends
<1>5. PauseType(Released(m, p))
  BY <1>3 DEF PauseType
<1>6. Released(m, p).paused[In(p)] = (m.paused[In(p)] /\ ~ends)
  BY <1>3 DEF PauseType
<1>7. \A i \in PortQueue \ {In(p)} : Released(m, p).paused[i] = m.paused[i]
  BY <1>3 DEF PauseType
<1> QED
  BY <1>5, <1>6, <1>7, Zenon

-------------------------------------------------------------------------------
(* The PFC frames under way *)

\* f is a PFC frame for priority q.
IsPfc(f, q) == f \in PfcFrames /\ f.pfcQueue = q

\* Where the frames of R are, if it is Q with x before it.
Shifted(R, Q, x, q) ==
  /\ PfcAt(Q, q) \subseteq Nat \ {0} /\ PfcAt(R, q) \subseteq Nat \ {0}
  /\ 1 \in PfcAt(R, q) <=> IsPfc(x, q)
  /\ \A k \in Nat \ {0} : /\ k + 1 \in PfcAt(R, q) <=> k \in PfcAt(Q, q)
                          /\ k \in PfcAt(Q, q) => R[k + 1] = Q[k]

\* A frame that comes before the others moves them one place.
LEMMA PrependAt ==
  ASSUME NEW S, NEW Q \in Seq(S), NEW x \in S, NEW q
  PROVE  Shifted(<<x>> \o Q, Q, x, q)
<1> DEFINE R == <<x>> \o Q
<1>1. /\ Len(Q) \in Nat /\ DOMAIN Q = 1 .. Len(Q)
      /\ DOMAIN R = 1 .. Len(Q) + 1
      /\ R[1] = x
      /\ \A k \in 1 .. Len(Q) : R[k + 1] = Q[k]
  OBVIOUS
<1> HIDE DEF R
<1>2. PfcAt(Q, q) \subseteq Nat \ {0} /\ PfcAt(R, q) \subseteq Nat \ {0}
  BY <1>1 DEF PfcAt
<1>3. 1 \in PfcAt(R, q) <=> IsPfc(x, q)
  BY <1>1 DEF PfcAt, IsPfc
<1>4. ASSUME NEW k \in Nat \ {0}
      PROVE  /\ k + 1 \in PfcAt(R, q) <=> k \in PfcAt(Q, q)
             /\ k \in PfcAt(Q, q) => R[k + 1] = Q[k]
  <2>1. k + 1 \in DOMAIN R <=> k \in DOMAIN Q
    BY <1>1
  <2>2. k \in DOMAIN Q => R[k + 1] = Q[k]
    BY <1>1
  <2> QED
    BY <2>1, <2>2 DEF PfcAt
<1> QED
  BY <1>2, <1>3, <1>4 DEF R, Shifted

\* The oldest frame may leave.
LEMMA FaithfulTail ==
  ASSUME NEW S, NEW Q \in Seq(S), NEW x \in S, NEW q, NEW b,
         Faithful(<<x>> \o Q, q, b)
  PROVE  Faithful(Q, q, b)
<1> DEFINE R == <<x>> \o Q
           At == PfcAt(Q, q)
           AtR == PfcAt(R, q)
<1>a. Shifted(R, Q, x, q)
  BY PrependAt
<1>1. /\ At \subseteq Nat \ {0} /\ AtR \subseteq Nat \ {0}
      /\ \A k \in Nat \ {0} : /\ k + 1 \in AtR <=> k \in At
                              /\ k \in At => R[k + 1] = Q[k]
  <2> HIDE DEF R
  <2> QED
    BY <1>a DEF Shifted
<1>2. \A k \in AtR :
        /\ \A l \in AtR : k < l /\ (\A n \in AtR : n <= k \/ l <= n)
                            => R[k].pause # R[l].pause
        /\ (\A l \in AtR : l <= k) => R[k].pause = b
  BY DEF Faithful
<1> HIDE DEF R, At, AtR
<1>3. \A n \in AtR : n = 1 \/ (n - 1 \in At /\ n - 1 \in Nat \ {0})
  <2> TAKE n \in AtR
  <2>1. CASE n # 1
    <3>1. n - 1 \in Nat \ {0} /\ n = (n - 1) + 1
      BY <1>1, <2>1
    <3> QED
      BY <1>1, <3>1
  <2> QED
    BY <2>1
<1>4. ASSUME NEW k \in At, NEW l \in At, k < l, \A n \in At : n <= k \/ l <= n
      PROVE  Q[k].pause # Q[l].pause
  <2>1. /\ k + 1 \in AtR /\ l + 1 \in AtR /\ k + 1 < l + 1
        /\ R[k + 1] = Q[k] /\ R[l + 1] = Q[l]
    <3>1. k \in Nat \ {0} /\ l \in Nat \ {0} /\ k + 1 < l + 1
      BY <1>1, <1>4
    <3> QED
      BY <1>1, <3>1
  <2>2. ASSUME NEW n \in AtR
        PROVE  n <= k + 1 \/ l + 1 <= n
    <3>1. k \in Nat \ {0} /\ l \in Nat \ {0} /\ n \in Nat \ {0}
      BY <1>1
    <3>2. CASE n = 1
      BY <3>1, <3>2
    <3>3. CASE n - 1 \in At
      <4>1. n - 1 <= k \/ l <= n - 1
        BY <1>4, <3>3
      <4> QED
        BY <3>1, <4>1
    <3> QED
      BY <1>3, <3>2, <3>3
  <2> QED
    BY <1>2, <2>1, <2>2
<1>5. ASSUME NEW k \in At, \A l \in At : l <= k
      PROVE  Q[k].pause = b
  <2>1. k + 1 \in AtR /\ R[k + 1] = Q[k]
    BY <1>1
  <2>2. \A l \in AtR : l <= k + 1
    BY <1>1, <1>3, <1>5
  <2> QED
    BY <1>2, <2>1, <2>2
<1> QED
  BY <1>4, <1>5 DEF Faithful, At

\* A frame that is none for priority q may come before the others.
LEMMA FaithfulPrepend ==
  ASSUME NEW S, NEW Q \in Seq(S), NEW x \in S, NEW q, NEW b,
         Faithful(Q, q, b), ~ IsPfc(x, q)
  PROVE  Faithful(<<x>> \o Q, q, b)
<1> DEFINE R == <<x>> \o Q
           At == PfcAt(Q, q)
           AtR == PfcAt(R, q)
<1>1. /\ At \subseteq Nat \ {0} /\ AtR \subseteq Nat \ {0} /\ 1 \notin AtR
      /\ \A k \in Nat \ {0} : /\ k + 1 \in AtR <=> k \in At
                              /\ k \in At => R[k + 1] = Q[k]
  <2>1. Shifted(R, Q, x, q)
    BY PrependAt
  <2> HIDE DEF R
  <2> QED
    BY <2>1 DEF Shifted
<1>2. \A k \in At :
        /\ \A l \in At : k < l /\ (\A n \in At : n <= k \/ l <= n)
                            => Q[k].pause # Q[l].pause
        /\ (\A l \in At : l <= k) => Q[k].pause = b
  BY DEF Faithful
<1> HIDE DEF R, At, AtR
<1>3. \A n \in AtR : n - 1 \in At /\ n - 1 \in Nat \ {0} /\ n = (n - 1) + 1 /\ R[n] = Q[n - 1]
  <2> TAKE n \in AtR
  <2>1. n - 1 \in Nat \ {0} /\ n = (n - 1) + 1
    BY <1>1
  <2> QED
    BY <1>1, <2>1
<1>4. ASSUME NEW k \in AtR, NEW l \in AtR, k < l, \A n \in AtR : n <= k \/ l <= n
      PROVE  R[k].pause # R[l].pause
  <2>1. k - 1 \in At /\ l - 1 \in At /\ k - 1 < l - 1
    BY <1>1, <1>3, <1>4
  <2>2. \A n \in At : n <= k - 1 \/ l - 1 <= n
    BY <1>1, <1>4
  <2> QED
    BY <1>2, <1>3, <2>1, <2>2
<1>5. ASSUME NEW k \in AtR, \A l \in AtR : l <= k
      PROVE  R[k].pause = b
  <2>1. k - 1 \in At
    BY <1>3
  <2>2. \A l \in At : l <= k - 1
    BY <1>1, <1>5
  <2> QED
    BY <1>2, <1>3, <2>1, <2>2
<1> QED
  BY <1>4, <1>5 DEF Faithful, AtR, R

\* Where the frames of R are, if it is Q with f after it.
Extended(R, Q, f, q) ==
  /\ Len(Q) \in Nat
  /\ PfcAt(Q, q) \subseteq 1 .. Len(Q)
  /\ PfcAt(R, q) = PfcAt(Q, q) \cup (IF IsPfc(f, q) THEN {Len(Q) + 1} ELSE {})
  /\ R[Len(Q) + 1] = f
  /\ \A k \in PfcAt(Q, q) : R[k] = Q[k]

\* A frame that comes after the others leaves them where they are.
LEMMA AppendAt ==
  ASSUME NEW S, NEW Q \in Seq(S), NEW f \in S, NEW q
  PROVE  Extended(Append(Q, f), Q, f, q)
<1> DEFINE R == Append(Q, f)
<1>1. /\ Len(Q) \in Nat /\ DOMAIN Q = 1 .. Len(Q)
      /\ DOMAIN R = 1 .. Len(Q) + 1
      /\ R[Len(Q) + 1] = f
      /\ \A k \in 1 .. Len(Q) : R[k] = Q[k]
  OBVIOUS
<1> HIDE DEF R
<1>2. PfcAt(Q, q) \subseteq 1 .. Len(Q)
  BY <1>1 DEF PfcAt
<1>3. PfcAt(R, q) = PfcAt(Q, q) \cup (IF IsPfc(f, q) THEN {Len(Q) + 1} ELSE {})
  <2>1. \A k : k \in DOMAIN R <=> k \in DOMAIN Q \/ k = Len(Q) + 1
    BY <1>1
  <2>2. Len(Q) + 1 \notin DOMAIN Q
    BY <1>1
  <2>3. \A k \in DOMAIN Q : R[k] = Q[k]
    BY <1>1
  <2> QED
    BY <1>1, <2>1, <2>2, <2>3 DEF PfcAt, IsPfc
<1> QED
  BY <1>1, <1>2, <1>3 DEF R, Extended

\* A frame that is none for priority q may be added.
LEMMA FaithfulAppendOther ==
  ASSUME NEW S, NEW Q \in Seq(S), NEW f \in S, NEW q, NEW b,
         Faithful(Q, q, b), ~ IsPfc(f, q)
  PROVE  Faithful(Append(Q, f), q, b)
<1> DEFINE R == Append(Q, f)
<1>1. /\ PfcAt(R, q) = PfcAt(Q, q) \cup (IF IsPfc(f, q) THEN {Len(Q) + 1} ELSE {})
      /\ \A k \in PfcAt(Q, q) : R[k] = Q[k]
  <2>1. Extended(R, Q, f, q)
    BY AppendAt
  <2> HIDE DEF R
  <2> QED
    BY <2>1 DEF Extended
<1>a. PfcAt(R, q) = PfcAt(Q, q)
  BY <1>1
<1> HIDE DEF R
<1>2. Faithful(R, q, b)
  BY <1>1, <1>a DEF Faithful
<1> QED
  BY <1>2 DEF R

\* A frame for q that says the opposite of the last one may be added.
LEMMA FaithfulAppend ==
  ASSUME NEW S, NEW Q \in Seq(S), NEW f \in S, NEW q, NEW b,
         Faithful(Q, q, b), IsPfc(f, q), f.pause # b
  PROVE  Faithful(Append(Q, f), q, f.pause)
<1> DEFINE R == Append(Q, f)
           At == PfcAt(Q, q)
           last == Len(Q) + 1
<1>1. /\ last \in Nat /\ At \subseteq 1 .. last - 1
      /\ PfcAt(R, q) = At \cup {last}
      /\ R[last] = f /\ \A k \in At : R[k] = Q[k]
  <2>1. Extended(R, Q, f, q)
    BY AppendAt
  <2> HIDE DEF R
  <2> QED
    BY <2>1 DEF Extended
<1>2. \A k \in At :
        /\ \A l \in At : k < l /\ (\A n \in At : n <= k \/ l <= n)
                            => Q[k].pause # Q[l].pause
        /\ (\A l \in At : l <= k) => Q[k].pause = b
  BY DEF Faithful
<1> HIDE DEF R, At, last
<1>3. ASSUME NEW k \in At \cup {last}, NEW l \in At \cup {last}, k < l,
             \A n \in At \cup {last} : n <= k \/ l <= n
      PROVE  R[k].pause # R[l].pause
  <2>1. k \in At
    BY <1>1, <1>3
  <2>2. CASE l = last
    <3>1. \A n \in At : n <= k
      BY <1>1, <1>3, <2>2
    <3> QED
      BY <1>1, <1>2, <2>1, <2>2, <3>1
  <2>3. CASE l \in At
    BY <1>1, <1>2, <1>3, <2>1, <2>3
  <2> QED
    BY <2>2, <2>3
<1>4. ASSUME NEW k \in At \cup {last}, \A l \in At \cup {last} : l <= k
      PROVE  R[k].pause = f.pause
  <2>1. k = last
    BY <1>1, <1>4
  <2> QED
    BY <1>1, <2>1
<1>5. Faithful(R, q, f.pause)
  BY <1>1, <1>3, <1>4 DEF Faithful
<1> QED
  BY <1>5 DEF R

-------------------------------------------------------------------------------
(* The state of a node *)

NodeFields == {"mmu", "m_queue", "m_rrlast", "m_currentPkt", "m_paused", "m_linkUp"}

NodeType(s) ==
  /\ DOMAIN s = NodeFields
  /\ PauseType(s.mmu)
  /\ s.m_queue \in [Ports -> [Queues -> Seq(Frames)]]
  /\ s.m_rrlast \in [Ports -> Queues]
  /\ s.m_currentPkt \in [Ports -> Frames \cup {NoFrame}]
  /\ s.m_paused \in [Ports -> [Queues -> BOOLEAN]]
  /\ s.m_linkUp \in [Ports -> BOOLEAN]

\* Queue 0 has control frames; the others have the data packets that leave
\* through them, none of them twice.
GoodQueue(Q, d, q) ==
  IF q = 0 THEN \A k \in DOMAIN Q : Q[k] \notin DataPackets
  ELSE /\ \A k \in DOMAIN Q : Q[k] \in DataPackets /\ Out(Q[k]) = <<d, q>>
       /\ \A k, l \in DOMAIN Q : Q[k] = Q[l] => k = l

GoodQueues(s) == \A d \in Ports, q \in Queues : GoodQueue(s.m_queue[d][q], d, q)

Good(s) == NodeType(s) /\ GoodQueues(s)

\* WorkConserving, but for the ports in D, and PfcStreamFaithful, of a state.
Conserving(s, D) ==
  \A d \in Ports \ D : Ready(s, d) => \A q \in Queues : ~MaySend(s, d, q)

Streams(s, paused) ==
  \A d \in Ports, q \in Queues :
    s.m_linkUp[d] => Faithful(Stream(s, d), q, paused[<<d, q>>])

HeldBy(s) == DataPackets \cap UNION {Queued(s, d) : d \in Ports}

\* Packets and PFC frames.
LEMMA FrameFacts ==
  /\ 0 \in Queues
  /\ NoFrame \notin Frames
  /\ \A p \in Packets : /\ p \in Frames /\ p \notin PfcFrames
                        /\ p.inDev \in Ports /\ p.outDev \in Ports /\ p.qIndex \in Queues
                        /\ p.inDev # p.outDev
                        /\ In(p) \in PortQueue /\ Out(p) \in PortQueue
  /\ \A q \in Queues, b \in BOOLEAN : /\ Pfc(q, b) \in PfcFrames
                                      /\ Pfc(q, b) \in Frames \ DataPackets
                                      /\ Pfc(q, b).pause = b /\ Pfc(q, b).pfcQueue = q
  /\ \A q \in Queues, d \in Ports : <<d, q>> \in PortQueue
<1>1. 0 \in Queues
  BY MmuConfiguration
<1>2. NoFrame \notin Frames
  BY NodeConfiguration DEF Frames
<1>3. ASSUME NEW p \in Packets
      PROVE  /\ p \in Frames /\ p \notin PfcFrames
             /\ p.inDev \in Ports /\ p.outDev \in Ports /\ p.qIndex \in Queues
             /\ p.inDev # p.outDev
             /\ In(p) \in PortQueue /\ Out(p) \in PortQueue
  <2>1. p.inDev \in Ports /\ p.outDev \in Ports /\ p.qIndex \in Queues
    BY MmuConfiguration DEF PacketType
  <2>2. p.inDev # p.outDev /\ p \notin PfcFrames
    BY NodeConfiguration
  <2> QED
    BY <2>1, <2>2 DEF Frames, In, Out, PortQueue
<1>4. \A q \in Queues, b \in BOOLEAN : /\ Pfc(q, b) \in PfcFrames
                                       /\ Pfc(q, b).pause = b /\ Pfc(q, b).pfcQueue = q
  BY DEF Pfc, PfcFrames
<1>5. \A q \in Queues, b \in BOOLEAN : Pfc(q, b) \in Frames \ DataPackets
  BY <1>3, <1>4 DEF Frames, DataPackets
<1>6. \A q \in Queues, d \in Ports : <<d, q>> \in PortQueue
  BY DEF PortQueue
<1> QED
  BY <1>1, <1>2, <1>3, <1>4, <1>5, <1>6

\* What Enqueue changes.
Enqueued(s, r, d, q, f) ==
  /\ NodeType(r)
  /\ r.mmu = s.mmu /\ r.m_rrlast = s.m_rrlast /\ r.m_currentPkt = s.m_currentPkt
  /\ r.m_paused = s.m_paused /\ r.m_linkUp = s.m_linkUp
  /\ r.m_queue[d][q] = Append(s.m_queue[d][q], f)
  /\ \A e \in Ports \ {d} : r.m_queue[e] = s.m_queue[e]
  /\ \A e \in Ports, g \in Queues : e # d \/ g # q => r.m_queue[e][g] = s.m_queue[e][g]

\* Enqueue appends to one queue.
LEMMA EnqueueFields ==
  ASSUME NEW s, NodeType(s), NEW d \in Ports, NEW q \in Queues, NEW f \in Frames
  PROVE  Enqueued(s, Enqueue(s, d, q, f), d, q, f)
<1> DEFINE r == Enqueue(s, d, q, f)
           Q == Append(s.m_queue[d][q], f)
<1>1. Q \in Seq(Frames)
  BY DEF NodeType
<1> HIDE DEF Q
<1>2. /\ r.mmu = s.mmu /\ r.m_rrlast = s.m_rrlast /\ r.m_currentPkt = s.m_currentPkt
      /\ r.m_paused = s.m_paused /\ r.m_linkUp = s.m_linkUp
      /\ DOMAIN r = NodeFields
      /\ r.m_queue = [s.m_queue EXCEPT ![d] = [@ EXCEPT ![q] = Q]]
  BY DEF NodeType, NodeFields, Enqueue, Q
<1> HIDE DEF r
<1>3. r.m_queue \in [Ports -> [Queues -> Seq(Frames)]]
  BY <1>1, <1>2 DEF NodeType
<1>4. NodeType(r)
  BY <1>2, <1>3 DEF NodeType
<1>5. /\ r.m_queue[d][q] = Q
      /\ \A e \in Ports \ {d} : r.m_queue[e] = s.m_queue[e]
      /\ \A e \in Ports, g \in Queues : e # d \/ g # q => r.m_queue[e][g] = s.m_queue[e][g]
  BY <1>2 DEF NodeType
<1> QED
  BY <1>2, <1>4, <1>5 DEF Enqueued, r, Q

\* What TransmitFrom changes.
Taken(s, r, d, q) ==
  /\ NodeType(r)
  /\ r.mmu = s.mmu /\ r.m_paused = s.m_paused /\ r.m_linkUp = s.m_linkUp
  /\ r.m_currentPkt[d] = Head(s.m_queue[d][q])
  /\ \A e \in Ports \ {d} : r.m_currentPkt[e] = s.m_currentPkt[e]
  /\ r.m_queue[d][q] = Tail(s.m_queue[d][q])
  /\ \A e \in Ports \ {d} : r.m_queue[e] = s.m_queue[e]
  /\ \A e \in Ports, g \in Queues : e # d \/ g # q => r.m_queue[e][g] = s.m_queue[e][g]

\* TransmitFrom takes the head of one queue.
LEMMA TransmitFields ==
  ASSUME NEW s, NodeType(s), NEW d \in Ports, NEW q \in Queues, s.m_queue[d][q] # <<>>
  PROVE  /\ Taken(s, TransmitFrom(s, d, q), d, q)
         /\ Head(s.m_queue[d][q]) \in Frames
<1> DEFINE r == TransmitFrom(s, d, q)
           Q == Tail(s.m_queue[d][q])
           f == Head(s.m_queue[d][q])
<1>1. Q \in Seq(Frames) /\ f \in Frames
  <2>1. s.m_queue[d][q] \in Seq(Frames)
    BY DEF NodeType
  <2> QED
    BY <2>1
<1> HIDE DEF Q, f
<1>2. /\ r.mmu = s.mmu /\ r.m_paused = s.m_paused /\ r.m_linkUp = s.m_linkUp
      /\ DOMAIN r = NodeFields
      /\ r.m_queue = [s.m_queue EXCEPT ![d] = [@ EXCEPT ![q] = Q]]
      /\ r.m_currentPkt = [s.m_currentPkt EXCEPT ![d] = f]
      /\ r.m_rrlast = [s.m_rrlast EXCEPT ![d] = IF q = 0 THEN @ ELSE q]
  BY DEF NodeType, NodeFields, TransmitFrom, Q, f
<1> HIDE DEF r
<1>3. /\ r.m_queue \in [Ports -> [Queues -> Seq(Frames)]]
      /\ r.m_currentPkt \in [Ports -> Frames \cup {NoFrame}]
      /\ r.m_rrlast \in [Ports -> Queues]
  BY <1>1, <1>2 DEF NodeType
<1>4. NodeType(r)
  BY <1>2, <1>3 DEF NodeType
<1>5. /\ r.m_queue[d][q] = Q /\ r.m_currentPkt[d] = f
      /\ \A e \in Ports \ {d} : r.m_queue[e] = s.m_queue[e]
      /\ \A e \in Ports \ {d} : r.m_currentPkt[e] = s.m_currentPkt[e]
      /\ \A e \in Ports, g \in Queues : e # d \/ g # q => r.m_queue[e][g] = s.m_queue[e][g]
  BY <1>2 DEF NodeType
<1> QED
  BY <1>1, <1>2, <1>4, <1>5 DEF Taken, r, Q, f

-------------------------------------------------------------------------------
(* Queues *)

\* A packet that is held waits in the queue it leaves through.
LEMMA HeldMember ==
  ASSUME NEW s, Good(s), NEW p \in DataPackets
  PROVE  LET Q == s.m_queue[p.outDev][p.qIndex]
         IN  p \in HeldBy(s) <=> \E k \in DOMAIN Q : Q[k] = p
<1> DEFINE Q == s.m_queue[p.outDev][p.qIndex]
<1>1. p.outDev \in Ports /\ p.qIndex \in Queues /\ Out(p) = <<p.outDev, p.qIndex>>
  BY FrameFacts DEF DataPackets, Out
<1>2. ASSUME p \in HeldBy(s)
      PROVE  \E k \in DOMAIN Q : Q[k] = p
  <2>1. PICK d \in Ports, q \in Queues : p \in ToSet(s.m_queue[d][q])
    BY <1>2 DEF HeldBy, Queued
  <2>2. PICK k \in DOMAIN s.m_queue[d][q] : s.m_queue[d][q][k] = p
    BY <2>1 DEF ToSet
  <2>3. GoodQueue(s.m_queue[d][q], d, q)
    BY DEF Good, GoodQueues
  <2>4. Out(p) = <<d, q>>
    BY <2>2, <2>3 DEF GoodQueue
  <2> QED
    BY <1>1, <2>2, <2>4
<1>3. ASSUME NEW k \in DOMAIN Q, Q[k] = p
      PROVE  p \in HeldBy(s)
  <2>1. p \in ToSet(Q)
    BY <1>3 DEF ToSet
  <2>2. p \in Queued(s, p.outDev)
    BY <1>1, <2>1 DEF Queued
  <2> QED
    BY <1>1, <2>2 DEF HeldBy
<1> QED
  BY <1>2, <1>3

\* What is held depends on the data queues only.
LEMMA HeldSame ==
  ASSUME NEW s, NEW r, Good(s), Good(r),
         \A d \in Ports, q \in Queues \ {0} : r.m_queue[d][q] = s.m_queue[d][q]
  PROVE  HeldBy(r) = HeldBy(s)
<1>1. ASSUME NEW p \in DataPackets
      PROVE  p \in HeldBy(r) <=> p \in HeldBy(s)
  <2>1. p.outDev \in Ports /\ p.qIndex \in Queues \ {0}
    BY FrameFacts DEF DataPackets
  <2>2. r.m_queue[p.outDev][p.qIndex] = s.m_queue[p.outDev][p.qIndex]
    BY <2>1
  <2> DEFINE There(Q) == \E k \in DOMAIN Q : Q[k] = p
  <2>3. p \in HeldBy(r) <=> There(r.m_queue[p.outDev][p.qIndex])
    BY HeldMember
  <2>4. p \in HeldBy(s) <=> There(s.m_queue[p.outDev][p.qIndex])
    BY HeldMember
  <2> HIDE DEF There
  <2> QED
    BY <2>2, <2>3, <2>4
<1>2. HeldBy(r) \subseteq DataPackets /\ HeldBy(s) \subseteq DataPackets
  BY DEF HeldBy
<1> QED
  BY <1>1, <1>2

\* A control frame may join queue 0.
LEMMA EnqueueControl ==
  ASSUME NEW s, NEW r, Good(s), NEW d \in Ports, NEW f \in Frames \ DataPackets,
         Enqueued(s, r, d, 0, f)
  PROVE  Good(r) /\ HeldBy(r) = HeldBy(s)
<1>1. /\ NodeType(r)
      /\ r.m_queue[d][0] = Append(s.m_queue[d][0], f)
      /\ \A e \in Ports, g \in Queues : e # d \/ g # 0 => r.m_queue[e][g] = s.m_queue[e][g]
  BY DEF Enqueued
<1>2. s.m_queue[d][0] \in Seq(Frames) /\ GoodQueue(s.m_queue[d][0], d, 0)
  BY FrameFacts DEF Good, GoodQueues, NodeType
<1>3. GoodQueue(r.m_queue[d][0], d, 0)
  <2> DEFINE Q == s.m_queue[d][0]
  <2>1. Q \in Seq(Frames) /\ \A k \in DOMAIN Q : Q[k] \notin DataPackets
    BY <1>2 DEF GoodQueue
  <2> HIDE DEF Q
  <2>2. \A k \in DOMAIN Append(Q, f) : Append(Q, f)[k] \notin DataPackets
    BY <2>1
  <2> QED
    BY <1>1, <2>2 DEF GoodQueue, Q
<1>4. Good(r)
  BY <1>1, <1>3 DEF Good, GoodQueues
<1> QED
  BY <1>1, <1>4, HeldSame

\* A packet that is not held may join its queue.
LEMMA EnqueueData ==
  ASSUME NEW s, NEW r, Good(s), NEW p \in DataPackets, p \notin HeldBy(s),
         Enqueued(s, r, p.outDev, p.qIndex, p)
  PROVE  Good(r) /\ HeldBy(r) = HeldBy(s) \cup {p}
<1> DEFINE d == p.outDev
           q == p.qIndex
           Q == s.m_queue[d][q]
<1>1. d \in Ports /\ q \in Queues \ {0} /\ Out(p) = <<d, q>> /\ p \in Frames
  BY FrameFacts DEF DataPackets, Out
<1>2. /\ NodeType(r)
      /\ r.m_queue[d][q] = Append(Q, p)
      /\ \A e \in Ports, g \in Queues : e # d \/ g # q => r.m_queue[e][g] = s.m_queue[e][g]
  BY DEF Enqueued
<1>3. ~ \E k \in DOMAIN Q : Q[k] = p
  BY HeldMember
<1>4. Q \in Seq(Frames) /\ GoodQueue(Q, d, q)
  BY <1>1 DEF Good, GoodQueues, NodeType
<1> HIDE DEF d, q, Q
<1>5. /\ \A k \in DOMAIN Q : Q[k] \in DataPackets /\ Out(Q[k]) = <<d, q>>
      /\ \A k, l \in DOMAIN Q : Q[k] = Q[l] => k = l
  BY <1>1, <1>4 DEF GoodQueue
<1>6. /\ Len(Q) \in Nat /\ DOMAIN Q = 1 .. Len(Q)
      /\ DOMAIN Append(Q, p) = 1 .. Len(Q) + 1
      /\ Append(Q, p)[Len(Q) + 1] = p
      /\ \A k \in 1 .. Len(Q) : Append(Q, p)[k] = Q[k]
  BY <1>1, <1>4
<1>7. \A k \in 1 .. Len(Q) + 1 : k \in 1 .. Len(Q) \/ k = Len(Q) + 1
  BY <1>6
<1>8. GoodQueue(Append(Q, p), d, q)
  <2>1. \A k \in DOMAIN Append(Q, p) : /\ Append(Q, p)[k] \in DataPackets
                                       /\ Out(Append(Q, p)[k]) = <<d, q>>
    BY <1>1, <1>5, <1>6, <1>7
  <2>2. \A k, l \in DOMAIN Append(Q, p) : Append(Q, p)[k] = Append(Q, p)[l] => k = l
    BY <1>3, <1>5, <1>6, <1>7
  <2> QED
    BY <1>1, <2>1, <2>2 DEF GoodQueue
<1>9. Good(r)
  BY <1>1, <1>2, <1>8 DEF Good, GoodQueues
<1>10. ASSUME NEW x \in DataPackets
       PROVE  x \in HeldBy(r) <=> x \in HeldBy(s) \cup {p}
  <2> DEFINE There(S) == \E k \in DOMAIN S : S[k] = x
             e == x.outDev
             g == x.qIndex
  <2>1. x \in HeldBy(r) <=> There(r.m_queue[e][g])
    BY <1>9, HeldMember
  <2>2. x \in HeldBy(s) <=> There(s.m_queue[e][g])
    BY HeldMember
  <2>3. e \in Ports /\ g \in Queues
    BY FrameFacts DEF DataPackets
  <2>4. CASE e = d /\ g = q
    <3>1. There(Append(Q, p)) <=> There(Q) \/ x = p
      BY <1>6, <1>7
    <3> HIDE DEF There
    <3> QED
      BY <1>2, <2>1, <2>2, <2>4, <3>1 DEF Q
  <2>5. CASE ~ (e = d /\ g = q)
    <3>1. x # p
      BY <2>5 DEF d, q
    <3>2. r.m_queue[e][g] = s.m_queue[e][g]
      BY <1>2, <2>3, <2>5
    <3> HIDE DEF There
    <3> QED
      BY <2>1, <2>2, <3>1, <3>2
  <2> QED
    BY <2>4, <2>5
<1>11. HeldBy(r) \subseteq DataPackets /\ HeldBy(s) \subseteq DataPackets
  BY DEF HeldBy
<1> QED
  BY <1>9, <1>10, <1>11

\* The head of queue 0 is a control frame and may leave.
LEMMA TakeControl ==
  ASSUME NEW s, NEW r, Good(s), NEW d \in Ports, s.m_queue[d][0] # <<>>,
         Taken(s, r, d, 0)
  PROVE  Good(r) /\ HeldBy(r) = HeldBy(s) /\ Head(s.m_queue[d][0]) \notin DataPackets
<1> DEFINE Q == s.m_queue[d][0]
<1>1. /\ NodeType(r)
      /\ r.m_queue[d][0] = Tail(Q)
      /\ \A e \in Ports, g \in Queues : e # d \/ g # 0 => r.m_queue[e][g] = s.m_queue[e][g]
  BY DEF Taken
<1>2. Q \in Seq(Frames) /\ Q # <<>> /\ GoodQueue(Q, d, 0)
  BY FrameFacts DEF Good, GoodQueues, NodeType
<1> HIDE DEF Q
<1>3. \A k \in DOMAIN Q : Q[k] \notin DataPackets
  BY <1>2 DEF GoodQueue
<1>4. \A k \in DOMAIN Tail(Q) : k + 1 \in DOMAIN Q /\ Tail(Q)[k] = Q[k + 1]
  BY <1>2
<1>5. 1 \in DOMAIN Q /\ Head(Q) = Q[1]
  BY <1>2
<1>6. GoodQueue(Tail(Q), d, 0)
  BY <1>3, <1>4 DEF GoodQueue
<1>7. Good(r)
  BY <1>1, <1>6 DEF Good, GoodQueues
<1>8. HeldBy(r) = HeldBy(s)
  BY <1>1, <1>7, HeldSame
<1> QED
  BY <1>3, <1>5, <1>7, <1>8 DEF Q

\* The head of another queue is a packet that leaves through it, and may leave.
LEMMA TakeData ==
  ASSUME NEW s, NEW r, Good(s), NEW d \in Ports, NEW q \in Queues \ {0},
         s.m_queue[d][q] # <<>>, Taken(s, r, d, q)
  PROVE  LET p == Head(s.m_queue[d][q])
         IN  /\ Good(r)
             /\ p \in HeldBy(s) /\ Out(p) = <<d, q>>
             /\ HeldBy(r) = HeldBy(s) \ {p}
<1> DEFINE Q == s.m_queue[d][q]
           p == Head(Q)
<1>1. /\ NodeType(r)
      /\ r.m_queue[d][q] = Tail(Q)
      /\ \A e \in Ports, g \in Queues : e # d \/ g # q => r.m_queue[e][g] = s.m_queue[e][g]
  BY DEF Taken
<1>2. Q \in Seq(Frames) /\ Q # <<>> /\ GoodQueue(Q, d, q)
  BY DEF Good, GoodQueues, NodeType
<1>3. p = Head(Q) /\ Q = s.m_queue[d][q]
  OBVIOUS
<1> HIDE DEF p, Q
<1>4. /\ \A k \in DOMAIN Q : Q[k] \in DataPackets /\ Out(Q[k]) = <<d, q>>
      /\ \A k, l \in DOMAIN Q : Q[k] = Q[l] => k = l
  BY <1>2 DEF GoodQueue
<1>5. /\ \A k \in DOMAIN Tail(Q) : k + 1 \in DOMAIN Q \ {1} /\ Tail(Q)[k] = Q[k + 1] /\ k \in Nat
      /\ \A k \in DOMAIN Q \ {1} : k - 1 \in DOMAIN Tail(Q) /\ k = (k - 1) + 1
  BY <1>2
<1>6. 1 \in DOMAIN Q /\ p = Q[1]
  BY <1>2, <1>3
<1>7. p \in DataPackets /\ Out(p) = <<d, q>>
  BY <1>4, <1>6
<1>8. GoodQueue(Tail(Q), d, q)
  <2>1. \A k \in DOMAIN Tail(Q) : /\ Tail(Q)[k] \in DataPackets
                                  /\ Out(Tail(Q)[k]) = <<d, q>>
    BY <1>4, <1>5
  <2>2. \A k, l \in DOMAIN Tail(Q) : Tail(Q)[k] = Tail(Q)[l] => k = l
    <3> SUFFICES ASSUME NEW k \in DOMAIN Tail(Q), NEW l \in DOMAIN Tail(Q),
                        Tail(Q)[k] = Tail(Q)[l]
                 PROVE  k = l
      OBVIOUS
    <3>1. k + 1 = l + 1
      BY <1>4, <1>5
    <3> QED
      BY <1>5, <3>1
  <2> QED
    BY <2>1, <2>2 DEF GoodQueue
<1>9. Good(r)
  BY <1>1, <1>8 DEF Good, GoodQueues
<1>10. ASSUME NEW x \in DataPackets
       PROVE  x \in HeldBy(r) <=> x \in HeldBy(s) \ {p}
  <2> DEFINE There(S) == \E k \in DOMAIN S : S[k] = x
             e == x.outDev
             g == x.qIndex
  <2>1. x \in HeldBy(r) <=> There(r.m_queue[e][g])
    BY <1>9, HeldMember
  <2>2. x \in HeldBy(s) <=> There(s.m_queue[e][g])
    BY HeldMember
  <2>3. e \in Ports /\ g \in Queues
    BY FrameFacts DEF DataPackets
  <2>4. CASE e = d /\ g = q
    <3>1. There(Tail(Q)) => There(Q) /\ x # p
      BY <1>4, <1>5, <1>6
    <3>2. There(Q) /\ x # p => There(Tail(Q))
      <4> SUFFICES ASSUME NEW k \in DOMAIN Q, Q[k] = x, x # p
                   PROVE  There(Tail(Q))
        OBVIOUS
      <4>1. k \in DOMAIN Q \ {1}
        BY <1>6
      <4>2. k - 1 \in DOMAIN Tail(Q) /\ Tail(Q)[k - 1] = x
        BY <1>5, <4>1
      <4> QED
        BY <4>2
    <3> HIDE DEF There
    <3> QED
      BY <1>1, <1>3, <2>1, <2>2, <2>4, <3>1, <3>2
  <2>5. CASE ~ (e = d /\ g = q)
    <3>1. x # p
      BY <1>7, <2>5 DEF Out
    <3>2. r.m_queue[e][g] = s.m_queue[e][g]
      BY <1>1, <2>3, <2>5
    <3> HIDE DEF There
    <3> QED
      BY <2>1, <2>2, <3>1, <3>2
  <2> QED
    BY <2>4, <2>5
<1>11. HeldBy(r) \subseteq DataPackets /\ HeldBy(s) \subseteq DataPackets
  BY DEF HeldBy
<1>12. p \in HeldBy(s)
  <2> DEFINE There(S) == \E k \in DOMAIN S : S[k] = p
  <2>1. p \in HeldBy(s) <=> There(s.m_queue[p.outDev][p.qIndex])
    BY <1>7, HeldMember
  <2>2. p.outDev = d /\ p.qIndex = q
    BY <1>7 DEF Out
  <2>3. There(Q)
    BY <1>6
  <2> HIDE DEF There
  <2> QED
    BY <1>3, <2>1, <2>2, <2>3
<1>13. HeldBy(r) = HeldBy(s) \ {p}
  BY <1>10, <1>11
<1> QED
  BY <1>3, <1>7, <1>9, <1>12, <1>13

-------------------------------------------------------------------------------
(* The streams of PFC frames *)

\* A stream is a sequence of frames.
LEMMA StreamParts ==
  ASSUME NEW s, NodeType(s), NEW d \in Ports
  PROVE  /\ Stream(s, d) \in Seq(Frames \cup {NoFrame})
         /\ s.m_queue[d][0] \in Seq(Frames \cup {NoFrame})
         /\ s.m_currentPkt[d] \in Frames \cup {NoFrame}
         /\ \A f \in Frames : Append(Stream(s, d), f)
                                = <<s.m_currentPkt[d]>> \o Append(s.m_queue[d][0], f)
<1>1. s.m_queue[d][0] \in Seq(Frames) /\ s.m_currentPkt[d] \in Frames \cup {NoFrame}
  BY FrameFacts DEF NodeType
<1> DEFINE Q == s.m_queue[d][0]
           x == s.m_currentPkt[d]
           S == Frames \cup {NoFrame}
<1>2. Q \in Seq(S) /\ x \in S
  <2>1. Frames \subseteq S
    OBVIOUS
  <2> HIDE DEF S
  <2> QED
    BY <1>1, <2>1 DEF S
<1> HIDE DEF Q, x
<1>3. <<x>> \o Q \in Seq(S)
  <2> HIDE DEF S
  <2> QED
    BY <1>2
<1>4. \A f \in Frames : Append(<<x>> \o Q, f) = <<x>> \o Append(Q, f)
  <2> TAKE f \in Frames
  <2>1. f \in S
    OBVIOUS
  <2> HIDE DEF S
  <2> QED
    BY <1>2, <2>1
<1> QED
  BY <1>2, <1>3, <1>4 DEF Stream, Q, x, S

\* Data does not count, nor the absence of a frame.
LEMMA NoPfc ==
  /\ \A q : ~ IsPfc(NoFrame, q)
  /\ \A p \in Packets : \A q : ~ IsPfc(p, q)
  /\ \A q, g \in Queues, b \in BOOLEAN : IsPfc(Pfc(g, b), q) <=> g = q
BY FrameFacts DEF IsPfc, Frames

\* Appending to a data queue, or a packet, disturbs no stream.
LEMMA EnqueueStreams ==
  ASSUME NEW s, NEW r, NodeType(s), NEW d \in Ports, NEW g \in Queues, NEW p \in Packets,
         Enqueued(s, r, d, g, p), NEW paused, Streams(s, paused)
  PROVE  Streams(r, paused)
<1> SUFFICES ASSUME NEW e \in Ports, NEW q \in Queues, r.m_linkUp[e]
             PROVE  Faithful(Stream(r, e), q, paused[<<e, q>>])
  BY DEF Streams
<1> DEFINE b == paused[<<e, q>>]
<1>1. Faithful(Stream(s, e), q, b)
  BY DEF Streams, Enqueued
<1> HIDE DEF b
<1>2. CASE e = d /\ g = 0
  <2>1. Stream(r, e) = Append(Stream(s, e), p)
    <3>1. r.m_queue[e][0] = Append(s.m_queue[e][0], p) /\ r.m_currentPkt[e] = s.m_currentPkt[e]
      BY <1>2 DEF Enqueued
    <3>2. Stream(r, e) = <<s.m_currentPkt[e]>> \o Append(s.m_queue[e][0], p)
      BY <3>1 DEF Stream
    <3>3. Append(Stream(s, e), p) = <<s.m_currentPkt[e]>> \o Append(s.m_queue[e][0], p)
      <4>1. p \in Frames
        BY FrameFacts
      <4> QED
        BY <4>1, StreamParts, Zenon
    <3> QED
      BY <3>2, <3>3, Zenon
  <2>2. /\ Stream(s, e) \in Seq(Frames \cup {NoFrame}) /\ p \in Frames \cup {NoFrame}
        /\ ~ IsPfc(p, q)
    BY StreamParts, FrameFacts, NoPfc
  <2>3. Faithful(Append(Stream(s, e), p), q, b)
    BY <1>1, <2>2, FaithfulAppendOther
  <2> QED
    BY <2>1, <2>3 DEF b
<1>3. CASE ~ (e = d /\ g = 0)
  <2>1. Stream(r, e) = Stream(s, e)
    BY <1>3, FrameFacts DEF Enqueued, Stream
  <2> QED
    BY <1>1, <2>1 DEF b
<1> QED
  BY <1>2, <1>3

\* A frame for q that tells a change of the pause state extends its stream.
LEMMA PfcStreams ==
  ASSUME NEW s, NEW r, NodeType(s), NEW d \in Ports, NEW g \in Queues, NEW b \in BOOLEAN,
         Enqueued(s, r, d, 0, Pfc(g, b)),
         NEW before, NEW after, Streams(s, before),
         before[<<d, g>>] # b, after[<<d, g>>] = b,
         \A i \in PortQueue \ {<<d, g>>} : after[i] = before[i]
  PROVE  Streams(r, after)
<1> SUFFICES ASSUME NEW e \in Ports, NEW q \in Queues, r.m_linkUp[e]
             PROVE  Faithful(Stream(r, e), q, after[<<e, q>>])
  BY DEF Streams
<1> DEFINE was == before[<<e, q>>]
           f == Pfc(g, b)
<1>1. Faithful(Stream(s, e), q, was)
  BY DEF Streams, Enqueued
<1>2. /\ f \in Frames /\ f \in Frames \cup {NoFrame} /\ f.pause = b
      /\ IsPfc(f, q) <=> g = q
  BY FrameFacts, NoPfc
<1>3. /\ e = d => r.m_queue[e][0] = Append(s.m_queue[e][0], f)
      /\ e # d => r.m_queue[e][0] = s.m_queue[e][0]
      /\ r.m_currentPkt[e] = s.m_currentPkt[e]
  BY FrameFacts DEF Enqueued
<1>4. e # d \/ q # g => after[<<e, q>>] = was
  BY FrameFacts
<1> HIDE DEF f, was
<1>5. CASE e = d
  <2>1. Stream(r, e) = Append(Stream(s, e), f)
    <3>2. Stream(r, e) = <<s.m_currentPkt[e]>> \o Append(s.m_queue[e][0], f)
      BY <1>3, <1>5 DEF Stream
    <3>3. Append(Stream(s, e), f) = <<s.m_currentPkt[e]>> \o Append(s.m_queue[e][0], f)
      <4>1. f \in Frames
        BY <1>2
      <4> QED
        BY <4>1, StreamParts, Zenon
    <3> QED
      BY <3>2, <3>3, Zenon
  <2>2. Stream(s, e) \in Seq(Frames \cup {NoFrame})
    BY StreamParts
  <2>3. CASE g = q
    <3>1. was # f.pause /\ after[<<e, q>>] = f.pause
      BY <1>2, <1>5, <2>3 DEF was
    <3>2. Faithful(Append(Stream(s, e), f), q, f.pause)
      BY <1>1, <1>2, <2>2, <2>3, <3>1, FaithfulAppend
    <3> QED
      BY <2>1, <3>1, <3>2
  <2>4. CASE g # q
    <3>1. Faithful(Append(Stream(s, e), f), q, was)
      BY <1>1, <1>2, <2>2, <2>4, FaithfulAppendOther
    <3> QED
      BY <1>4, <2>1, <2>4, <3>1
  <2> QED
    BY <2>3, <2>4
<1>6. CASE e # d
  <2>1. Stream(r, e) = Stream(s, e)
    BY <1>3, <1>6 DEF Stream
  <2> QED
    BY <1>1, <1>4, <1>6, <2>1
<1> QED
  BY <1>5, <1>6

\* Starting to transmit disturbs no stream.
LEMMA TakeStreams ==
  ASSUME NEW s, NEW r, Good(s), NEW d \in Ports, NEW g \in Queues,
         s.m_queue[d][g] # <<>>, s.m_currentPkt[d] = NoFrame,
         Taken(s, r, d, g), NEW paused, Streams(s, paused)
  PROVE  Streams(r, paused)
<1> SUFFICES ASSUME NEW e \in Ports, NEW q \in Queues, r.m_linkUp[e]
             PROVE  Faithful(Stream(r, e), q, paused[<<e, q>>])
  BY DEF Streams
<1> DEFINE b == paused[<<e, q>>]
           S == Frames \cup {NoFrame}
           Q == s.m_queue[d][g]
<1>1. Faithful(Stream(s, e), q, b)
  BY DEF Streams, Taken
<1>2. /\ Stream(s, e) \in Seq(S) /\ s.m_queue[e][0] \in Seq(S)
      /\ s.m_currentPkt[e] \in S /\ NodeType(s)
  BY StreamParts DEF Good
<1>3. Q \in Seq(Frames) /\ Q # <<>>
  BY <1>2 DEF NodeType
<1> HIDE DEF b
<1>4. CASE e = d
  <2>1. Faithful(s.m_queue[e][0], q, b)
    <3>1. Faithful(<<s.m_currentPkt[e]>> \o s.m_queue[e][0], q, b)
      BY <1>1 DEF Stream
    <3> HIDE DEF S
    <3> QED
      BY <1>2, <3>1, FaithfulTail
  <2>2. r.m_currentPkt[e] = Head(Q)
    BY <1>4 DEF Taken
  <2>3. CASE g = 0
    <3>1. r.m_queue[e][0] = Tail(Q) /\ Q = s.m_queue[e][0]
      BY <1>4, <2>3 DEF Taken
    <3>2. <<Head(Q)>> \o Tail(Q) = Q
      <4> HIDE DEF Q
      <4> QED
        BY <1>3
    <3>3. Stream(r, e) = s.m_queue[e][0]
      BY <2>2, <3>1, <3>2 DEF Stream
    <3> QED
      BY <2>1, <3>3 DEF b
  <2>4. CASE g # 0
    <3>1. r.m_queue[e][0] = s.m_queue[e][0]
      BY <2>4, FrameFacts DEF Taken
    <3>2. Head(Q) \in DataPackets
      BY <2>4, TakeData DEF HeldBy
    <3>3. Head(Q) \in S /\ ~ IsPfc(Head(Q), q)
      BY <3>2, NoPfc, FrameFacts DEF DataPackets
    <3>4. Faithful(<<Head(Q)>> \o s.m_queue[e][0], q, b)
      <4> HIDE DEF S, Q
      <4> QED
        BY <1>2, <2>1, <3>3, FaithfulPrepend
    <3> QED
      BY <2>2, <3>1, <3>4 DEF Stream, b
  <2> QED
    BY <2>3, <2>4
<1>5. CASE e # d
  <2>1. Stream(r, e) = Stream(s, e)
    BY <1>5 DEF Taken, Stream
  <2> QED
    BY <1>1, <2>1 DEF b
<1> QED
  BY <1>4, <1>5

-------------------------------------------------------------------------------
(* Sending a PFC frame *)

\* What is left as it was, and what a step may do to the ports: one that is ready
\* afterwards has been before, with the same queues, and ports but d are not touched.
Untouched(s, r, d) ==
  /\ r.m_paused = s.m_paused /\ r.m_linkUp = s.m_linkUp
  /\ \A e \in Ports, q \in Queues \ {0} : r.m_queue[e][q] = s.m_queue[e][q]
  /\ \A e \in Ports \ {d} : /\ r.m_queue[e] = s.m_queue[e]
                            /\ r.m_currentPkt[e] = s.m_currentPkt[e]
  /\ Ready(r, d) => r.m_queue[d] = s.m_queue[d] /\ Ready(s, d)
  /\ \/ r.m_currentPkt[d] = s.m_currentPkt[d]
     \/ r.m_currentPkt[d] \notin DataPackets

\* SendPfc leaves the data alone, and the stream of its priority tells the change.
LEMMA SendPfcGood ==
  ASSUME NEW s, Good(s), NEW d \in Ports, NEW q \in Queues, NEW b \in BOOLEAN,
         NEW before, NEW after, Streams(s, before),
         before[<<d, q>>] # b, after[<<d, q>>] = b,
         \A i \in PortQueue \ {<<d, q>>} : after[i] = before[i]
  PROVE  LET r == SendPfc(s, d, q, b)
         IN  /\ Good(r) /\ r.mmu = s.mmu /\ HeldBy(r) = HeldBy(s)
             /\ Untouched(s, r, d)
             /\ Streams(r, after)
<1> DEFINE f == Pfc(q, b)
           t == Enqueue(s, d, 0, f)
           r == SendPfc(s, d, q, b)
           u == TransmitFrom(t, d, 0)
<1>1. Enqueued(s, t, d, 0, f)
  BY EnqueueFields, FrameFacts DEF Good
<1>2. r = IF Ready(t, d) THEN u ELSE t
  BY DEF SendPfc
<1> HIDE DEF r, t
<1>3. Good(t) /\ HeldBy(t) = HeldBy(s)
  BY <1>1, EnqueueControl, FrameFacts
<1>4. Streams(t, after)
  BY <1>1, PfcStreams DEF Good
<1>5. /\ t.mmu = s.mmu /\ t.m_paused = s.m_paused /\ t.m_linkUp = s.m_linkUp
      /\ t.m_currentPkt = s.m_currentPkt
      /\ \A e \in Ports, g \in Queues \ {0} : t.m_queue[e][g] = s.m_queue[e][g]
      /\ \A e \in Ports \ {d} : t.m_queue[e] = s.m_queue[e]
      /\ t.m_queue[d][0] # <<>>
  <2>1. s.m_queue[d][0] \in Seq(Frames) /\ f \in Frames
    BY FrameFacts DEF Good, NodeType
  <2> HIDE DEF f
  <2>2. Append(s.m_queue[d][0], f) # <<>>
    BY <2>1
  <2> QED
    BY <1>1, <2>2 DEF Enqueued
<1>6. CASE ~Ready(t, d)
  <2>1. r = t
    BY <1>2, <1>6
  <2> QED
    BY <1>3, <1>4, <1>5, <1>6, <2>1 DEF Untouched, r
<1>7. CASE Ready(t, d)
  <2>1. r = u
    BY <1>2, <1>7
  <2>2. Taken(t, u, d, 0)
    BY <1>3, <1>5, TransmitFields, FrameFacts DEF Good
  <2> HIDE DEF u
  <2>3. Good(u) /\ HeldBy(u) = HeldBy(t) /\ u.m_currentPkt[d] \notin DataPackets
    <3>1. Good(u) /\ HeldBy(u) = HeldBy(t) /\ Head(t.m_queue[d][0]) \notin DataPackets
      BY <1>3, <1>5, <2>2, TakeControl
    <3> QED
      BY <2>2, <3>1 DEF Taken
  <2>4. Streams(u, after)
    BY <1>3, <1>4, <1>5, <1>7, <2>2, TakeStreams, FrameFacts DEF Ready
  <2>5. u.m_currentPkt[d] # NoFrame
    <3>1. Head(t.m_queue[d][0]) \in Frames
      BY <1>3, <1>5, TransmitFields, FrameFacts DEF Good
    <3> QED
      BY <2>2, <3>1, FrameFacts DEF Taken
  <2>6. Untouched(s, u, d)
    BY <1>5, <2>2, <2>3, <2>5, FrameFacts DEF Untouched, Taken, Ready
  <2>7. u.mmu = s.mmu
    BY <1>5, <2>2 DEF Taken
  <2> QED
    BY <1>3, <2>1, <2>3, <2>4, <2>6, <2>7 DEF r
<1> QED
  BY <1>6, <1>7

\* What SwitchNotifyDequeue and Accept have in common: the MMU goes to m, and the
\* peer of the port d is told if that changes the pause state of its queue q.
Notified(s, r, m, d) ==
  /\ Good(r) /\ r.mmu = m /\ HeldBy(r) = HeldBy(s)
  /\ Untouched(s, r, d)
  /\ Streams(r, m.paused)

\* The MMU alone changes.
LEMMA MmuGood ==
  ASSUME NEW s, Good(s), NEW m, PauseType(m)
  PROVE  LET t == [s EXCEPT !.mmu = m]
         IN  /\ Good(t) /\ t.mmu = m /\ HeldBy(t) = HeldBy(s)
             /\ \A d \in Ports : Untouched(s, t, d)
             /\ \A paused : Streams(s, paused) => Streams(t, paused)
<1> DEFINE t == [s EXCEPT !.mmu = m]
<1>1. /\ t.mmu = m /\ t.m_queue = s.m_queue /\ t.m_rrlast = s.m_rrlast
      /\ t.m_currentPkt = s.m_currentPkt /\ t.m_paused = s.m_paused
      /\ t.m_linkUp = s.m_linkUp /\ DOMAIN t = NodeFields
  BY DEF Good, NodeType, NodeFields
<1> HIDE DEF t
<1>2. Good(t)
  BY <1>1 DEF Good, NodeType, GoodQueues
<1>3. HeldBy(t) = HeldBy(s)
  BY <1>1 DEF HeldBy, Queued
<1>4. \A d \in Ports : Untouched(s, t, d)
  BY <1>1 DEF Untouched, Ready
<1>5. \A paused : Streams(s, paused) => Streams(t, paused)
  BY <1>1 DEF Streams, Stream
<1> QED
  BY <1>1, <1>2, <1>3, <1>4, <1>5 DEF t

\* If the pause state of queue q of port d changes to b, the frame says b.
LEMMA TellChange ==
  ASSUME NEW s, Good(s), NEW m, PauseType(m), NEW d \in Ports, NEW q \in Queues,
         NEW b \in BOOLEAN, s.mmu.paused[<<d, q>>] # b, m.paused[<<d, q>>] = b,
         \A i \in PortQueue \ {<<d, q>>} : m.paused[i] = s.mmu.paused[i],
         Streams(s, s.mmu.paused)
  PROVE  Notified(s, SendPfc([s EXCEPT !.mmu = m], d, q, b), m, d)
<1> DEFINE t == [s EXCEPT !.mmu = m]
           r == SendPfc(t, d, q, b)
<1>1. /\ Good(t) /\ t.mmu = m /\ HeldBy(t) = HeldBy(s)
      /\ Untouched(s, t, d) /\ Streams(t, s.mmu.paused)
  BY MmuGood
<1> HIDE DEF t
<1>2. /\ Good(r) /\ r.mmu = t.mmu /\ HeldBy(r) = HeldBy(t)
      /\ Untouched(t, r, d) /\ Streams(r, m.paused)
  <2> DEFINE before == s.mmu.paused
             after == m.paused
  <2>1. /\ Streams(t, before) /\ before[<<d, q>>] # b /\ after[<<d, q>>] = b
        /\ \A i \in PortQueue \ {<<d, q>>} : after[i] = before[i]
    BY <1>1
  <2>2. Good(t)
    BY <1>1
  <2> HIDE DEF before, after
  <2>3. /\ Good(r) /\ r.mmu = t.mmu /\ HeldBy(r) = HeldBy(t)
        /\ Untouched(t, r, d) /\ Streams(r, after)
    BY <2>1, <2>2, SendPfcGood
  <2> QED
    BY <2>3 DEF after
<1> HIDE DEF r
<1>3. Untouched(s, r, d)
  BY <1>1, <1>2 DEF Untouched
<1>4. Notified(s, r, m, d)
  BY <1>1, <1>2, <1>3 DEF Notified
<1> QED
  BY <1>4 DEF r, t

\* If it does not change, nothing is sent.
LEMMA TellNothing ==
  ASSUME NEW s, Good(s), NEW m, PauseType(m), NEW d \in Ports,
         \A i \in PortQueue : m.paused[i] = s.mmu.paused[i],
         Streams(s, s.mmu.paused)
  PROVE  Notified(s, [s EXCEPT !.mmu = m], m, d)
<1> DEFINE t == [s EXCEPT !.mmu = m]
<1>1. /\ Good(t) /\ t.mmu = m /\ HeldBy(t) = HeldBy(s) /\ Untouched(s, t, d)
      /\ \A paused : Streams(s, paused) => Streams(t, paused)
  BY MmuGood
<1> HIDE DEF t
<1>2. m.paused = s.mmu.paused
  BY DEF Good, NodeType, PauseType
<1> QED
  BY <1>1, <1>2 DEF Notified, t

\* Accept admits a packet and pauses its sender if the MMU wants that.
LEMMA AcceptGood ==
  ASSUME NEW s, Good(s), NEW p \in DataPackets, Streams(s, s.mmu.paused)
  PROVE  Notified(s, Accept(s, p), Admitted(s.mmu, p), p.inDev)
<1> DEFINE m == Admitted(s.mmu, p)
           was == s.mmu.paused[In(p)]
           is == m.paused[In(p)]
<1>1. /\ p.inDev \in Ports /\ p.qIndex \in Queues /\ In(p) = <<p.inDev, p.qIndex>>
      /\ In(p) \in PortQueue /\ PauseType(s.mmu)
  BY FrameFacts DEF DataPackets, In, Good, NodeType
<1>2. /\ PauseType(m) /\ (was => is)
      /\ \A i \in PortQueue \ {In(p)} : m.paused[i] = s.mmu.paused[i]
  BY <1>1, AdmittedPause
<1>3. was \in BOOLEAN /\ is \in BOOLEAN
  BY <1>1, <1>2 DEF PauseType
<1>4. Accept(s, p) = IF is /\ ~was THEN SendPfc([s EXCEPT !.mmu = m], p.inDev, p.qIndex, TRUE)
                     ELSE [s EXCEPT !.mmu = m]
  BY DEF Accept
<1>5. CASE is /\ ~was
  <2>1. is = TRUE /\ was # TRUE
    BY <1>3, <1>5, Zenon
  <2>2. s.mmu.paused[<<p.inDev, p.qIndex>>] # TRUE /\ m.paused[<<p.inDev, p.qIndex>>] = TRUE
    BY <1>1, <2>1
  <2> HIDE DEF m, is, was
  <2>3. Notified(s, SendPfc([s EXCEPT !.mmu = m], p.inDev, p.qIndex, TRUE), m, p.inDev)
    BY <1>1, <1>2, <2>2, TellChange
  <2> QED
    BY <1>4, <1>5, <2>3 DEF m
<1>6. CASE ~ (is /\ ~was)
  <2>1. is = was
    BY <1>2, <1>3, <1>6, Zenon
  <2>2. \A i \in PortQueue : m.paused[i] = s.mmu.paused[i]
    BY <1>2, <2>1
  <2> HIDE DEF m, is, was
  <2>3. Notified(s, [s EXCEPT !.mmu = m], m, p.inDev)
    BY <1>1, <1>2, <2>2, TellNothing
  <2> QED
    BY <1>4, <1>6, <2>3 DEF m
<1> QED
  BY <1>5, <1>6

\* SwitchNotifyDequeue releases a packet and resumes its sender if the MMU lets it.
LEMMA NotifyGood ==
  ASSUME NEW s, Good(s), NEW p \in DataPackets, Streams(s, s.mmu.paused)
  PROVE  Notified(s, SwitchNotifyDequeue(s, p), Released(s.mmu, p), p.inDev)
<1> DEFINE m == Released(s.mmu, p)
           was == s.mmu.paused[In(p)]
           is == m.paused[In(p)]
<1>1. /\ p.inDev \in Ports /\ p.qIndex \in Queues /\ In(p) = <<p.inDev, p.qIndex>>
      /\ In(p) \in PortQueue /\ PauseType(s.mmu)
  BY FrameFacts DEF DataPackets, In, Good, NodeType
<1>2. /\ PauseType(m) /\ (is => was)
      /\ \A i \in PortQueue \ {In(p)} : m.paused[i] = s.mmu.paused[i]
  BY <1>1, ReleasedPause
<1>3. was \in BOOLEAN /\ is \in BOOLEAN
  BY <1>1, <1>2 DEF PauseType
<1>4. SwitchNotifyDequeue(s, p)
        = IF was /\ ~is THEN SendPfc([s EXCEPT !.mmu = m], p.inDev, p.qIndex, FALSE)
          ELSE [s EXCEPT !.mmu = m]
  BY DEF SwitchNotifyDequeue
<1>5. CASE was /\ ~is
  <2>1. is = FALSE /\ was # FALSE
    BY <1>3, <1>5, Zenon
  <2>2. s.mmu.paused[<<p.inDev, p.qIndex>>] # FALSE /\ m.paused[<<p.inDev, p.qIndex>>] = FALSE
    BY <1>1, <2>1
  <2> HIDE DEF m, is, was
  <2>3. Notified(s, SendPfc([s EXCEPT !.mmu = m], p.inDev, p.qIndex, FALSE), m, p.inDev)
    BY <1>1, <1>2, <2>2, TellChange
  <2> QED
    BY <1>4, <1>5, <2>3 DEF m
<1>6. CASE ~ (was /\ ~is)
  <2>1. is = was
    BY <1>2, <1>3, <1>6, Zenon
  <2>2. \A i \in PortQueue : m.paused[i] = s.mmu.paused[i]
    BY <1>2, <2>1
  <2> HIDE DEF m, is, was
  <2>3. Notified(s, [s EXCEPT !.mmu = m], m, p.inDev)
    BY <1>1, <1>2, <2>2, TellNothing
  <2> QED
    BY <1>4, <1>6, <2>3 DEF m
<1> QED
  BY <1>5, <1>6

-------------------------------------------------------------------------------
(* Transmitting *)

\* If some queue may send, the round robin finds one that may.
LEMMA NextQueueSends ==
  ASSUME NEW s, NodeType(s), NEW d \in Ports, NEW q \in Queues, MaySend(s, d, q)
  PROVE  NextQueue(s, d) \in Queues /\ MaySend(s, d, NextQueue(s, d))
<1>1. CASE MaySend(s, d, 0)
  BY <1>1, FrameFacts DEF NextQueue
<1>2. CASE ~MaySend(s, d, 0)
  <2> DEFINE Sends == {g \in Queues : MaySend(s, d, g)}
             T == [g \in Queues |-> Turn(s, d, g)]
             S == {T[g] : g \in Sends}
             Below == {ss \in Nat \X Nat : ss[1] < ss[2]}
  <2>1. \A g \in Queues : Turn(s, d, g) \in Nat
    <3> TAKE g \in Queues
    <3>1. qCnt \in Nat
      BY MmuConfiguration, FS_CardinalityType DEF qCnt
    <3>2. g \in 0 .. qCnt - 1 /\ s.m_rrlast[d] \in 0 .. qCnt - 1
      BY NodeConfiguration DEF NodeType
    <3>3. qCnt > 0
      BY <3>1, <3>2
    <3>4. (g - s.m_rrlast[d]) % qCnt \in Nat
      BY <3>1, <3>2, <3>3
    <3> QED
      BY <3>1, <3>4 DEF Turn
  <2>2. S \subseteq Nat /\ S # {}
    BY <2>1
  <2>3. PICK x \in S : \A y \in S : ~ (<<y, x>> \in Below)
    <3>1. IsWellFoundedOn(Below, Nat)
      BY NatLessThanWellFounded, Zenon DEF OpToRel
    <3> HIDE DEF Below, S
    <3> QED
      BY <2>2, <3>1, WFMin
  <2>4. PICK g \in Sends : x = T[g]
    OBVIOUS
  <2>5. \A h \in Queues : MaySend(s, d, h) => Turn(s, d, g) <= Turn(s, d, h)
    <3> SUFFICES ASSUME NEW h \in Queues, MaySend(s, d, h)
                 PROVE  Turn(s, d, g) <= Turn(s, d, h)
      OBVIOUS
    <3>1. T[h] \in S /\ T[h] = Turn(s, d, h) /\ x = Turn(s, d, g)
      BY <2>4
    <3>2. ~ (<<Turn(s, d, h), Turn(s, d, g)>> \in Below)
      BY <2>3, <3>1
    <3> QED
      BY <2>1, <3>2
  <2>6. NextQueue(s, d) = CHOOSE g_1 \in Queues :
          /\ MaySend(s, d, g_1)
          /\ \A h \in Queues : MaySend(s, d, h) => Turn(s, d, g_1) <= Turn(s, d, h)
    BY <1>2 DEF NextQueue
  <2> DEFINE First(g_1) == /\ MaySend(s, d, g_1)
                           /\ \A h \in Queues : MaySend(s, d, h) => Turn(s, d, g_1) <= Turn(s, d, h)
  <2>7. g \in Queues /\ First(g)
    BY <2>4, <2>5
  <2>8. NextQueue(s, d) = CHOOSE g_1 \in Queues : First(g_1)
    BY <2>6
  <2> HIDE DEF First
  <2>9. NextQueue(s, d) \in Queues /\ First(NextQueue(s, d))
    BY <2>7, <2>8, Zenon
  <2> QED
    BY <2>9 DEF First
<1> QED
  BY <1>1, <1>2

\* What a step may be for the MMU: nothing, or the departure of the packet that is
\* first in a queue of port d, which was ready and may send it.
Departs(s, r, d, p) ==
  /\ p \in HeldBy(s) /\ p.outDev = d
  /\ Ready(s, d) /\ MaySend(s, d, p.qIndex) /\ p = Head(s.m_queue[d][p.qIndex])
  /\ r.mmu = Released(s.mmu, p) /\ HeldBy(r) = HeldBy(s) \ {p}

Stays(s, r) == r.mmu = s.mmu /\ HeldBy(r) = HeldBy(s)

\* No port starts to send a packet of a priority that is paused in the state t.
Respects(s, r, t) ==
  \A e \in Ports :
    \/ r.m_currentPkt[e] = s.m_currentPkt[e]
    \/ r.m_currentPkt[e] \notin DataPackets
    \/ ~t.m_paused[e][r.m_currentPkt[e].qIndex]

Transmitted(s, r, d) ==
  /\ Good(r)
  /\ r.m_paused = s.m_paused /\ r.m_linkUp = s.m_linkUp
  /\ Streams(r, r.mmu.paused)
  /\ Conserving(s, {d}) => Conserving(r, {})
  /\ Respects(s, r, s)
  /\ Stays(s, r) \/ \E p \in DataPackets : Departs(s, r, d, p)

\* A control frame starts.
LEMMA ControlStarts ==
  ASSUME NEW s, Good(s), Streams(s, s.mmu.paused), NEW d \in Ports,
         Ready(s, d), MaySend(s, d, 0)
  PROVE  Transmitted(s, TransmitFrom(s, d, 0), d)
<1> DEFINE r == TransmitFrom(s, d, 0)
<1>1. s.m_queue[d][0] # <<>> /\ s.m_currentPkt[d] = NoFrame
  BY DEF MaySend, Ready
<1>2. Taken(s, r, d, 0) /\ Head(s.m_queue[d][0]) \in Frames
  BY <1>1, TransmitFields, FrameFacts DEF Good
<1> HIDE DEF r
<1>3. Good(r) /\ HeldBy(r) = HeldBy(s) /\ Head(s.m_queue[d][0]) \notin DataPackets
  BY <1>1, <1>2, TakeControl
<1>4. r.mmu = s.mmu /\ Streams(r, r.mmu.paused)
  <2>1. r.mmu = s.mmu
    BY <1>2 DEF Taken
  <2>2. Streams(r, s.mmu.paused)
    BY <1>1, <1>2, TakeStreams, FrameFacts
  <2> QED
    BY <2>1, <2>2
<1>5. ASSUME Conserving(s, {d})
      PROVE  Conserving(r, {})
  <2>1. ~Ready(r, d)
    BY <1>2, FrameFacts DEF Taken, Ready
  <2>2. ASSUME NEW e \in Ports \ {d}, Ready(r, e), NEW q \in Queues
        PROVE  ~MaySend(r, e, q)
    <3>1. Ready(s, e)
      BY <1>2, <2>2 DEF Taken, Ready
    <3>2. ~MaySend(s, e, q)
      BY <1>5, <2>2, <3>1 DEF Conserving
    <3> QED
      BY <1>2, <2>2, <3>2 DEF Taken, MaySend
  <2> QED
    BY <2>1, <2>2 DEF Conserving
<1>6. Respects(s, r, s)
  BY <1>2, <1>3 DEF Taken, Respects
<1>7. r.m_paused = s.m_paused /\ r.m_linkUp = s.m_linkUp
  BY <1>2 DEF Taken
<1>8. Transmitted(s, r, d)
  BY <1>3, <1>4, <1>5, <1>6, <1>7 DEF Transmitted, Stays
<1> QED
  BY <1>8 DEF r

\* A packet starts, and the MMU is told.
LEMMA DataStarts ==
  ASSUME NEW s, Good(s), Streams(s, s.mmu.paused), NEW d \in Ports, NEW q \in Queues \ {0},
         Ready(s, d), MaySend(s, d, q)
  PROVE  Transmitted(s, SwitchNotifyDequeue(TransmitFrom(s, d, q), Head(s.m_queue[d][q])), d)
<1> DEFINE t == TransmitFrom(s, d, q)
           p == Head(s.m_queue[d][q])
           r == SwitchNotifyDequeue(t, p)
<1>1. s.m_queue[d][q] # <<>> /\ s.m_currentPkt[d] = NoFrame /\ ~s.m_paused[d][q]
  BY DEF MaySend, Ready
<1>2. Taken(s, t, d, q) /\ p \in Frames
  BY <1>1, TransmitFields DEF Good
<1> HIDE DEF t
<1>3. Good(t) /\ p \in HeldBy(s) /\ Out(p) = <<d, q>> /\ HeldBy(t) = HeldBy(s) \ {p}
  BY <1>1, <1>2, TakeData
<1>4. /\ t.mmu = s.mmu /\ t.m_paused = s.m_paused /\ t.m_linkUp = s.m_linkUp
      /\ t.m_currentPkt[d] = p
      /\ \A e \in Ports \ {d} : /\ t.m_currentPkt[e] = s.m_currentPkt[e]
                                /\ t.m_queue[e] = s.m_queue[e]
  BY <1>2 DEF Taken
<1>5. Streams(t, t.mmu.paused)
  <2>1. Streams(t, s.mmu.paused)
    BY <1>1, <1>2, TakeStreams
  <2> QED
    BY <1>4, <2>1
<1>head. p = Head(s.m_queue[d][q])
  OBVIOUS
<1> HIDE DEF p
<1>6. p \in DataPackets /\ p.outDev = d /\ p.qIndex = q /\ p.inDev \in Ports \ {d}
  <2>1. p \in DataPackets
    BY <1>3 DEF HeldBy
  <2>2. p.outDev = d /\ p.qIndex = q
    BY <1>3 DEF Out
  <2>3. p.inDev \in Ports /\ p.inDev # p.outDev
    BY <2>1, FrameFacts DEF DataPackets
  <2> QED
    BY <2>1, <2>2, <2>3
<1>7. Notified(t, r, Released(t.mmu, p), p.inDev)
  BY <1>3, <1>5, <1>6, NotifyGood
<1> HIDE DEF r
<1>8. /\ Good(r) /\ r.mmu = Released(s.mmu, p) /\ HeldBy(r) = HeldBy(t)
      /\ Untouched(t, r, p.inDev)
      /\ Streams(r, r.mmu.paused)
  BY <1>4, <1>7 DEF Notified
<1>9. /\ r.m_paused = s.m_paused /\ r.m_linkUp = s.m_linkUp
      /\ r.m_currentPkt[d] = p
  BY <1>4, <1>6, <1>8 DEF Untouched
<1>10. ASSUME Conserving(s, {d})
       PROVE  Conserving(r, {})
  <2>1. ~Ready(r, d)
    BY <1>6, <1>9, FrameFacts DEF Ready, DataPackets, Frames
  <2>2. ASSUME NEW e \in Ports \ {d}, Ready(r, e), NEW g \in Queues
        PROVE  ~MaySend(r, e, g)
    <3>1. Ready(t, e) /\ r.m_queue[e] = t.m_queue[e]
      BY <1>8, <2>2 DEF Untouched, Ready
    <3>2. Ready(s, e) /\ r.m_queue[e] = s.m_queue[e]
      BY <1>4, <2>2, <3>1 DEF Ready
    <3>3. ~MaySend(s, e, g)
      BY <1>10, <2>2, <3>2 DEF Conserving
    <3> QED
      BY <1>9, <3>2, <3>3 DEF MaySend
  <2> QED
    BY <2>1, <2>2 DEF Conserving
<1>11. Respects(s, r, s)
  BY <1>1, <1>4, <1>6, <1>8, <1>9 DEF Respects, Untouched
<1>12. Departs(s, r, d, p)
  BY <1>3, <1>6, <1>8, <1>head DEF Departs
<1>13. Transmitted(s, r, d)
  BY <1>6, <1>8, <1>9, <1>10, <1>11, <1>12 DEF Transmitted
<1> QED
  BY <1>13 DEF r, p, t

\* DequeueAndTransmit.
LEMMA TransmitGood ==
  ASSUME NEW s, Good(s), Streams(s, s.mmu.paused), NEW d \in Ports
  PROVE  Transmitted(s, DequeueAndTransmit(s, d), d)
<1>1. CASE ~Ready(s, d) \/ \A q \in Queues : ~MaySend(s, d, q)
  <2>1. DequeueAndTransmit(s, d) = s
    BY <1>1 DEF DequeueAndTransmit
  <2>2. Conserving(s, {d}) => Conserving(s, {})
    BY <1>1 DEF Conserving
  <2>3. Transmitted(s, s, d)
    BY <2>2 DEF Transmitted, Stays, Respects
  <2> QED
    BY <2>1, <2>3
<1>2. CASE Ready(s, d) /\ \E q \in Queues : MaySend(s, d, q)
  <2> DEFINE q == NextQueue(s, d)
             t == TransmitFrom(s, d, q)
  <2>1. q \in Queues /\ MaySend(s, d, q)
    BY <1>2, NextQueueSends DEF Good
  <2>2. DequeueAndTransmit(s, d)
          = IF q = 0 THEN t ELSE SwitchNotifyDequeue(t, Head(s.m_queue[d][q]))
    BY <1>2 DEF DequeueAndTransmit
  <2> HIDE DEF q
  <2>3. CASE q = 0
    <3>1. Transmitted(s, t, d)
      BY <1>2, <2>1, <2>3, ControlStarts
    <3> QED
      BY <2>2, <2>3, <3>1
  <2>4. CASE q # 0
    <3>1. Transmitted(s, SwitchNotifyDequeue(t, Head(s.m_queue[d][q])), d)
      BY <1>2, <2>1, <2>4, DataStarts
    <3> QED
      BY <2>2, <2>4, <3>1
  <2> QED
    BY <2>3, <2>4
<1> QED
  BY <1>1, <1>2

-------------------------------------------------------------------------------
(* Events *)

\* The packets in the queues of one port.
LEMMA QueuedMember ==
  ASSUME NEW s, Good(s), NEW d \in Ports, NEW p \in DataPackets
  PROVE  p \in Queued(s, d) <=> p \in HeldBy(s) /\ p.outDev = d
<1>1. ASSUME p \in Queued(s, d)
      PROVE  p \in HeldBy(s) /\ p.outDev = d
  <2>1. PICK q \in Queues : p \in ToSet(s.m_queue[d][q])
    BY <1>1 DEF Queued
  <2>2. PICK k \in DOMAIN s.m_queue[d][q] : s.m_queue[d][q][k] = p
    BY <2>1 DEF ToSet
  <2>3. GoodQueue(s.m_queue[d][q], d, q)
    BY DEF Good, GoodQueues
  <2>4. Out(p) = <<d, q>>
    BY <2>2, <2>3 DEF GoodQueue
  <2> QED
    BY <1>1, <2>4 DEF HeldBy, Out
<1>2. ASSUME p \in HeldBy(s), p.outDev = d
      PROVE  p \in Queued(s, d)
  <2> DEFINE Q == s.m_queue[p.outDev][p.qIndex]
  <2>1. \E k \in DOMAIN Q : Q[k] = p
    BY <1>2, HeldMember
  <2>2. p \in ToSet(Q)
    BY <2>1 DEF ToSet
  <2>3. p.qIndex \in Queues
    BY FrameFacts DEF DataPackets
  <2> QED
    BY <1>2, <2>2, <2>3 DEF Queued
<1> QED
  BY <1>1, <1>2

\* A control frame arrives and is switched.
LEMMA ReceiveControl ==
  ASSUME NEW s, Good(s), Streams(s, s.mmu.paused), Conserving(s, {}),
         NEW p \in Packets \ DataPackets
  PROVE  LET r == SendToDev(s, p)
         IN  /\ Good(r) /\ Streams(r, r.mmu.paused) /\ Conserving(r, {})
             /\ Respects(s, r, r)
             /\ \/ Stays(s, r)
                \/ \E x \in HeldBy(s) : /\ r.mmu = Released(s.mmu, x)
                                        /\ HeldBy(r) = HeldBy(s) \ {x}
<1> DEFINE d == p.outDev
           t == Enqueue(s, d, 0, p)
           r == SendToDev(s, p)
<1>1. p.qIndex = 0 /\ d \in Ports /\ p \in Frames \ DataPackets /\ 0 \in Queues
  BY FrameFacts DEF DataPackets
<1>2. r = DequeueAndTransmit(t, d)
  BY <1>1 DEF SendToDev, SwitchSend
<1> HIDE DEF d, r
<1>3. Enqueued(s, t, d, 0, p)
  BY <1>1, EnqueueFields DEF Good
<1> HIDE DEF t
<1>4. Good(t) /\ HeldBy(t) = HeldBy(s)
  BY <1>1, <1>3, EnqueueControl
<1>5. Streams(t, t.mmu.paused)
  <2>1. Streams(t, s.mmu.paused)
    BY <1>1, <1>3, EnqueueStreams DEF Good
  <2> QED
    BY <1>3, <2>1 DEF Enqueued
<1>6. Transmitted(t, r, d)
  BY <1>1, <1>2, <1>4, <1>5, TransmitGood
<1>7. Conserving(t, {d})
  BY <1>3 DEF Conserving, Enqueued, Ready, MaySend
<1>8. Respects(s, r, r)
  BY <1>3, <1>6 DEF Respects, Transmitted, Enqueued
<1>9. \/ Stays(s, r)
      \/ \E x \in HeldBy(s) : r.mmu = Released(s.mmu, x) /\ HeldBy(r) = HeldBy(s) \ {x}
  <2>1. t.mmu = s.mmu
    BY <1>3 DEF Enqueued
  <2>2. CASE Stays(t, r)
    BY <1>4, <2>1, <2>2 DEF Stays
  <2>3. CASE \E x \in DataPackets : Departs(t, r, d, x)
    <3>1. PICK x \in DataPackets : Departs(t, r, d, x)
      BY <2>3
    <3>2. x \in HeldBy(s) /\ r.mmu = Released(s.mmu, x) /\ HeldBy(r) = HeldBy(s) \ {x}
      BY <1>4, <2>1, <3>1 DEF Departs
    <3> QED
      BY <3>2
  <2> QED
    BY <1>6, <2>2, <2>3 DEF Transmitted
<1> QED
  BY <1>6, <1>7, <1>8, <1>9 DEF Transmitted, r

\* A packet arrives and is admitted.  If its port is idle then it leaves at once,
\* as there is nothing else that the port could have sent.
LEMMA ReceiveAdmitted ==
  ASSUME NEW s, Good(s), Streams(s, s.mmu.paused), Conserving(s, {}),
         NEW p \in DataPackets, p \notin HeldBy(s), Admits(s.mmu, p)
  PROVE  LET r == SendToDev(s, p)
         IN  /\ Good(r) /\ Streams(r, r.mmu.paused) /\ Conserving(r, {})
             /\ Respects(s, r, r)
             /\ \/ r.mmu = Admitted(s.mmu, p) /\ HeldBy(r) = HeldBy(s) \cup {p}
                \/ r.mmu = Released(Admitted(s.mmu, p), p) /\ HeldBy(r) = HeldBy(s)
<1> DEFINE d == p.outDev
           q == p.qIndex
           a == Accept(s, p)
           t == Enqueue(a, d, q, p)
           r == SendToDev(s, p)
<1>1. /\ q \in Queues \ {0} /\ d \in Ports /\ p.inDev \in Ports \ {d}
      /\ p \in Packets /\ p \in Frames
  BY FrameFacts DEF DataPackets
<1>2. r = DequeueAndTransmit(t, d)
  BY <1>1 DEF SendToDev, SwitchSend
<1>3. Notified(s, a, Admitted(s.mmu, p), p.inDev)
  BY AcceptGood
<1> HIDE DEF a, r
<1>4. /\ Good(a) /\ a.mmu = Admitted(s.mmu, p) /\ HeldBy(a) = HeldBy(s)
      /\ Untouched(s, a, p.inDev) /\ Streams(a, a.mmu.paused)
  BY <1>3 DEF Notified
<1>5. Enqueued(a, t, d, q, p)
  BY <1>1, <1>4, EnqueueFields DEF Good
<1> HIDE DEF t
<1>6. Good(t) /\ HeldBy(t) = HeldBy(s) \cup {p}
  <2>1. p \notin HeldBy(a)
    BY <1>4
  <2> QED
    BY <1>4, <1>5, <2>1, EnqueueData
<1>7. Streams(t, t.mmu.paused) /\ t.mmu = Admitted(s.mmu, p)
  <2>1. Streams(t, a.mmu.paused)
    BY <1>1, <1>4, <1>5, EnqueueStreams DEF Good
  <2> QED
    BY <1>4, <1>5, <2>1 DEF Enqueued
<1> HIDE DEF d, q
<1>8. Transmitted(t, r, d)
  BY <1>1, <1>2, <1>6, <1>7, TransmitGood
<1>9. /\ t.m_paused = s.m_paused /\ t.m_linkUp = s.m_linkUp
      /\ t.m_currentPkt = a.m_currentPkt
      /\ t.m_currentPkt[d] = s.m_currentPkt[d]
      /\ \A e \in Ports \ {d} : t.m_queue[e] = a.m_queue[e]
      /\ t.m_queue[d][q] = Append(s.m_queue[d][q], p)
      /\ \A g \in Queues \ {q} : t.m_queue[d][g] = s.m_queue[d][g]
  <2>1. d \in Ports \ {p.inDev}
    BY <1>1
  <2>2. /\ a.m_queue[d] = s.m_queue[d] /\ a.m_currentPkt[d] = s.m_currentPkt[d]
        /\ a.m_paused = s.m_paused /\ a.m_linkUp = s.m_linkUp
    BY <1>4, <2>1 DEF Untouched
  <2>3. /\ t.m_paused = a.m_paused /\ t.m_linkUp = a.m_linkUp
        /\ t.m_currentPkt = a.m_currentPkt
        /\ \A e \in Ports \ {d} : t.m_queue[e] = a.m_queue[e]
        /\ t.m_queue[d][q] = Append(a.m_queue[d][q], p)
        /\ \A g \in Queues \ {q} : t.m_queue[d][g] = a.m_queue[d][g]
    BY <1>1, <1>5 DEF Enqueued
  <2> QED
    BY <2>2, <2>3
<1>10. Conserving(t, {d})
  <2> SUFFICES ASSUME NEW e \in Ports \ {d}, Ready(t, e), NEW g \in Queues
               PROVE  ~MaySend(t, e, g)
    BY DEF Conserving
  <2>1. Ready(a, e)
    BY <1>4, <1>9 DEF Ready, Untouched
  <2>2. Ready(s, e) /\ t.m_queue[e] = s.m_queue[e]
    <3>1. Ready(s, e) /\ a.m_queue[e] = s.m_queue[e]
      BY <1>4, <2>1 DEF Untouched, Ready
    <3> QED
      BY <1>9, <3>1
  <2>3. ~MaySend(s, e, g)
    BY <2>2 DEF Conserving
  <2> QED
    BY <1>9, <2>2, <2>3 DEF MaySend
<1>11. Respects(s, r, r)
  <2>1. Respects(s, a, s)
    BY <1>4 DEF Respects, Untouched
  <2>2. Respects(t, r, t) /\ r.m_paused = t.m_paused
    BY <1>8 DEF Transmitted
  <2> SUFFICES ASSUME NEW e \in Ports, r.m_currentPkt[e] \in DataPackets,
                      r.m_currentPkt[e] # s.m_currentPkt[e]
               PROVE  ~r.m_paused[e][r.m_currentPkt[e].qIndex]
    BY DEF Respects
  <2>3. CASE r.m_currentPkt[e] = t.m_currentPkt[e]
    <3>1. a.m_currentPkt[e] = s.m_currentPkt[e] \/ a.m_currentPkt[e] \notin DataPackets
      BY <1>4 DEF Untouched
    <3> QED
      BY <1>9, <2>3, <3>1
  <2>4. CASE r.m_currentPkt[e] # t.m_currentPkt[e]
    BY <2>2, <2>4 DEF Respects
  <2> QED
    BY <2>3, <2>4
<1>12. \/ r.mmu = Admitted(s.mmu, p) /\ HeldBy(r) = HeldBy(s) \cup {p}
       \/ r.mmu = Released(Admitted(s.mmu, p), p) /\ HeldBy(r) = HeldBy(s)
  <2>1. CASE Stays(t, r)
    BY <1>6, <1>7, <2>1 DEF Stays
  <2>2. CASE \E x \in DataPackets : Departs(t, r, d, x)
    <3>1. PICK x \in DataPackets : Departs(t, r, d, x)
      BY <2>2
    <3>2. /\ x.qIndex \in Queues /\ Ready(t, d) /\ MaySend(t, d, x.qIndex)
          /\ x = Head(t.m_queue[d][x.qIndex])
          /\ r.mmu = Released(t.mmu, x) /\ HeldBy(r) = HeldBy(t) \ {x}
      BY <3>1, FrameFacts DEF Departs, DataPackets
    <3>3. \A g \in Queues : ~MaySend(s, d, g)
      <4>1. Ready(s, d)
        BY <1>9, <3>2 DEF Ready
      <4> QED
        BY <1>1, <4>1 DEF Conserving
    <3>4. x.qIndex = q
      BY <1>9, <3>2, <3>3 DEF MaySend
    <3>5. s.m_queue[d][q] = <<>>
      BY <1>1, <1>9, <3>2, <3>3, <3>4 DEF MaySend
    <3>6. x = p
      <4>1. x = Head(Append(<<>>, p))
        BY <1>9, <3>2, <3>4, <3>5
      <4> QED
        BY <4>1
    <3>7. HeldBy(r) = HeldBy(s)
      BY <1>6, <3>2, <3>6
    <3> QED
      BY <1>7, <3>2, <3>6, <3>7
  <2> QED
    BY <1>8, <2>1, <2>2 DEF Transmitted
<1> QED
  BY <1>8, <1>10, <1>11, <1>12 DEF Transmitted, r

\* A packet arrives and is dropped.
LEMMA ReceiveDropped ==
  ASSUME NEW s, Good(s), Streams(s, s.mmu.paused), Conserving(s, {}),
         NEW p \in DataPackets, ~Admits(s.mmu, p)
  PROVE  LET r == SendToDev(s, p)
         IN  /\ Good(r) /\ Streams(r, r.mmu.paused) /\ Conserving(r, {})
             /\ Respects(s, r, r)
             /\ r.mmu = AfterChecks(s.mmu, p) /\ HeldBy(r) = HeldBy(s)
<1> DEFINE m == AfterChecks(s.mmu, p)
           r == SendToDev(s, p)
<1>1. r = [s EXCEPT !.mmu = m]
  BY DEF SendToDev, DataPackets
<1>2. PauseType(m) /\ m.paused = s.mmu.paused
  BY ChecksPause DEF Good, NodeType
<1>3. p.inDev \in Ports
  BY FrameFacts DEF DataPackets
<1> HIDE DEF m, r
<1>4. Notified(s, r, m, p.inDev)
  BY <1>1, <1>2, <1>3, TellNothing
<1>5. /\ Good(r) /\ r.mmu = m /\ HeldBy(r) = HeldBy(s) /\ Untouched(s, r, p.inDev)
      /\ Streams(r, r.mmu.paused)
  BY <1>4 DEF Notified
<1>6. Conserving(r, {})
  BY <1>5 DEF Untouched, Conserving, Ready, MaySend
<1>7. Respects(s, r, r)
  BY <1>5 DEF Untouched, Respects
<1> QED
  BY <1>5, <1>6, <1>7 DEF m, r

\* The peer pauses a queue.
LEMMA PauseGood ==
  ASSUME NEW s, Good(s), Streams(s, s.mmu.paused), Conserving(s, {}),
         NEW d \in Ports, NEW q \in Queues, NEW b \in BOOLEAN
  PROVE  LET t == [s EXCEPT !.m_paused[d][q] = b]
         IN  /\ Good(t) /\ Streams(t, t.mmu.paused)
             /\ Conserving(t, {d}) /\ (b => Conserving(t, {}))
             /\ t.mmu = s.mmu /\ HeldBy(t) = HeldBy(s)
             /\ t.m_currentPkt = s.m_currentPkt
<1> DEFINE t == [s EXCEPT !.m_paused[d][q] = b]
<1>1. /\ t.mmu = s.mmu /\ t.m_queue = s.m_queue /\ t.m_rrlast = s.m_rrlast
      /\ t.m_currentPkt = s.m_currentPkt /\ t.m_linkUp = s.m_linkUp
      /\ t.m_paused = [s.m_paused EXCEPT ![d] = [@ EXCEPT ![q] = b]]
      /\ DOMAIN t = NodeFields
  BY DEF Good, NodeType, NodeFields
<1> HIDE DEF t
<1>2. /\ t.m_paused \in [Ports -> [Queues -> BOOLEAN]]
      /\ \A e \in Ports, g \in Queues : t.m_paused[e][g] = IF e = d /\ g = q THEN b
                                                           ELSE s.m_paused[e][g]
  BY <1>1 DEF Good, NodeType
<1>3. Good(t)
  BY <1>1, <1>2 DEF Good, NodeType, GoodQueues
<1>4. HeldBy(t) = HeldBy(s)
  BY <1>1 DEF HeldBy, Queued
<1>5. Streams(t, t.mmu.paused)
  BY <1>1 DEF Streams, Stream
<1>6. Conserving(t, {d})
  BY <1>1, <1>2 DEF Conserving, Ready, MaySend
<1>7. ASSUME b
      PROVE  Conserving(t, {})
  <2> SUFFICES ASSUME NEW e \in Ports, Ready(t, e), NEW g \in Queues
               PROVE  ~MaySend(t, e, g)
    BY DEF Conserving
  <2>1. Ready(s, e) /\ t.m_queue = s.m_queue
    BY <1>1 DEF Ready
  <2>2. ~MaySend(s, e, g)
    BY <2>1 DEF Conserving
  <2>3. ~ t.m_paused[e][g] => ~ s.m_paused[e][g]
    BY <1>2, <1>7
  <2> QED
    BY <2>1, <2>2, <2>3 DEF MaySend
<1> QED
  BY <1>1, <1>3, <1>4, <1>5, <1>6, <1>7 DEF t

\* A transmission ends.
LEMMA CompleteGood ==
  ASSUME NEW s, Good(s), Streams(s, s.mmu.paused), Conserving(s, {}), NEW d \in Ports
  PROVE  LET t == [s EXCEPT !.m_currentPkt[d] = NoFrame]
         IN  /\ Good(t) /\ Streams(t, t.mmu.paused) /\ Conserving(t, {d})
             /\ t.mmu = s.mmu /\ HeldBy(t) = HeldBy(s)
             /\ t.m_paused = s.m_paused /\ Respects(s, t, s)
<1> DEFINE t == [s EXCEPT !.m_currentPkt[d] = NoFrame]
           S == Frames \cup {NoFrame}
<1>1. /\ t.mmu = s.mmu /\ t.m_queue = s.m_queue /\ t.m_rrlast = s.m_rrlast
      /\ t.m_paused = s.m_paused /\ t.m_linkUp = s.m_linkUp
      /\ t.m_currentPkt = [s.m_currentPkt EXCEPT ![d] = NoFrame]
      /\ DOMAIN t = NodeFields
  BY DEF Good, NodeType, NodeFields
<1> HIDE DEF t
<1>2. /\ t.m_currentPkt \in [Ports -> S] /\ t.m_currentPkt[d] = NoFrame
      /\ \A e \in Ports \ {d} : t.m_currentPkt[e] = s.m_currentPkt[e]
  BY <1>1 DEF Good, NodeType
<1>3. Good(t)
  BY <1>1, <1>2 DEF Good, NodeType, GoodQueues
<1>4. HeldBy(t) = HeldBy(s)
  BY <1>1 DEF HeldBy, Queued
<1>5. Streams(t, t.mmu.paused)
  <2> SUFFICES ASSUME NEW e \in Ports, NEW q \in Queues, t.m_linkUp[e]
               PROVE  Faithful(Stream(t, e), q, s.mmu.paused[<<e, q>>])
    BY <1>1 DEF Streams
  <2> DEFINE b == s.mmu.paused[<<e, q>>]
             Q == s.m_queue[e][0]
             x == s.m_currentPkt[e]
  <2>1. Faithful(<<x>> \o Q, q, b)
    BY <1>1 DEF Streams, Stream
  <2>2. Q \in Seq(S) /\ x \in S /\ NoFrame \in S /\ ~ IsPfc(NoFrame, q)
    BY StreamParts, NoPfc DEF Good
  <2> HIDE DEF S, Q, x, b
  <2>3. Faithful(Q, q, b)
    BY <2>1, <2>2, FaithfulTail
  <2>4. Faithful(<<NoFrame>> \o Q, q, b)
    BY <2>2, <2>3, FaithfulPrepend
  <2>5. CASE e = d
    BY <1>1, <1>2, <2>4, <2>5 DEF Stream, Q, b
  <2>6. CASE e # d
    BY <1>1, <1>2, <2>1, <2>6 DEF Stream, Q, x, b
  <2> QED
    BY <2>5, <2>6
<1>6. Conserving(t, {d})
  BY <1>1, <1>2 DEF Conserving, Ready, MaySend
<1>7. Respects(s, t, s)
  <2>1. NoFrame \notin DataPackets
    BY FrameFacts DEF DataPackets
  <2> QED
    BY <1>2, <2>1 DEF Respects
<1> QED
  BY <1>1, <1>3, <1>4, <1>5, <1>6, <1>7 DEF t

\* A link fails, and what is queued for it is thrown away.
LEMMA DownGood ==
  ASSUME NEW s, Good(s), Streams(s, s.mmu.paused), Conserving(s, {}), NEW d \in Ports
  PROVE  LET t == [s EXCEPT !.m_linkUp[d] = FALSE,
                            !.m_paused[d] = [q \in Queues |-> FALSE],
                            !.m_queue[d] = [q \in Queues |-> <<>>]]
         IN  /\ Good(t) /\ Streams(t, t.mmu.paused) /\ Conserving(t, {})
             /\ t.mmu = s.mmu /\ t.m_currentPkt = s.m_currentPkt
             /\ HeldBy(t) = HeldBy(s) \ Queued(s, d)
<1> DEFINE none == [q \in Queues |-> <<>>]
           free == [q \in Queues |-> FALSE]
           t == [s EXCEPT !.m_linkUp[d] = FALSE, !.m_paused[d] = free, !.m_queue[d] = none]
<1>1. /\ none \in [Queues -> Seq(Frames)] /\ free \in [Queues -> BOOLEAN]
      /\ \A q \in Queues : none[q] = <<>>
  OBVIOUS
<1> HIDE DEF none, free
<1>2. /\ t.mmu = s.mmu /\ t.m_rrlast = s.m_rrlast /\ t.m_currentPkt = s.m_currentPkt
      /\ t.m_queue = [s.m_queue EXCEPT ![d] = none]
      /\ t.m_paused = [s.m_paused EXCEPT ![d] = free]
      /\ t.m_linkUp = [s.m_linkUp EXCEPT ![d] = FALSE]
      /\ DOMAIN t = NodeFields
  BY DEF Good, NodeType, NodeFields
<1> HIDE DEF t
<1>3. /\ t.m_queue \in [Ports -> [Queues -> Seq(Frames)]]
      /\ t.m_paused \in [Ports -> [Queues -> BOOLEAN]]
      /\ t.m_linkUp \in [Ports -> BOOLEAN]
      /\ ~t.m_linkUp[d] /\ t.m_queue[d] = none
      /\ \A e \in Ports \ {d} : /\ t.m_queue[e] = s.m_queue[e]
                                /\ t.m_paused[e] = s.m_paused[e]
                                /\ t.m_linkUp[e] = s.m_linkUp[e]
  BY <1>1, <1>2 DEF Good, NodeType
<1>4. Good(t)
  <2>1. NodeType(t)
    BY <1>2, <1>3 DEF Good, NodeType
  <2>2. \A q \in Queues : GoodQueue(<<>>, d, q)
    BY DEF GoodQueue
  <2>3. GoodQueues(t)
    BY <1>1, <1>3, <2>2 DEF Good, GoodQueues
  <2> QED
    BY <2>1, <2>3 DEF Good
<1>5. Streams(t, t.mmu.paused)
  BY <1>2, <1>3 DEF Streams, Stream
<1>6. Conserving(t, {})
  BY <1>2, <1>3 DEF Conserving, Ready, MaySend
<1>7. ASSUME NEW p \in DataPackets
      PROVE  p \in HeldBy(t) <=> p \in HeldBy(s) \ Queued(s, d)
  <2> DEFINE There(Q) == \E k \in DOMAIN Q : Q[k] = p
             e == p.outDev
             g == p.qIndex
  <2>1. p \in HeldBy(t) <=> There(t.m_queue[e][g])
    BY <1>4, HeldMember
  <2>2. p \in HeldBy(s) <=> There(s.m_queue[e][g])
    BY HeldMember
  <2>3. e \in Ports /\ g \in Queues
    BY FrameFacts DEF DataPackets
  <2>4. ~ There(<<>>)
    OBVIOUS
  <2>5. p \in Queued(s, d) <=> p \in HeldBy(s) /\ e = d
    BY QueuedMember
  <2> HIDE DEF There
  <2>6. CASE e = d
    <3>1. t.m_queue[e][g] = <<>>
      BY <1>1, <1>3, <2>3, <2>6
    <3> QED
      BY <2>1, <2>4, <2>5, <2>6, <3>1
  <2>7. CASE e # d
    <3>1. t.m_queue[e][g] = s.m_queue[e][g]
      BY <1>3, <2>3, <2>7
    <3> QED
      BY <2>1, <2>2, <2>5, <2>7, <3>1
  <2> QED
    BY <2>6, <2>7
<1>8. HeldBy(t) = HeldBy(s) \ Queued(s, d)
  <2>1. HeldBy(t) \subseteq DataPackets /\ HeldBy(s) \subseteq DataPackets
    BY DEF HeldBy
  <2> QED
    BY <1>7, <2>1
<1> QED
  BY <1>2, <1>4, <1>5, <1>6, <1>8 DEF t, none, free

-------------------------------------------------------------------------------
(* The invariant *)

NodeInv ==
  /\ Good(sw)
  /\ Streams(sw, sw.mmu.paused)
  /\ Conserving(sw, {})
  /\ HeldBy(sw) \cap discarded = {}

\* What a step means to the buffer.
Occupied == HeldBy(sw) \cup discarded

BufferMove(p) ==
  \/ /\ p \notin Occupied /\ Admits(sw.mmu, p)
     /\ sw'.mmu = Admitted(sw.mmu, p) /\ Occupied' = Occupied \cup {p}
  \/ /\ p \notin Occupied /\ ~Admits(sw.mmu, p)
     /\ sw'.mmu = AfterChecks(sw.mmu, p) /\ Occupied' = Occupied
  \/ /\ p \in Occupied
     /\ sw'.mmu = Released(sw.mmu, p) /\ Occupied' = Occupied \ {p}
  \/ /\ p \notin Occupied /\ Admits(sw.mmu, p)
     /\ sw'.mmu = Released(Admitted(sw.mmu, p), p) /\ Occupied' = Occupied

BufferMoves ==
  UNCHANGED <<sw.mmu, Occupied>> \/ \E p \in DataPackets : BufferMove(p)

\* The new state, what it may send, and what the step means to the buffer.
StepGood == NodeInv' /\ Respects(sw, sw', sw') /\ BufferMoves

\* A switch starts empty.
LEMMA InitGood == Init => NodeInv /\ Occupied = {} /\ sw.mmu = NewMmu
<1> SUFFICES ASSUME Init
             PROVE  NodeInv /\ Occupied = {} /\ sw.mmu = NewMmu
  OBVIOUS
<1>1. /\ DOMAIN sw = NodeFields
      /\ sw.mmu = NewMmu
      /\ sw.m_queue = [d \in Ports |-> [q \in Queues |-> <<>>]]
      /\ sw.m_rrlast = [d \in Ports |-> 0]
      /\ sw.m_currentPkt = [d \in Ports |-> NoFrame]
      /\ sw.m_paused = [d \in Ports |-> [q \in Queues |-> FALSE]]
      /\ sw.m_linkUp = [d \in Ports |-> TRUE]
  BY DEF Init, NewNode, NodeFields
<1>2. NodeType(sw)
  <2>1. PauseType(NewMmu)
    BY DEF PauseType, NewMmu
  <2>2. [d \in Ports |-> [q \in Queues |-> <<>>]] \in [Ports -> [Queues -> Seq(Frames)]]
    OBVIOUS
  <2> QED
    BY <1>1, <2>1, <2>2, FrameFacts DEF NodeType
<1>3. \A d \in Ports, q \in Queues : sw.m_queue[d][q] = <<>>
  BY <1>1
<1>4. Good(sw)
  <2>1. \A d \in Ports, q \in Queues : GoodQueue(<<>>, d, q)
    BY DEF GoodQueue
  <2> QED
    BY <1>2, <1>3, <2>1 DEF Good, GoodQueues
<1>5. Streams(sw, sw.mmu.paused)
  <2> SUFFICES ASSUME NEW d \in Ports, NEW q \in Queues
               PROVE  Faithful(Stream(sw, d), q, sw.mmu.paused[<<d, q>>])
    BY DEF Streams
  <2>1. Stream(sw, d) = <<NoFrame>> \o <<>>
    BY <1>1, <1>3, FrameFacts DEF Stream
  <2>2. Stream(sw, d) = <<NoFrame>>
    BY <2>1
  <2>3. PfcAt(Stream(sw, d), q) = {}
    BY <2>2, NoPfc DEF PfcAt, IsPfc
  <2> QED
    BY <2>3 DEF Faithful
<1>6. Conserving(sw, {})
  BY <1>3 DEF Conserving, MaySend
<1>7. HeldBy(sw) = {}
  <2>1. \A d \in Ports, q \in Queues : ToSet(sw.m_queue[d][q]) = {}
    BY <1>3 DEF ToSet
  <2> QED
    BY <2>1 DEF HeldBy, Queued
<1>8. discarded = {}
  BY DEF Init
<1> QED
  BY <1>1, <1>4, <1>5, <1>6, <1>7, <1>8 DEF NodeInv, Occupied

\* A packet that has just been sent is not in the switch.
LEMMA ReceiveStep ==
  ASSUME NodeInv, NEW p \in Packets, Receive(p)
  PROVE  StepGood
<1> DEFINE r == SendToDev(sw, p)
<1>1. /\ Good(sw) /\ Streams(sw, sw.mmu.paused) /\ Conserving(sw, {})
      /\ HeldBy(sw) \cap discarded = {}
  BY DEF NodeInv
<1>2. sw' = r /\ discarded' = discarded
  BY DEF Receive
<1>3. p \notin Occupied
  <2>1. p \notin Inside(sw) /\ p \notin discarded
    BY DEF Receive
  <2>2. \A d \in Ports : p \notin Queued(sw, d)
    BY <2>1 DEF Inside
  <2> QED
    BY <2>1, <2>2 DEF Occupied, HeldBy
<1>4. p \notin HeldBy(sw) /\ p \notin discarded
  BY <1>3 DEF Occupied
<1> HIDE DEF r
<1>5. Occupied' = HeldBy(r) \cup discarded
  BY <1>2 DEF Occupied
<1> SUFFICES /\ Good(r) /\ Streams(r, r.mmu.paused) /\ Conserving(r, {})
             /\ Respects(sw, r, r)
             /\ HeldBy(r) \cap discarded = {}
             /\ BufferMoves
  BY <1>2 DEF StepGood, NodeInv
<1>6. CASE p \notin DataPackets
  <2>1. /\ Good(r) /\ Streams(r, r.mmu.paused) /\ Conserving(r, {})
        /\ Respects(sw, r, r)
        /\ \/ Stays(sw, r)
           \/ \E x \in HeldBy(sw) : /\ r.mmu = Released(sw.mmu, x)
                                    /\ HeldBy(r) = HeldBy(sw) \ {x}
    BY <1>1, <1>6, ReceiveControl DEF r
  <2>2. CASE Stays(sw, r)
    <3>1. r.mmu = sw.mmu /\ HeldBy(r) = HeldBy(sw)
      BY <2>2 DEF Stays
    <3>2. UNCHANGED <<sw.mmu, Occupied>>
      BY <1>2, <1>5, <3>1 DEF Occupied
    <3> QED
      BY <1>1, <2>1, <3>1, <3>2 DEF BufferMoves, BufferMove
  <2>3. CASE \E x \in HeldBy(sw) : /\ r.mmu = Released(sw.mmu, x)
                                   /\ HeldBy(r) = HeldBy(sw) \ {x}
    <3>1. PICK x \in HeldBy(sw) : /\ r.mmu = Released(sw.mmu, x)
                                  /\ HeldBy(r) = HeldBy(sw) \ {x}
      BY <2>3
    <3>2. x \in DataPackets /\ x \in Occupied /\ Occupied' = Occupied \ {x}
      BY <1>1, <1>5, <3>1 DEF HeldBy, Occupied
    <3>3. BufferMoves
      BY <1>2, <3>1, <3>2 DEF BufferMoves, BufferMove
    <3> QED
      BY <1>1, <2>1, <3>1, <3>3
  <2> QED
    BY <2>1, <2>2, <2>3
<1>7. CASE p \in DataPackets /\ Admits(sw.mmu, p)
  <2>1. /\ Good(r) /\ Streams(r, r.mmu.paused) /\ Conserving(r, {})
        /\ Respects(sw, r, r)
        /\ \/ r.mmu = Admitted(sw.mmu, p) /\ HeldBy(r) = HeldBy(sw) \cup {p}
           \/ r.mmu = Released(Admitted(sw.mmu, p), p) /\ HeldBy(r) = HeldBy(sw)
    BY <1>1, <1>4, <1>7, ReceiveAdmitted DEF r
  <2>2. CASE r.mmu = Admitted(sw.mmu, p) /\ HeldBy(r) = HeldBy(sw) \cup {p}
    <3>1. Occupied' = Occupied \cup {p}
      BY <1>5, <2>2 DEF Occupied
    <3>2. BufferMoves
      BY <1>2, <1>3, <1>7, <2>2, <3>1 DEF BufferMoves, BufferMove
    <3>3. HeldBy(r) \cap discarded = {}
      BY <1>1, <1>4, <2>2
    <3> QED
      BY <2>1, <3>2, <3>3
  <2>3. CASE r.mmu = Released(Admitted(sw.mmu, p), p) /\ HeldBy(r) = HeldBy(sw)
    <3>1. Occupied' = Occupied
      BY <1>5, <2>3 DEF Occupied
    <3>2. BufferMoves
      BY <1>2, <1>3, <1>7, <2>3, <3>1 DEF BufferMoves, BufferMove
    <3> QED
      BY <1>1, <2>1, <2>3, <3>2
  <2> QED
    BY <2>1, <2>2, <2>3
<1>8. CASE p \in DataPackets /\ ~Admits(sw.mmu, p)
  <2>1. /\ Good(r) /\ Streams(r, r.mmu.paused) /\ Conserving(r, {})
        /\ Respects(sw, r, r)
        /\ r.mmu = AfterChecks(sw.mmu, p) /\ HeldBy(r) = HeldBy(sw)
    BY <1>1, <1>8, ReceiveDropped DEF r
  <2>2. Occupied' = Occupied
    BY <1>5, <2>1 DEF Occupied
  <2>3. BufferMoves
    BY <1>2, <1>3, <1>8, <2>1, <2>2 DEF BufferMoves, BufferMove
  <2> QED
    BY <1>1, <2>1, <2>3
<1> QED
  BY <1>6, <1>7, <1>8

\* Transmitting the next frame from a state in which the buffer is as it was.
LEMMA TransmitStep ==
  ASSUME NodeInv, NEW t, NEW d \in Ports, Good(t), Streams(t, t.mmu.paused),
         Conserving(t, {d}), t.mmu = sw.mmu, HeldBy(t) = HeldBy(sw), Respects(sw, t, t),
         sw' = DequeueAndTransmit(t, d), discarded' = discarded
  PROVE  StepGood
<1> DEFINE r == DequeueAndTransmit(t, d)
<1>1. Transmitted(t, r, d)
  BY TransmitGood
<1>2. sw' = r /\ discarded' = discarded
  OBVIOUS
<1> HIDE DEF r
<1>3. /\ Good(r) /\ Streams(r, r.mmu.paused) /\ Conserving(r, {})
      /\ r.m_paused = t.m_paused /\ Respects(t, r, t)
  BY <1>1 DEF Transmitted
<1>4. Respects(sw, r, r)
  <2> SUFFICES ASSUME NEW e \in Ports, r.m_currentPkt[e] \in DataPackets,
                      r.m_currentPkt[e] # sw.m_currentPkt[e]
               PROVE  ~r.m_paused[e][r.m_currentPkt[e].qIndex]
    BY DEF Respects
  <2>1. CASE r.m_currentPkt[e] = t.m_currentPkt[e]
    <3>1. ~t.m_paused[e][t.m_currentPkt[e].qIndex]
      BY <2>1 DEF Respects
    <3> QED
      BY <1>3, <2>1, <3>1
  <2>2. CASE r.m_currentPkt[e] # t.m_currentPkt[e]
    BY <1>3, <2>2 DEF Respects
  <2> QED
    BY <2>1, <2>2
<1>5. Occupied' = HeldBy(r) \cup discarded
  BY <1>2 DEF Occupied
<1>6. HeldBy(sw) \cap discarded = {}
  BY DEF NodeInv
<1>7. HeldBy(r) \cap discarded = {} /\ BufferMoves
  <2>1. CASE Stays(t, r)
    <3>1. r.mmu = sw.mmu /\ HeldBy(r) = HeldBy(sw)
      BY <2>1 DEF Stays
    <3>2. UNCHANGED <<sw.mmu, Occupied>>
      BY <1>2, <1>5, <3>1 DEF Occupied
    <3> QED
      BY <1>6, <3>1, <3>2 DEF BufferMoves, BufferMove
  <2>2. CASE \E x \in DataPackets : Departs(t, r, d, x)
    <3>1. PICK x \in DataPackets : Departs(t, r, d, x)
      BY <2>2
    <3>2. x \in HeldBy(sw) /\ r.mmu = Released(sw.mmu, x) /\ HeldBy(r) = HeldBy(sw) \ {x}
      BY <3>1 DEF Departs
    <3>3. x \in Occupied /\ Occupied' = Occupied \ {x}
      BY <1>5, <1>6, <3>2 DEF Occupied
    <3>4. BufferMoves
      BY <1>2, <3>2, <3>3 DEF BufferMoves, BufferMove
    <3> QED
      BY <1>6, <3>2, <3>4
  <2> QED
    BY <1>1, <2>1, <2>2 DEF Transmitted
<1> QED
  BY <1>2, <1>3, <1>4, <1>7 DEF StepGood, NodeInv

\* A link fails.
LEMMA DownStep ==
  ASSUME NodeInv, NEW d \in Ports, TakeDown(d)
  PROVE  StepGood
<1> DEFINE t == [sw EXCEPT !.m_linkUp[d] = FALSE,
                           !.m_paused[d] = [q \in Queues |-> FALSE],
                           !.m_queue[d] = [q \in Queues |-> <<>>]]
<1>1. /\ Good(sw) /\ Streams(sw, sw.mmu.paused) /\ Conserving(sw, {})
      /\ HeldBy(sw) \cap discarded = {}
  BY DEF NodeInv
<1>2. sw' = t /\ discarded' = discarded \cup (Queued(sw, d) \cap DataPackets)
  BY DEF TakeDown, Discards
<1>3. /\ Good(t) /\ Streams(t, t.mmu.paused) /\ Conserving(t, {})
      /\ t.mmu = sw.mmu /\ t.m_currentPkt = sw.m_currentPkt
      /\ HeldBy(t) = HeldBy(sw) \ Queued(sw, d)
  BY <1>1, DownGood
<1> HIDE DEF t
<1>4. Respects(sw, t, t)
  BY <1>3 DEF Respects
<1>5. Queued(sw, d) \cap DataPackets \subseteq HeldBy(sw) /\ HeldBy(sw) \subseteq DataPackets
  BY DEF HeldBy
<1>6. Occupied' = HeldBy(t) \cup discarded'
  BY <1>2 DEF Occupied
<1>7. Occupied' = Occupied
  BY <1>2, <1>3, <1>5, <1>6 DEF Occupied
<1>8. HeldBy(t) \cap discarded' = {}
  BY <1>1, <1>2, <1>3
<1>9. BufferMoves
  BY <1>2, <1>3, <1>7 DEF BufferMoves
<1> QED
  BY <1>2, <1>3, <1>4, <1>8, <1>9 DEF StepGood, NodeInv

\* The peer of port d pauses or resumes its queue q, or a transmission ends.
LEMMA PortStep ==
  ASSUME NodeInv, NEW d \in Ports, NEW q \in Queues,
         ReceivePause(d, q) \/ ReceiveResume(d, q) \/ TransmitComplete(d)
  PROVE  StepGood
<1>1. /\ Good(sw) /\ Streams(sw, sw.mmu.paused) /\ Conserving(sw, {})
      /\ HeldBy(sw) \cap discarded = {}
  BY DEF NodeInv
<1>2. CASE ReceivePause(d, q)
  <2> DEFINE t == [sw EXCEPT !.m_paused[d][q] = TRUE]
  <2>1. sw' = t /\ discarded' = discarded
    BY <1>2 DEF ReceivePause
  <2>2. /\ Good(t) /\ Streams(t, t.mmu.paused) /\ (TRUE => Conserving(t, {}))
        /\ t.mmu = sw.mmu /\ HeldBy(t) = HeldBy(sw) /\ t.m_currentPkt = sw.m_currentPkt
    BY <1>1, PauseGood
  <2> HIDE DEF t
  <2>3. Respects(sw, t, t)
    BY <2>2 DEF Respects
  <2>4. Occupied' = HeldBy(t) \cup discarded
    BY <2>1 DEF Occupied
  <2>5. BufferMoves
    BY <2>1, <2>2, <2>4 DEF BufferMoves, Occupied
  <2> QED
    BY <1>1, <2>1, <2>2, <2>3, <2>5 DEF StepGood, NodeInv
<1>3. CASE ReceiveResume(d, q)
  <2> DEFINE t == [sw EXCEPT !.m_paused[d][q] = FALSE]
  <2>1. sw' = DequeueAndTransmit(t, d) /\ discarded' = discarded
    BY <1>3 DEF ReceiveResume
  <2>2. /\ Good(t) /\ Streams(t, t.mmu.paused) /\ Conserving(t, {d})
        /\ t.mmu = sw.mmu /\ HeldBy(t) = HeldBy(sw) /\ t.m_currentPkt = sw.m_currentPkt
    BY <1>1, PauseGood
  <2> HIDE DEF t
  <2>3. Respects(sw, t, t)
    BY <2>2 DEF Respects
  <2> QED
    BY <2>1, <2>2, <2>3, TransmitStep
<1>4. CASE TransmitComplete(d)
  <2> DEFINE t == [sw EXCEPT !.m_currentPkt[d] = NoFrame]
  <2>1. sw' = DequeueAndTransmit(t, d) /\ discarded' = discarded
    BY <1>4 DEF TransmitComplete
  <2>2. /\ Good(t) /\ Streams(t, t.mmu.paused) /\ Conserving(t, {d})
        /\ t.mmu = sw.mmu /\ HeldBy(t) = HeldBy(sw)
        /\ t.m_paused = sw.m_paused /\ Respects(sw, t, sw)
    BY <1>1, CompleteGood
  <2> HIDE DEF t
  <2>3. Respects(sw, t, t)
    BY <2>2 DEF Respects
  <2> QED
    BY <2>1, <2>2, <2>3, TransmitStep
<1> QED
  BY <1>2, <1>3, <1>4

\* Every step keeps the invariant, respects the pauses and is a step of the buffer.
LEMMA NodeStep ==
  ASSUME NodeInv, [Next]_vars
  PROVE  NodeInv' /\ (sw' # sw => Respects(sw, sw', sw')) /\ BufferMoves
<1>1. ASSUME NEW p \in Packets, Receive(p)
      PROVE  StepGood
  BY <1>1, ReceiveStep
<1>2. ASSUME NEW d \in Ports, TransmitComplete(d)
      PROVE  StepGood
  BY <1>2, PortStep, FrameFacts
<1>3. ASSUME NEW d \in Ports, TakeDown(d)
      PROVE  StepGood
  BY <1>3, DownStep
<1>4. ASSUME NEW i \in Pausable, ReceivePause(i[1], i[2]) \/ ReceiveResume(i[1], i[2])
      PROVE  StepGood
  <2>1. i[1] \in Ports /\ i[2] \in Queues
    BY FrameFacts DEF Pausable, Out, DataPackets
  <2> QED
    BY <1>4, <2>1, PortStep
<1>5. CASE UNCHANGED vars
  BY <1>5 DEF vars, NodeInv, BufferMoves, Occupied
<1> QED
  BY <1>1, <1>2, <1>3, <1>4, <1>5 DEF Next, StepGood

-------------------------------------------------------------------------------
(* Theorems *)

\* The invariant holds.
THEOREM NodeInvariant == Spec => []NodeInv
<1>1. Init => NodeInv
  BY InitGood
<1>2. NodeInv /\ [Next]_vars => NodeInv'
  BY NodeStep
<1> QED
  BY <1>1, <1>2, PTL DEF Spec

\* The queues hold frames, and every field has its type.
THEOREM NodeTypeCorrect == Spec => []TypeOK
<1>1. NodeInv => TypeOK
  BY DEF NodeInv, Good, NodeType, TypeOK
<1> QED
  BY <1>1, NodeInvariant, PTL

\* No event leaves a port idle that could send.
THEOREM NodeConserving == Spec => []WorkConserving
<1>1. NodeInv => WorkConserving
  BY DEF NodeInv, Conserving, WorkConserving
<1> QED
  BY <1>1, NodeInvariant, PTL

\* The PFC frames each peer is going to receive alternate and tell the truth.
THEOREM NodePfcFaithful == Spec => []PfcStreamFaithful
<1>1. NodeInv => PfcStreamFaithful
  BY DEF NodeInv, Streams, PfcStreamFaithful
<1> QED
  BY <1>1, NodeInvariant, PTL

\* No port starts to send a packet of a priority that its peer has paused.
THEOREM NodePauseRespected == Spec => PauseRespected
<1> DEFINE Kept == \A d \in Ports :
                     LET f == sw'.m_currentPkt[d]
                     IN  f # sw.m_currentPkt[d] /\ f \in DataPackets
                           => ~sw'.m_paused[d][f.qIndex]
<1>1. NodeInv /\ [Next]_vars => [Kept]_sw
  <2> SUFFICES ASSUME NodeInv, [Next]_vars, sw' # sw
               PROVE  Kept
    OBVIOUS
  <2>1. Respects(sw, sw', sw')
    BY NodeStep
  <2> QED
    BY <2>1 DEF Respects
<1> HIDE DEF Kept
<1>2. Spec => [][Kept]_sw
  BY <1>1, NodeInvariant, PTL DEF Spec
<1> QED
  BY <1>2 DEF PauseRespected, Kept

\* The node implements the buffer: what SwitchBufferProofs shows of the MMU's counters,
\* its headroom and its pauses holds of the queues of the node.
THEOREM NodeImplementsBuffer == Spec => ImplementsBuffer
<1>1. Held \cup discarded = Occupied
  BY DEF Held, HeldBy, Occupied
<1>2. Init => Buffer!Init
  <2>1. Buffer!NewMmu = NewMmu
    BY SameBasics DEF Buffer!NewMmu, NewMmu
  <2> QED
    BY <1>1, <2>1, InitGood DEF Buffer!Init
<1>3. NodeInv /\ [Next]_vars => [Buffer!Next]_(Buffer!vars)
  <2> SUFFICES ASSUME NodeInv, [Next]_vars
               PROVE  [Buffer!Next]_(Buffer!vars)
    OBVIOUS
  <2>1. BufferMoves
    BY NodeStep
  <2>2. (Held \cup discarded)' = Occupied'
    BY DEF Held, HeldBy, Occupied
  <2>3. CASE UNCHANGED <<sw.mmu, Occupied>>
    BY <1>1, <2>2, <2>3 DEF Buffer!vars
  <2>4. ASSUME NEW p \in DataPackets, BufferMove(p)
        PROVE  Buffer!Next
    <3>1. Buffer!Admit(p) \/ Buffer!Drop(p) \/ Buffer!Release(p) \/ Buffer!CutThrough(p)
      BY <1>1, <2>2, <2>4, SameAdmission, SameAdmitted, SameReleased
         DEF BufferMove, Buffer!Admit, Buffer!Drop, Buffer!Release, Buffer!CutThrough
    <3> QED
      BY <3>1, SameBasics DEF Buffer!Next
  <2> QED
    BY <2>1, <2>3, <2>4 DEF BufferMoves
<1> QED
  BY <1>2, <1>3, NodeInvariant, PTL DEF Spec, ImplementsBuffer, Buffer!Spec
===============================================================================
