-------------------------------- MODULE HostNic --------------------------------
(***************************************************************************)
(* The RDMA NIC of a host (qbb-net-device.cc, host side, with              *)
(* RdmaEgressQueue): queue pairs that take turns within their pace, window *)
(* and pauses, acknowledgements of received data in strict priority, TCP   *)
(* packets, and the event m_nextSend that looks again for a pair whose     *)
(* pace does not allow a packet yet.  Bytes are counted in packets; time   *)
(* is counted in transmission times of a packet.                           *)
(***************************************************************************)
EXTENDS Integers, Sequences, SequencesExt, FiniteSets

CONSTANTS
  Qp,        \* queue pairs
  Priority,  \* priorities of data; the peer pauses only these
  AckQ,      \* ack_q_idx, the priority of acknowledgements
  Rate,      \* rates a congestion control sets
  LineRate,  \* the rate of the link, which a pair starts with
  Gap,       \* Gap[rate]: time from one packet to the next at that rate
  Flows,     \* functions from sets of pairs to records m_pg, m_size, m_win, stops
  MaxTcp,    \* bound: TCP packets in the queue at a time
  MaxAck,    \* bound: acknowledgements to send, over time
  MaxPause,  \* bound: pauses received, over time
  MaxChange  \* bound: changes of rates, over time

\* What a NIC that is READY transmits; what m_nextSend is if it is not pending;
\* what is read past the end of the group.
None == 0
Ack == -1
Tcp == -2
Beyond == -3

ASSUME NicConfiguration ==
  /\ Qp \subseteq Nat \ {0}
  /\ AckQ \in Priority
  /\ LineRate \in Rate
  /\ \A r \in Rate : Gap[r] \in Nat \ {0} /\ Gap[LineRate] <= Gap[r]
  /\ \E r \in Rate : \A t \in Rate : Gap[t] <= Gap[r]  \* m_minRate
  /\ \A fl \in Flows :
       /\ DOMAIN fl \subseteq Qp
       /\ \A f \in DOMAIN fl :
            /\ fl[f].m_pg \in Priority
            /\ fl[f].m_size \in Nat \ {0}
            /\ fl[f].m_win \in Nat
            /\ fl[f].stops \in BOOLEAN

\* A pair with a stop time has the NIC to itself, as no other pair can finish
\* before it in the group then.
StopsAlone(flows) ==
  \A fl \in flows : \A f \in DOMAIN fl : fl[f].stops => DOMAIN fl = {f}

VARIABLES
  flow,   \* the pairs' parameters, which do not change
  nic,    \* the state of the NIC and its queue pairs
  budget  \* what is left of the bounds

vars == <<flow, nic, budget>>

Pairs == DOMAIN flow

MaxGap == CHOOSE g \in {Gap[r] : r \in Rate} : \A r \in Rate : Gap[r] <= g

NoWakeup == -1

\* hostDequeueIndex is that of RdmaEgressQueue, which is never initialised.
Init ==
  /\ flow \in Flows
  /\ \E parity \in {0, 1} :
       nic = [qp |-> [f \in Pairs |-> [snd_nxt |-> 0, snd_una |-> 0, since |-> MaxGap,
                                    m_rate |-> LineRate, stopped |-> FALSE]],
              m_qpMap |-> {},
              m_qps |-> <<>>,
              m_rrlast |-> 0,
              hostDequeueIndex |-> parity,
              m_ackQ |-> 0,
              tcp |-> 0,
              m_paused |-> {},
              m_currentPkt |-> None,
              remaining |-> 0,
              m_nextSend |-> NoWakeup]
  /\ budget = [ack |-> MaxAck, pause |-> MaxPause, change |-> MaxChange]

-------------------------------------------------------------------------------
(* Queue pairs *)

GetBytesLeft(s, f) == flow[f].m_size - s.qp[f].snd_nxt

GetOnTheFly(s, f) == s.qp[f].snd_nxt - s.qp[f].snd_una

IsWinBound(s, f) == flow[f].m_win # 0 /\ GetOnTheFly(s, f) >= flow[f].m_win

IsFinished(s, f) == s.qp[f].stopped \/ s.qp[f].snd_una >= flow[f].m_size

\* m_nextAvail, from now on; since is how long ago the last packet was sent.
Wait(s, f) == Gap[s.qp[f].m_rate] - s.qp[f].since

Sendable(s, f) ==
  flow[f].m_pg \notin s.m_paused /\ GetBytesLeft(s, f) > 0 /\ ~IsWinBound(s, f)

Due(s, f) == Sendable(s, f) /\ Wait(s, f) <= 0

-------------------------------------------------------------------------------
(* RdmaEgressQueue.  Positions in the group are counted from 1 here.        *)

Position(s, k) == ((k + s.m_rrlast) % Len(s.m_qps)) + 1

Least(S) == CHOOSE i \in S : \A j \in S : i <= j

\* The positions that are kept when finished pairs are removed from first on.
Kept(s, first) ==
  {k \in 1 .. Len(s.m_qps) : k < first \/ ~IsFinished(s, s.m_qps[k])}

\* Where position k comes to be.
Place(kept, k) == Cardinality({j \in kept : j <= k})

\* The group without the finished pairs from position first on.
Cleared(s, first) ==
  LET kept == Kept(s, first)
  IN  [i \in 1 .. Cardinality(kept) |->
         s.m_qps[CHOOSE k \in kept : Place(kept, k) = i]]

\* Fault: the choice is not moved with the pairs behind a finished one.
Moved_Stays(s, first, chosen) == chosen

\* Where a choice is after the group is cleared: a finished pair is not followed.
Moved(s, first, chosen) ==
  IF chosen < first \/ IsFinished(s, s.m_qps[chosen]) THEN chosen
  ELSE Place(Kept(s, first), chosen)

\* The pairs' turn: the first that is due, after removing finished pairs the
\* search met before it.  0 stands for -1024, no pair.
NextQp(s) ==
  LET due == {k \in 1 .. Len(s.m_qps) : Due(s, s.m_qps[Position(s, k)])}
      looked == IF due = {} THEN 1 .. Len(s.m_qps) ELSE 1 .. Least(due)
      finished == {Position(s, k) : k \in {i \in looked :
                     LET f == s.m_qps[Position(s, i)]
                     IN  ~Sendable(s, f) /\ IsFinished(s, f)}}
      chosen == IF due = {} THEN 0 ELSE Position(s, Least(due))
  IN  IF finished = {} THEN [nic |-> s, chosen |-> chosen]
      ELSE [nic |-> [s EXCEPT !.m_qps = Cleared(s, Least(finished))],
            chosen |-> IF chosen = 0 THEN 0
                       ELSE Moved(s, Least(finished), chosen)]

\* Fault: a NIC that tried the pairs first tries them first again.
Turn_Keeps(parity, served) == parity

\* hostDequeueIndex % 2 after pairs (1) or TCP (0) were served; two failures
\* leave it where it was.
Turn(parity, served) == served

-------------------------------------------------------------------------------
(* Transmission *)

TransmitStart(s, p) == [s EXCEPT !.m_currentPkt = p, !.remaining = 1]

PktSent(p) == [p EXCEPT !.snd_nxt = @ + 1, !.since = 0]

\* GetNxtPacket, TransmitStart and PktSent for the pair at position i.
SendQp(s, i) ==
  IF i > Len(s.m_qps) THEN [s EXCEPT !.m_currentPkt = Beyond]
  ELSE LET f == s.m_qps[i]
       IN  TransmitStart([s EXCEPT !.qp[f] = PktSent(@),
                                   !.m_rrlast = i - 1,
                                   !.hostDequeueIndex = Turn(@, 1)], f)

SendTcpPacket(s) ==
  TransmitStart([s EXCEPT !.tcp = @ - 1, !.hostDequeueIndex = Turn(@, 0)], Tcp)

\* Nothing can be sent: look again when the first pair with bytes left may send.
\* The minimum includes pairs that are paused or window bound.
ScheduleNextSend(s) ==
  LET waits == {Wait(s, f) : f \in {g \in ToSet(s.m_qps) : GetBytesLeft(s, g) > 0}}
  IN  IF s.m_nextSend = NoWakeup /\ waits # {} /\ Least(waits) > 0
      THEN [s EXCEPT !.m_nextSend = Least(waits)] ELSE s

DequeueAndTransmit(s) ==
  IF s.m_currentPkt # None THEN s
  ELSE IF AckQ \notin s.m_paused /\ s.m_ackQ > 0
  THEN TransmitStart([s EXCEPT !.m_ackQ = @ - 1], Ack)
  ELSE IF s.hostDequeueIndex = 1 /\ s.tcp > 0 THEN SendTcpPacket(s)
  ELSE LET n == NextQp(s)
       IN  IF n.chosen # 0 THEN SendQp(n.nic, n.chosen)
           ELSE IF s.tcp > 0 THEN SendTcpPacket(n.nic)
           ELSE ScheduleNextSend(n.nic)

-------------------------------------------------------------------------------
(* Events *)

\* AddQueuePair.
NewQp(f) ==
  /\ f \notin nic.m_qpMap
  /\ nic.qp[f].snd_nxt = 0
  /\ nic' = DequeueAndTransmit([nic EXCEPT !.m_qpMap = @ \cup {f},
                                           !.m_qps = Append(@, f)])
  /\ UNCHANGED <<flow, budget>>

Send ==
  /\ nic.tcp < MaxTcp
  /\ nic' = DequeueAndTransmit([nic EXCEPT !.tcp = @ + 1])
  /\ UNCHANGED <<flow, budget>>

\* Received data is acknowledged.
ReceiveUdp ==
  /\ budget.ack > 0
  /\ nic' = DequeueAndTransmit([nic EXCEPT !.m_ackQ = @ + 1])
  /\ budget' = [budget EXCEPT !.ack = @ - 1]
  /\ UNCHANGED flow

UpdateNextAvail(s, t) ==
  IF s.m_nextSend # NoWakeup /\ t < s.m_nextSend
  THEN [s EXCEPT !.m_nextSend = IF t > 0 THEN t ELSE 0] ELSE s

SetRate(s, f, r) ==
  LET changed == [s EXCEPT !.qp[f].m_rate = r] IN UpdateNextAvail(changed, Wait(changed, f))

\* A timer of the congestion control: only pairs that have sent have one.
ChangeRate(f, r) ==
  /\ budget.change > 0
  /\ nic.qp[f].m_rate # r /\ nic.qp[f].snd_nxt > 0
  /\ nic' = SetRate(nic, f, r)
  /\ budget' = [budget EXCEPT !.change = @ - 1]
  /\ UNCHANGED flow

\* What has arrived at the receiver and can have been acknowledged.
Arrived(f) == nic.qp[f].snd_nxt - IF nic.m_currentPkt = f THEN 1 ELSE 0

\* ReceiveAck, with QpComplete and the rate the congestion control sets.
ReceiveAck(f, seq, r) ==
  /\ f \in nic.m_qpMap
  /\ seq > nic.qp[f].snd_una /\ seq <= Arrived(f)
  /\ nic.qp[f].m_rate # r => budget.change > 0
  /\ LET acked == [nic EXCEPT !.qp[f].snd_una = seq]
         left == IF IsFinished(acked, f)
                 THEN [acked EXCEPT !.m_qpMap = @ \ {f}] ELSE acked
     IN  nic' = DequeueAndTransmit(IF nic.qp[f].m_rate = r THEN left
                                   ELSE SetRate(left, f, r))
  /\ budget' = [budget EXCEPT !.change = IF nic.qp[f].m_rate = r THEN @ ELSE @ - 1]
  /\ UNCHANGED flow

ReceivePause(pg) ==
  /\ budget.pause > 0 /\ pg \notin nic.m_paused
  /\ nic' = [nic EXCEPT !.m_paused = @ \cup {pg}]
  /\ budget' = [budget EXCEPT !.pause = @ - 1]
  /\ UNCHANGED flow

Resume(pg) ==
  /\ pg \in nic.m_paused
  /\ nic' = DequeueAndTransmit([nic EXCEPT !.m_paused = @ \ {pg}])
  /\ UNCHANGED <<flow, budget>>

TransmitComplete ==
  /\ nic.m_currentPkt # None /\ nic.remaining = 0
  /\ nic' = DequeueAndTransmit([nic EXCEPT !.m_currentPkt = None])
  /\ UNCHANGED <<flow, budget>>

\* Fault: the event counts as pending while it runs.
NextSend_Pending ==
  /\ nic.m_nextSend = 0
  /\ nic' = [DequeueAndTransmit(nic) EXCEPT !.m_nextSend = NoWakeup]
  /\ UNCHANGED <<flow, budget>>

\* The event m_nextSend.
NextSend ==
  /\ nic.m_nextSend = 0
  /\ nic' = DequeueAndTransmit([nic EXCEPT !.m_nextSend = NoWakeup])
  /\ UNCHANGED <<flow, budget>>

StopTime(f) ==
  /\ flow[f].stops /\ ~nic.qp[f].stopped
  /\ nic' = [nic EXCEPT !.qp[f].stopped = TRUE]
  /\ UNCHANGED <<flow, budget>>

Waited(p) == [p EXCEPT !.since = IF @ < MaxGap THEN @ + 1 ELSE @]

\* Time passes when no event is due.
Tick ==
  /\ nic.m_nextSend # 0
  /\ nic.m_currentPkt # None => nic.remaining > 0
  /\ nic' = [nic EXCEPT
               !.qp = [f \in Pairs |-> Waited(@[f])],
               !.remaining = IF @ > 0 THEN @ - 1 ELSE @,
               !.m_nextSend = IF @ > 0 THEN @ - 1 ELSE @]
  /\ UNCHANGED <<flow, budget>>

Running == nic.m_currentPkt # Beyond

Next ==
  /\ Running
  /\ \/ \E f \in Pairs : NewQp(f) \/ StopTime(f)
     \/ \E f \in Pairs, r \in Rate :
          ChangeRate(f, r) \/ \E seq \in 1 .. Arrived(f) : ReceiveAck(f, seq, r)
     \/ \E pg \in Priority : ReceivePause(pg) \/ Resume(pg)
     \/ Send \/ ReceiveUdp \/ TransmitComplete \/ NextSend \/ Tick

Spec == Init /\ [][Next]_vars

\* What has arrived and is not acknowledged yet.
Unacknowledged == {f \in nic.m_qpMap : nic.qp[f].snd_una < Arrived(f)}

\* Nothing that is left would change with time.
Quiet ==
  /\ nic.m_currentPkt = None /\ nic.m_nextSend = NoWakeup
  /\ \A f \in Pairs : nic.qp[f].since = MaxGap

\* Time goes on and the events that are due with it; peers acknowledge what arrives and end their pauses.
FairSpec ==
  /\ Spec
  /\ []<>Quiet \/ []<><<Tick>>_vars
  /\ []<>(Unacknowledged = {})
  /\ []<>(nic.m_paused = {})

-------------------------------------------------------------------------------
(* Properties *)

\* A pair only sends when its priority is not paused, its pace allows it and its
\* window has room, and what is sent is a packet of a pair of the group: the
\* choice, made before finished pairs are removed, still means the same pair.
SendsOnlyReady ==
  [][/\ nic'.m_currentPkt # Beyond
     /\ \A f \in Pairs : nic'.qp[f].snd_nxt > nic.qp[f].snd_nxt =>
          /\ flow[f].m_pg \notin nic'.m_paused
          /\ nic.qp[f].since >= Gap[nic'.qp[f].m_rate]
          /\ flow[f].m_win # 0 => GetOnTheFly(nic', f) <= flow[f].m_win]_vars

\* A NIC that is READY does not forget a pair that only waits for its pace: a look
\* is scheduled, or a pair that is blocked with bytes left will cause one when its
\* acknowledgement or resume arrives.
WakeupScheduled ==
  \A f \in ToSet(nic.m_qps) :
    nic.m_currentPkt = None /\ Sendable(nic, f) =>
      \/ nic.m_nextSend # NoWakeup
      \/ \E g \in ToSet(nic.m_qps) : GetBytesLeft(nic, g) > 0 /\ ~Sendable(nic, g)

\* In the end no message without a stop time is left unconfirmed, however much
\* TCP traffic shares the NIC and whichever pairs are paced, paused or finish.
AllComplete == <>[](\A f \in nic.m_qpMap : flow[f].stops)
===============================================================================
