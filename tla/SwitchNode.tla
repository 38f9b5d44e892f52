------------------------------ MODULE SwitchNode ------------------------------
(***************************************************************************)
(* A switch of the RDMA fabric: SwitchNode (switch-node.cc) with its MMU,  *)
(* its QbbNetDevices (the switch side of qbb-net-device.cc) and their      *)
(* egress queues (broadcom-egress-queue.cc).                               *)
(*                                                                         *)
(* The simulator runs one event at a time to completion, so an action is   *)
(* an event with every call it makes.  Such calls nest: admitting a packet *)
(* may send a pause frame, which may start transmitting at once, and the   *)
(* packet itself may be dequeued at once, which may send a resume frame.   *)
(* The methods are therefore operators from a switch state s to a switch   *)
(* state, and an action applies the one its event calls to sw.             *)
(***************************************************************************)
EXTENDS SwitchMmu, Sequences, SequencesExt, FiniteSetsExt

CONSTANTS
  NoFrame,    \* m_currentPkt of a device that is READY
  MaxCtrl,    \* bound: control frames waiting at a port that still accepts data
  Unreliable  \* devices that may be taken down

VARIABLES
  sw,        \* the switch
  discarded  \* history: the data packets a link failure threw away

vars == <<sw, discarded>>

qCnt == Cardinality(Queues)

DataPackets == {p \in Packets : p.qIndex # 0}

\* A PFC frame for priority q; a time of zero in the header means resume.
Pfc(q, pause) == [pfcQueue |-> q, pause |-> pause]
PfcFrames == {Pfc(q, pause) : q \in Queues, pause \in BOOLEAN}

\* Routing tables hold shortest paths, which never lead back.
ASSUME NodeConfiguration ==
  /\ Queues = 0 .. qCnt - 1
  /\ \A p \in Packets : p.inDev # p.outDev
  /\ Packets \cap PfcFrames = {}
  /\ NoFrame \notin Packets \cup PfcFrames
  /\ MaxCtrl \in Nat
  /\ Unreliable \subseteq Ports

NewNode ==
  [mmu |-> NewMmu,
   m_queue |-> [d \in Ports |-> [q \in Queues |-> <<>>]],
   m_rrlast |-> [d \in Ports |-> 0],
   m_currentPkt |-> [d \in Ports |-> NoFrame],
   m_paused |-> [d \in Ports |-> [q \in Queues |-> FALSE]],
   m_linkUp |-> [d \in Ports |-> TRUE]]

-------------------------------------------------------------------------------
(* Egress queues *)

Enqueue(s, d, q, f) == [s EXCEPT !.m_queue[d][q] = Append(@, f)]

\* Fault: a paused queue is served when it is its turn.
MaySend_Paused(s, d, q) == s.m_queue[d][q] # <<>>

\* DoDequeueRR: queue 0 has strict priority and ignores pause; the others are
\* served round robin, starting after the one served last, unless paused.
MaySend(s, d, q) ==
  /\ s.m_queue[d][q] # <<>>
  /\ q = 0 \/ ~s.m_paused[d][q]

\* How many places after the queue served last queue q is looked at.
Turn(s, d, q) == IF q = s.m_rrlast[d] THEN qCnt ELSE (q - s.m_rrlast[d]) % qCnt

NextQueue(s, d) ==
  IF MaySend(s, d, 0) THEN 0
  ELSE CHOOSE q \in Queues :
         /\ MaySend(s, d, q)
         /\ \A r \in Queues : MaySend(s, d, r) => Turn(s, d, q) <= Turn(s, d, r)

\* Fault: the position of the next queue is stored without wrapping around.
TransmitFrom_NoModulo(s, d, q) ==
  [s EXCEPT !.m_currentPkt[d] = Head(s.m_queue[d][q]),
            !.m_queue[d][q] = Tail(@),
            !.m_rrlast[d] = IF q = 0 THEN @ ELSE @ + Turn(s, d, q)]

\* The device takes the head of queue q and is BUSY with it.
TransmitFrom(s, d, q) ==
  [s EXCEPT !.m_currentPkt[d] = Head(s.m_queue[d][q]),
            !.m_queue[d][q] = Tail(@),
            !.m_rrlast[d] = IF q = 0 THEN @ ELSE q]

Ready(s, d) == s.m_linkUp[d] /\ s.m_currentPkt[d] = NoFrame

-------------------------------------------------------------------------------
(* Sending *)

\* SendPfc: the frame joins queue 0 of the device, whose DequeueAndTransmit can
\* only pick queue 0 then.
SendPfc(s, d, q, pause) ==
  LET queued == Enqueue(s, d, 0, Pfc(q, pause))
  IN  IF Ready(queued, d) THEN TransmitFrom(queued, d, 0) ELSE queued

\* SwitchNotifyDequeue, with the resume CheckAndSendResume may send.
SwitchNotifyDequeue(s, p) ==
  LET m == Released(s.mmu, p)
      released == [s EXCEPT !.mmu = m]
  IN  IF s.mmu.paused[In(p)] /\ ~m.paused[In(p)]
      THEN SendPfc(released, p.inDev, p.qIndex, FALSE)
      ELSE released

DequeueAndTransmit(s, d) ==
  IF ~Ready(s, d) \/ \A q \in Queues : ~MaySend(s, d, q) THEN s
  ELSE LET q == NextQueue(s, d)
           started == TransmitFrom(s, d, q)
       IN  IF q = 0 THEN started
           ELSE SwitchNotifyDequeue(started, Head(s.m_queue[d][q]))

SwitchSend(s, d, q, f) == DequeueAndTransmit(Enqueue(s, d, q, f), d)

\* Fault: a pause is sent for every packet that is in the headroom.
Accept_Repeats(s, p) ==
  LET m == Admitted(s.mmu, p)
      admitted == [s EXCEPT !.mmu = m]
  IN  IF m.xoffUsed[In(p)] > 0 THEN SendPfc(admitted, p.inDev, p.qIndex, TRUE)
      ELSE admitted

\* SendToDev after the admission checks, with the pause CheckAndSendPfc may send.
Accept(s, p) ==
  LET m == Admitted(s.mmu, p)
      admitted == [s EXCEPT !.mmu = m]
  IN  IF m.paused[In(p)] /\ ~s.mmu.paused[In(p)]
      THEN SendPfc(admitted, p.inDev, p.qIndex, TRUE)
      ELSE admitted

\* Fault: the packet is handed to its port before the MMU has counted it.
SendToDev_CountLast(s, p) ==
  IF p.qIndex = 0 THEN SwitchSend(s, p.outDev, 0, p)
  ELSE IF Admits(s.mmu, p) THEN Accept(SwitchSend(s, p.outDev, p.qIndex, p), p)
  ELSE [s EXCEPT !.mmu = AfterChecks(@, p)]

SendToDev(s, p) ==
  IF p.qIndex = 0 THEN SwitchSend(s, p.outDev, 0, p)
  ELSE IF Admits(s.mmu, p) THEN SwitchSend(Accept(s, p), p.outDev, p.qIndex, p)
  ELSE [s EXCEPT !.mmu = AfterChecks(@, p)]

-------------------------------------------------------------------------------
(* Events *)

Queued(s, d) == UNION {ToSet(s.m_queue[d][q]) : q \in Queues}
Inside(s) == UNION {Queued(s, d) \cup {s.m_currentPkt[d]} : d \in Ports}

Init == sw = NewNode /\ discarded = {}

\* A packet arrives and is switched.  SendToDev asserts that its route is up.
Receive(p) ==
  /\ p \notin Inside(sw) \cup discarded
  /\ sw.m_linkUp[p.inDev] /\ sw.m_linkUp[p.outDev]
  /\ Len(sw.m_queue[p.inDev][0]) < MaxCtrl
  /\ p.qIndex = 0 => Len(sw.m_queue[p.outDev][0]) < MaxCtrl
  /\ sw' = SendToDev(sw, p)
  /\ UNCHANGED discarded

\* The queues a peer may pause: it pauses for lossless packets it got from them.
Pausable == {Out(p) : p \in {p \in DataPackets : p.type = LOSSLESS}}

\* The peer pauses a priority of device d; there is no expiry timer.
ReceivePause(d, q) ==
  /\ sw.m_linkUp[d]
  /\ sw' = [sw EXCEPT !.m_paused[d][q] = TRUE]
  /\ UNCHANGED discarded

\* Fault: the queue is unpaused, and nothing starts the transmission.
ReceiveResume_NoRestart(d, q) ==
  /\ sw.m_linkUp[d] /\ sw.m_paused[d][q]
  /\ sw' = [sw EXCEPT !.m_paused[d][q] = FALSE]
  /\ UNCHANGED discarded

\* Resume asserts that the queue is paused.
ReceiveResume(d, q) ==
  /\ sw.m_linkUp[d] /\ sw.m_paused[d][q]
  /\ sw' = DequeueAndTransmit([sw EXCEPT !.m_paused[d][q] = FALSE], d)
  /\ UNCHANGED discarded

TransmitComplete(d) ==
  /\ sw.m_currentPkt[d] # NoFrame
  /\ sw' = DequeueAndTransmit([sw EXCEPT !.m_currentPkt[d] = NoFrame], d)
  /\ UNCHANGED discarded

Discards(d) == discarded' = discarded \cup (Queued(sw, d) \cap DataPackets)

\* TakeDown unpauses the device and discards what it has queued, without a word
\* to the MMU.  The frame being transmitted still completes.  (The drain also
\* moves m_rrlast, which nothing reads once the link is down.)
TakeDown(d) ==
  /\ d \in Unreliable /\ sw.m_linkUp[d]
  /\ sw' = [sw EXCEPT !.m_linkUp[d] = FALSE,
                      !.m_paused[d] = [q \in Queues |-> FALSE],
                      !.m_queue[d] = [q \in Queues |-> <<>>]]
  /\ Discards(d)

Next ==
  \/ \E p \in Packets : Receive(p)
  \/ \E d \in Ports : TransmitComplete(d) \/ TakeDown(d)
  \/ \E i \in Pausable : ReceivePause(i[1], i[2]) \/ ReceiveResume(i[1], i[2])

Spec == Init /\ [][Next]_vars

\* A transmission that started completes, as the device scheduled its end: weak
\* fairness of TransmitComplete(d), which is enabled while d has a frame to end.
FairSpec ==
  /\ Spec
  /\ \A d \in Ports : \/ []<>(sw.m_currentPkt[d] = NoFrame)
                      \/ []<><<TransmitComplete(d)>>_vars

-------------------------------------------------------------------------------
(* Properties *)

Held == DataPackets \cap UNION {Queued(sw, d) : d \in Ports}

Frames == Packets \cup PfcFrames

TypeOK ==
  /\ sw.m_queue \in [Ports -> [Queues -> Seq(Frames)]]
  /\ sw.m_rrlast \in [Ports -> Queues]
  /\ sw.m_currentPkt \in [Ports -> Frames \cup {NoFrame}]
  /\ sw.m_paused \in [Ports -> [Queues -> BOOLEAN]]
  /\ sw.m_linkUp \in [Ports -> BOOLEAN]

\* Every event of the switch is, for the MMU, one admission, drop, departure or
\* cut-through of one packet, or nothing: the MMU accounts for exactly what the
\* queues hold and, as TakeDown tells it nothing, for what failures discarded.
Buffer == INSTANCE SwitchBuffer WITH mmu <- sw.mmu, held <- Held \cup discarded
ImplementsBuffer == Buffer!Spec

\* No port is idle while it could send: nothing re-examines a queue later, so
\* every event that makes a frame sendable must start the transmission itself.
WorkConserving ==
  \A d \in Ports : Ready(sw, d) => \A q \in Queues : ~MaySend(sw, d, q)

\* Oldest first, the frames that device d has yet to deliver ahead of its data.
Stream(s, d) == <<s.m_currentPkt[d]>> \o s.m_queue[d][0]

\* Where the PFC frames for priority q are among them.
PfcAt(stream, q) ==
  {k \in DOMAIN stream : stream[k] \in PfcFrames /\ stream[k].pfcQueue = q}

\* The PFC frames for q alternate between pause and resume, and the last one
\* tells what the MMU believes.
Faithful(stream, q, paused) ==
  \A k \in PfcAt(stream, q) :
    /\ \A l \in PfcAt(stream, q) :
         k < l /\ (\A n \in PfcAt(stream, q) : n <= k \/ l <= n)
           => stream[k].pause # stream[l].pause
    /\ (\A l \in PfcAt(stream, q) : l <= k) => stream[k].pause = paused

\* While its link is up, the frames a peer is going to receive alternate between
\* pause and resume and leave it in the state the MMU believes it is in: no
\* duplicate pause, and no resume of a peer that is not paused, on which the peer
\* would abort.
PfcStreamFaithful ==
  \A d \in Ports, q \in Queues :
    sw.m_linkUp[d] => Faithful(Stream(sw, d), q, sw.mmu.paused[<<d, q>>])

\* A port never starts sending a data packet of a priority its peer has paused.
PauseRespected ==
  [][\A d \in Ports :
       LET f == sw'.m_currentPkt[d]
       IN  f # sw.m_currentPkt[d] /\ f \in DataPackets
             => ~sw'.m_paused[d][f.qIndex]]_sw

\* If no link fails, the control frames of queue 0 let up now and then, the
\* downstream peers stop pausing this switch and its upstream peers heed the pauses it sends, then
\* every peer it has paused is eventually resumed: draining the queue is enough to
\* get there, with no timer to fall back on.  (Queue 0 has strict priority: ACKs, or
\* pauses and resumes for traffic the other way, could starve the data queues.)
PauseEnds ==
  /\ [](\A d \in Ports : sw.m_linkUp[d])
  /\ \A d \in Ports : []<>(sw.m_currentPkt[d] \in DataPackets \cup {NoFrame})
  /\ <>[](\A i \in Pausable : ~sw.m_paused[i[1]][i[2]])
  /\ <>[][\A i \in PortQueue : sw.mmu.paused[i]
            => sw'.mmu.ingress_bytes[i] <= sw.mmu.ingress_bytes[i]]_sw
  => \A i \in PortQueue : []<>(~sw.mmu.paused[i])
===============================================================================
