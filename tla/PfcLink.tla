-------------------------------- MODULE PfcLink --------------------------------
(***************************************************************************)
(* A link into a switch (qbb-channel.cc and the two QbbNetDevices at its   *)
(* ends) together with the switch's MMU.  The sender transmits until a     *)
(* pause reaches it, and what is on its way by then must fit the headroom. *)
(*                                                                         *)
(* Time is counted in transmission times of a byte.  Of the sender only    *)
(* what it may transmit matters; of the switch's device, when it will have *)
(* transmitted its current packet and its queue 0, where PFC frames are    *)
(* queued behind other control frames.  Events that are due at one time    *)
(* happen in any order.  Packets and resumes may be lost; a lost pause is  *)
(* left out, since no headroom makes up for it.                            *)
(***************************************************************************)
EXTENDS SwitchBuffer

CONSTANTS
  Link,      \* the switch's port at the end of this link
  Delay,     \* m_delay of the channel
  PfcSize,   \* of a PFC frame
  MaxSize,   \* of any packet
  MaxAhead   \* bound: bytes in front of a PFC frame other than PFC frames

LinkPackets == {p \in DataPackets : p.inDev = Link}
DataQueues == Queues \ {0}

\* Packets are not sent back where they came from; in the time a lossless packet
\* takes a pause and a resume can be sent.
ASSUME LinkConfiguration ==
  /\ Link \in Ports
  /\ {Delay, MaxSize, MaxAhead} \subseteq Nat
  /\ PfcSize \in Nat \ {0}
  /\ MaxSize <= MaxAhead
  /\ \A p \in Packets :
       /\ p.size <= MaxSize
       /\ p.inDev # p.outDev
       /\ p.type = LOSSLESS => 2 * PfcSize <= p.size

VARIABLES
  sending,   \* until the sender has transmitted its current packet, if any
  frames,    \* packets on the link, with the time to their arrival
  m_paused,  \* the priorities the sender has paused
  back       \* the switch's device, and its PFC frames on the link

linkVars == <<mmu, held, sending, frames, m_paused, back>>

LinkInit ==
  /\ Init
  /\ sending = 0 /\ frames = {} /\ m_paused = {}
  /\ back = [busy |-> 0, pfcs |-> {}]

-------------------------------------------------------------------------------
(* The sender *)

\* Fault: a pause does not stop a sender that is transmitting.
MaySend_WhenPaused(p) == sending = 0

MaySend(p) == sending = 0 /\ p.qIndex \notin m_paused

TransmitStart(p) ==
  /\ MaySend(p)
  /\ p \notin held /\ \A f \in frames : f.pkt # p
  /\ sending' = p.size
  /\ frames' = frames \cup {[pkt |-> p, eta |-> p.size + Delay]}
  /\ UNCHANGED <<mmu, held, m_paused, back>>

\* Receive of a PFC frame, which may be found corrupted if it is a resume.
ReceivePfc(g) ==
  /\ g.eta = 0
  /\ back' = [back EXCEPT !.pfcs = @ \ {g}]
  /\ \/ m_paused' = IF g.pause THEN m_paused \cup {g.q} ELSE m_paused \ {g.q}
     \/ ~g.pause /\ UNCHANGED m_paused
  /\ UNCHANGED <<mmu, held, sending, frames>>

-------------------------------------------------------------------------------
(* The switch *)

SendPfc(b, q, pause) ==
  [busy |-> b.busy + PfcSize,
   pfcs |-> b.pfcs \cup {[q |-> q, pause |-> pause, eta |-> b.busy + PfcSize + Delay]}]

\* Fault: whether a queue is paused is told again although it has not changed.
Tell_Repeats(b, q, m, n) == SendPfc(b, q, n.paused[<<Link, q>>])

\* CheckAndSendPfc and CheckAndSendResume: a PFC frame for every change of paused.
Tell(b, q, m, n) ==
  IF m.paused[<<Link, q>>] = n.paused[<<Link, q>>] THEN b
  ELSE SendPfc(b, q, n.paused[<<Link, q>>])

\* p leaves the switch; on this port it occupies the device, which must be idle.
Leaves(b, p) == IF p.outDev = Link THEN [b EXCEPT !.busy = p.size] ELSE b
MayLeave(p) == p.outDev = Link => back.busy = 0

\* Receive of a packet by the switch, which may find it corrupted.
Receive(f) ==
  LET p == f.pkt
      q == p.qIndex
  IN  /\ f.eta = 0
      /\ frames' = frames \ {f}
      /\ \/ Admit(p) /\ back' = Tell(back, q, mmu, mmu')
         \/ CutThrough(p)
              /\ back' = Tell(Tell(back, q, mmu, Admitted(mmu, p)), q, Admitted(mmu, p), mmu')
         \/ Drop(p) /\ UNCHANGED back
         \/ UNCHANGED <<mmu, held, back>>
      /\ UNCHANGED <<sending, m_paused>>

\* A packet arrives at another port.
ReceiveElsewhere(p) ==
  /\ p.inDev # Link
  /\ \/ Admit(p) /\ UNCHANGED back
     \/ MayLeave(p) /\ CutThrough(p) /\ back' = Leaves(back, p)
     \/ Drop(p) /\ UNCHANGED back
  /\ UNCHANGED <<sending, frames, m_paused>>

\* A packet is dequeued.
Depart(p) ==
  /\ MayLeave(p)
  /\ Release(p)
  /\ back' = IF p.inDev = Link THEN Tell(back, p.qIndex, mmu, mmu') ELSE Leaves(back, p)
  /\ UNCHANGED <<sending, frames, m_paused>>

\* An acknowledgement or another control frame enters queue 0.
ControlFrame(size) ==
  /\ back.busy + size <= MaxAhead
  /\ back' = [back EXCEPT !.busy = @ + size]
  /\ UNCHANGED <<mmu, held, sending, frames, m_paused>>

-------------------------------------------------------------------------------
(* Time *)

Earlier(t) == IF t > 0 THEN t - 1 ELSE 0

Tick ==
  /\ \A f \in frames \cup back.pfcs : f.eta > 0
  /\ sending' = Earlier(sending)
  /\ frames' = {[f EXCEPT !.eta = @ - 1] : f \in frames}
  /\ back' = [busy |-> Earlier(back.busy),
              pfcs |-> {[g EXCEPT !.eta = @ - 1] : g \in back.pfcs}]
  /\ UNCHANGED <<mmu, held, m_paused>>

LinkNext ==
  \/ \E p \in LinkPackets : TransmitStart(p)
  \/ \E f \in frames : Receive(f)
  \/ \E g \in back.pfcs : ReceivePfc(g)
  \/ \E p \in DataPackets : ReceiveElsewhere(p) \/ Depart(p)
  \/ \E size \in 1 .. MaxAhead : ControlFrame(size)
  \/ Tick

LinkSpec == LinkInit /\ [][LinkNext]_linkVars

-------------------------------------------------------------------------------
(* Properties *)

\* When the last byte of a PFC frame that is queued now has arrived, at the latest.
Notice == MaxAhead + (Cardinality(DataQueues) + 1) * PfcSize + Delay

\* What a queue of this link needs: the packet that enters the headroom, what
\* arrives until the pause does, the packet that is started just before, and what
\* is on the link then.
HeadroomNeeded == 2 * MaxSize + Notice + Delay

\* Headroom of that size holds every lossless packet that arrives on the link,
\* whatever the other ports, the thresholds and the reverse direction do: no
\* packet is dropped for want of headroom of its queue.
HeadroomSuffices ==
  \A f \in frames :
    f.eta = 0 /\ f.pkt.type = LOSSLESS =>
      mmu.xoffUsed[In(f.pkt)] + f.pkt.size <= HeadroomNeeded

\* The configurations for which the link is lossless: the switch is, each queue of
\* the link has the headroom it needs, the egress pool holds the buffer, and the
\* egress threshold of a lossless queue (alpha of UINT16_MAX in the example programs)
\* reaches the size of the buffer while there is room for one more packet.
NoDropConfiguration ==
  /\ LosslessConfiguration
  /\ bufferPool <= egressPool[LOSSLESS]
  /\ \A p \in LinkPackets : p.type = LOSSLESS =>
       /\ HeadroomNeeded <= xoff[In(p)]
       /\ bufferPool * AlphaUnit
            <= Alpha(egressAlg[LOSSLESS], alphaEgress[Out(p)], p.unsched) * p.size

\* No lossless packet that arrives on the link is dropped at all, at the ingress or
\* at the egress, if NoDropConfiguration.
NeverDropped ==
  \A f \in frames : f.eta = 0 /\ f.pkt.type = LOSSLESS => Admits(mmu, f.pkt)

\* The assertion of Resume, "Must be PAUSEd": a resume finds its priority paused,
\* however many frames are on their way and whichever resumes are lost.
ResumeFindsPause ==
  \A g \in back.pfcs : g.eta = 0 /\ ~g.pause => g.q \in m_paused
===============================================================================
