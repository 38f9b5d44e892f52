# A verification of the switches, NICs and transport of `RDMA_pushout`

The repository holds two ns-3 trees with packet-level models of data-centre switches
that share one packet buffer between their ports:

- `src/RDMA_BMs/ns-3.39`: a RoCE fabric. Switches with a memory management unit (MMU)
  that decides which packets enter the shared buffer and when to pause a sender with
  priority flow control (PFC); hosts with an RDMA NIC, go-back-N transport and a choice of
  congestion controls. Buffer management schemes: DT, FAB, ABM, the SONiC model, Reverie.
- `src/Occamy/ns-3`: TCP-style traffic through a shared-memory switch with static and
  dynamic thresholds, push-out and Occamy's token-limited head drop.

This directory specifies in TLA+ the switch, the link with its headroom, the host NIC and
the transport of the first tree, and the shared memory and the port schedulers of the second. TLC checks
the specifications on small instances. TLAPS proves for all instances the switch's buffer accounting,
the headroom a link needs, that the transport delivers, that an Occamy port never idles and serves its queues fairly, the accounting of Occamy's shared
memory with its push-outs, the turns and the budget of its head drops, and that a host NIC sends only what is ready and forgets nobody.

In this file `P/` stands for `src/RDMA_BMs/ns-3.39/src/point-to-point/model/` and `O/` for
`src/Occamy/ns-3/src/`.

## 1. Inventory

The simulator runs one event at a time, to completion. So there are no threads; what is hard is that handlers
nest (a packet's arrival may send a pause, start a transmission and notify the MMU of a
departure before it returns), that events come in any order, and that counters are unsigned
and are updated incrementally over millions of events with nothing to re-synchronise them.

| Component | State | Operations | What makes it correct | Module |
|---|---|---|---|---|
| **SwitchMmu** `P/switch-mmu.cc` | per port and queue: bytes at ingress and egress, headroom used, pause flag, filtered occupancies, congestion levels; totals per pool | `Check*Admission`, `Update*Admission`, `RemoveFrom*Admission`, `CheckShouldPause/Resume`, thresholds (DT, FAB, ABM, Reverie) | counters equal the buffer's content; no unsigned subtraction wraps; pools disjoint; no overrun; lossless packets dropped only after a pause; a pause is always withdrawn | `SwitchMmu`, `SwitchBuffer` |
| **SwitchNode** `P/switch-node.cc` | the MMU, its devices | `SendToDev` (route, classify, admit, maybe pause, enqueue), `SwitchNotifyDequeue` (uncount, maybe resume) | every event is one consistent change of the MMU, in spite of nesting | `SwitchNode` |
| **QbbNetDevice**, switch side `P/qbb-net-device.cc` | READY/BUSY, frame in transmission, paused priorities, link state | `DequeueAndTransmit`, `TransmitComplete`, `Receive`, `Resume`, `SendPfc`, `TakeDown` | obeys pauses; never idles with a sendable frame; emits alternating pause/resume | `SwitchNode` |
| **BEgressQueue** `src/RDMA_BMs/ns-3.39/src/network/utils/broadcom-egress-queue.cc` | 8 FIFOs, last queue served | `Enqueue`, `DequeueRR` | strict priority of queue 0, round robin of unpaused others | `SwitchNode` |
| **QbbChannel** `P/qbb-channel.cc` | frames in flight | `TransmitStart` | headroom covers what is in flight when a pause is decided; PFC frames arrive in order | `PfcLink` |
| **QbbNetDevice**, host side, **RdmaEgressQueue** | ACK queue, group of queue pairs, turn between pairs and TCP, wakeup | `GetNextQindex`, `DequeueAndTransmit`, `UpdateNextAvail`, pause and resume | only what is ready is sent; nothing that waits for its pace is forgotten; no starvation | `HostNic` |
| **RdmaHw**, **RdmaQueuePair** `P/rdma-hw.cc` | `snd_una`, `snd_nxt`, receiver's expected sequence, NACK timer | `GetNxtPacket`, `ReceiveUdp`, `ReceiveAck`, `RecoverQueue`, `QpComplete` | in-order complete delivery; `snd_una <= snd_nxt <= m_size` | `RdmaTransport`, `MessageDelivery` |
| Congestion control in RdmaHw, Pint | rates, targets, timers | DCQCN, HPCC, TIMELY, DCTCP, PowerTCP | rates within bounds; stages in order | |
| RdmaDriver, RdmaClient, header codecs | none of their own | forwarding, (de)serialisation | | |
| GenQueueDisc, SharedMemoryBuffer | shared occupancy, thresholds | `AcceptPacket`, enqueue, dequeue | occupancy equals content | |
| **Occamy SharedMemoryPointToPointNetDevice**, **Switch** `O/point-to-point/model/`, `O/network/model/switch.cc` | static and shared use per queue, tokens, head-drop cursor | `SendSwitch`, `AcceptPacket`, push out, head drop, `TransmitCompleteSwitch` | static + shared = queue; no overrun; push-out not in vain; tokens cover drops | `OccamySwitch`, `TokenBudget` |
| **MultipleQueue** `O/network/utils/multiple-queue.cc` | FIFOs, last queue served, DRR credits | enqueue, dequeue by RR, PQ, DRR, PQDRR | work conserving, fair, credits bounded | `MultipleQueue`, `PortScheduler` |

Interaction: a device hands a received packet to `SwitchNode::SendToDev`, which calls the MMU and then
`SwitchSend` of the out device; a device that dequeues a data packet calls
`SwitchNode::SwitchNotifyDequeue`, which calls the MMU and possibly `SendPfc` of the in device. PFC frames
travel in queue 0, which neither the MMU nor pause touches. They cross a `QbbChannel` to the peer, a switch or a
host NIC, and stop the priority there. An Occamy device calls the `Switch` it belongs to for
thresholds and memory, and walks over the queues of its neighbours to push out or head drop. The hard behaviours, each at its
line, are the `hazards` of `PROJECT.json`.

## 2. Modules

| Module | Models | Remarks |
|---|---|---|
| `ByteTotals` | | sums of a function over a set |
| `SwitchMmu` | `SwitchMmu` | pure operators on a record of the class's counters |
| `SwitchBuffer` | MMU as seen from `SendToDev` and `SwitchNotifyDequeue` | the abstract switch: `held`, the set of packets in the buffer, and the counters |
| `SwitchNode` | SwitchNode, QbbNetDevice, BEgressQueue | implements `SwitchBuffer` |
| `PfcLink` | QbbChannel, the sender at its other end, PFC frames in flight | extends `SwitchBuffer`: the MMU whose headroom it is |
| `MessageDelivery` | | what the transport promises of one message |
| `RdmaTransport` | RdmaHw, RdmaQueuePair, RdmaRxQueuePair | one queue pair, its receiver and the fabric between; implements `MessageDelivery` |
| `HostNic` | QbbNetDevice of a host, RdmaEgressQueue, the NIC's part of RdmaHw | several pairs, acknowledgements and TCP on one link |
| `MultipleQueue` | `MultipleQueue` | pure operators on a record of the class's members |
| `PortScheduler` | one port of an Occamy switch | who may enter and who is head-dropped is left open |
| `TokenBudget` | | what Occamy promises of its head drops |
| `OccamySwitch` | SharedMemoryPointToPointNetDevice, Switch | implements `TokenBudget` |
| `MC...` | | the instances TLC checks |
| `...Proofs` | | lemmas and theorems, see 4 |

**State and data.** Variables and fields keep the source's names: `ingress_bytes`, `xoffUsed`, `paused`, `m_rrlast`,
`token_num` and so on, a two-dimensional C++ array being a function on pairs. A packet is a
record of what the switch reads of it: in and out device, priority, class, size, unscheduled tag; where only its size
matters (Occamy) it is its size. Real
numbers are rationals with a common denominator (`AlphaUnit`, `GammaUnit`, `congestionIndicator`)
and are truncated where the code converts to `uint64_t`. Natural-number subtraction is exact in the
model, so a counter that would wrap in the code becomes negative and breaks `TypeOK`; the one subtraction that really
wraps (`GetIngressSharedUsed`) is taken modulo `Uint64`, as is the pool size that is left after
reservations in `IngressThreshold`.

**Side effects of checks.** Under Reverie computing a threshold calls `setCongested`. `AfterChecks`
and `ResumeIfPossible` model exactly which thresholds the short-circuit evaluation of the code computes,
the one in the log message of a drop included.

**Switch.** In `SwitchBuffer`: `Admit`, `Drop`, `Release`, and `CutThrough`, the packet that is
admitted and dequeued within one event because its port is idle. In `SwitchNode` an action is one simulator event: `Receive`,
`ReceivePause`, `ReceiveResume`, `TransmitComplete`, `TakeDown`. The methods they
call are operators from switch state to switch state, composed in the order of the
calls. `DequeueAndTransmit` calls `SwitchNotifyDequeue` after it has taken the packet; in
the code this happens before `TransmitStart` sets the device BUSY, and the model marks it busy first. The two orders
only differ if the notification re-enters the same device, that is if a packet leaves through the device
it came in on; routes are shortest paths, and `NodeConfiguration` assumes they do not lead back. `TakeDown` discards what its
device has queued without telling the MMU (the source has a TODO there); the packets stay counted, in the model as in the code.
`SwitchNode!ImplementsBuffer` is `SwitchBuffer!Spec` under `mmu <- sw.mmu`,
`held <- Held \cup discarded` (the data packets in the egress queues and those a failed link threw away). With it, whatever is proved of `SwitchBuffer`
for every configuration is a fact about the node.

**Link.** `PfcLink` adds to `SwitchBuffer` one link into the switch. Time is counted in transmission times of a byte.
`sending` is what the sender still has to transmit of its current packet, `frames` the packets on the link, each with the time
until its last byte has arrived, `m_paused` the priorities the sender has paused. Of the reverse direction matter `back.busy`, when the
switch's device will have sent its current packet and its queue 0, and `back.pfcs`, the PFC frames queued or on the wire. `TransmitStart`
is the sender's, `Receive` the arrival of a packet with all the switch does about it (a PFC frame for every change of `paused`),
`ReceivePfc` the arrival at the sender; the switch's other ports go on with `ReceiveElsewhere`, `Depart` and `ControlFrame`, and
`Tick` passes time when nothing is due. Any packet may be found corrupted, and any resume. A lost pause is left out: no
headroom makes up for it, and after it the next resume trips the assertion in `Resume`.

**Transport.** `Send` is `GetNxtPacket`; `ReceiveUdp` splits into the three outcomes of `ReceiverCheckSeq`
(`ReceiveInOrder`, `ReceiveAhead`, `ReceiveDuplicate`); `ReceiveAck` does all of `Acknowledge`, `QpComplete` and `RecoverQueue`
in that order. `ClearFinished` is the part of `GetNextQindex` that takes finished pairs out of the group, which a NIC does at any
time it looks for something to send. A pair that has left the NIC's group may still be in `m_qpMap`, and the other way round. Between the NICs packets keep their
order, as a flow takes one path and each direction one queue; up to `MaxLoss` of them get lost. The NACK timer may run out at any time after it was
set. Pacing, pauses and the competition of other pairs are the arbitrary delay of `Send`.
`delivered` is a history variable: how many bytes the receiver has accepted before the first missing one; in go-back-to-zero
mode the receiver accepts some again, so its expected sequence number falls behind it. `Delivery` maps
`confirmed` to `snd_una` and `complete` to the pair's absence from `m_qpMap`, where it is when `m_notifyAppFinish` has been called.

**Host NIC.** `HostNic` is what `RdmaTransport` leaves open: which pair sends when. Bytes are counted in packets and time in
transmission times of a packet. `NextQp` is `GetNextQindex` with its removal of finished pairs and its correction of the
choice; `DequeueAndTransmit` has the strict priority of acknowledgements, the alternation of pairs and TCP and the scheduling of `m_nextSend`. It
ends every event: `NewQp`, `Send`, `ReceiveUdp`, `ReceiveAck`, `Resume`, `TransmitComplete`, `NextSend`. `ChangeRate` is a congestion control that
sets any rate at any time, `StopTime` the passing of a pair's stop time. `since` is how long ago a pair last sent, so that `m_nextAvail` is
`Wait`. Losses are left to `RdmaTransport`. The peer pauses only the priorities of data, as the switches of this repository do.

**Occamy.** Sizes are in cells of 200 bytes (`ceil_size`), time in intervals of `TokenAdd`. `Send` is `SendSwitch` with
`AcceptPacket`, `PushOutPacket` and the transmission it may start; `TransmitCompleteSwitch` the end of a transmission; `TokenInterval` the
event `TokenAdd`, with the head drop of `DropTOKEN` or `DropLONGTOKEN` it allows; `scheduled` says that its next event is. `TokenAdd` stops scheduling itself at 1.1 s
(`O/point-to-point/model/shared-memory-point-to-point-net-device.cc:1782`); time is not counted from the start, so any call of it may be the last (`Reschedule`). The last
one still refills and may drop a head; then (`Ended`) packets arrive, are sent and pay as before, but nothing is added and no head is dropped. The shipped
benchmarks simulate ten seconds beyond their end time (`src/Occamy/ns-3/examples/Occamy/occamy_100g_benchmark.cc:581`). While no `TokenAdd` is scheduled, `TimePasses` stands for time. A configuration is
an initial state, so that one run compares all methods. `overtaken` is a history variable of the
head drops. `PortScheduler` is one port with arrivals and head drops at any time, so that what it shows
holds for whatever admission and head drop do; its history `lead` counts by how much one of two waiting queues is ahead of the other.
`OccamySwitch!ImplementsTokenBudget` maps `work` of `TokenBudget` to the rest of the transmissions under way and `ended` to `Ended`.
All devices have one bandwidth (`Duration`): `TokenAdd` takes its interval from the bandwidth of the generator alone (line 1770). An MMU that pushes out has all its ports (`FullGroups`):
`PushOutPacket` visits every index of the group, unlike the head drops, which stop at the last device.

Operators named `Op_Fault` are not part of the specification: each is `Op` with a plausible bug, and
`PROJECT.json` names for every checked property a fault that violates it.

## 3. Runs

| Run | Question | Distinct states |
|---|---|---|
| `buffer_sonic` | SONiC model, lossless and lossy packets in the same queue, FAB egress: accounting, limits, pause consistency | 14 213 |
| `buffer_reverie` | Reverie: shared pool, filters, congestion sums | 6 999 |
| `node_traffic` | the node with queues, nested PFC and a port that fails implements the buffer; scheduling, PFC stream, every pause ends | 79 740 |
| `pfc_link` | headroom suffices and PFC frames match, with frames in flight | 1 134 926 |
| `transport` | go-back-N delivers and, without loss, completes without repeating itself | 17 879 |
| `host_nic` | only what is ready is sent, nothing is forgotten, all messages complete | 636 883 |
| `scheduler` | credits, fairness and progress under four ways to dequeue | 90 275 |
| `occamy` | shared memory under thresholds, push-out and head drop | 635 003 |
| `reverie_lossless_drop` | *violation*: Reverie drops a lossless packet whose sender was never paused | |
| `shared_use_wraps` | *violation*: `GetIngressSharedUsed` wraps | |
| `transport_next_behind` | *violation*: a repeated NACK leaves `snd_nxt` behind `snd_una` | |
| `nic_stale_index` | *violation*: `GetNextQindex` sends from the wrong pair | |

What the passing runs show, beyond the types:

- `CountersMatchBuffer`, `PoolsPartitionBuffer`: the counters are the buffer. The guarded
  subtractions ("simply unnecessary", says the source) are in fact never needed, and the unguarded ones never wrap.
- `HeadroomBounded`: the exact limit of a queue's headroom, with the exemption of the first packet and of a
  queue within its reservation. A queue can therefore use more than `xoff`.
- `LosslessDropsOnlyPaused`: under SONiC an ingress drop of a lossless packet means the sender had
  been paused. Under Reverie this fails (first violation run).
- `HeadroomMeansPaused`, `PausedMeansOccupied`: pausing is never late and never forgotten: a paused
  queue holds a packet whose departure will reconsider it. Under Reverie the second needs that a priority carries one class
  only (`OneClassPerPriority`), as the repository's Reverie experiments configure it.
- `WorkConserving`, `PauseRespected`, `PfcStreamFaithful`, `PauseEnds`: scheduling and PFC of the node.
- `HeadroomSuffices`, `NeverDropped`: `HeadroomNeeded` bytes of headroom hold whatever arrives after the pause was
  decided. This is a formula the repository does not have; see "How much headroom" below. `ResumeFindsPause` is the assertion of
  `Resume`, across the link.
- `ImplementsDelivery`: nothing is confirmed that was not delivered, completion is reported once, whatever gets lost.
  This holds in spite of the third violation, which harms progress only.
- `NoSpuriousNack`: without loss the receiver never sees a gap, in particular not after its side has been deleted
  by a completion. `LosslessCompletes`: without loss a message completes, in the configurations `Completable`
  names; the code's acknowledgement interval and chunk rounding exclude the others. After the loss of the end of a message nothing recovers: there is
  no retransmission timer.
- `SendsOnlyReady`: without stop times, the choice that `GetNextQindex` makes before it removes finished pairs is right. `WakeupScheduled`: a pair
  that only waits for its pace is looked at again, at its time or when another pair that is blocked is unblocked. It may therefore
  be later than its pace: the minimum over `m_nextAvail` includes pairs that are paused or window bound, and if one of them is already due no look is scheduled.
  `AllComplete`: all messages are confirmed in the end.
- `CreditBounded`, `WorkConserving`, `Fair`, `NoStarvation` of a port: DRR's loop, which gives up after one round, finds a packet if one turn's credit pays for the
  largest one; two queues that wait stay within one packet (RR) or a turn's credit and two packets (DRR) of each other.
- `MemoryBalanced`, `BufferNeverOverrun`, `PushoutAlwaysFits`, `HeadDropTurns`: the memory of an Occamy switch. `ImplementsTokenBudget`:
  the transmissions and head drops of all its ports spend tokens as `TokenBudget` allows, which after the last `TokenAdd` is
  only to send and pay.

**How much headroom.** `HeadroomNeeded` is `2 * MaxSize + Notice + Delay`, where `Notice`, the longest way of a PFC frame
to the sender, is `MaxAhead + (priorities + 1) * PfcSize + Delay`: a packet and ACKs that are ahead of it in the device (`MaxAhead`), PFC frames of
all priorities, and the link. It assumes that a lossless packet is at least as long as two PFC frames (31 bytes each). The Reverie
experiment sets `2 * (payload + 48) + 3860 + 2 * rate * delay` (`src/RDMA_BMs/ns-3.39/examples/Reverie/reverie-evaluation-sigcomm2023.cc:1307`),
which is the same formula if ACKs and PFC frames ahead of a pause do not exceed 3860 bytes; nothing in the code bounds them. The PowerTCP experiments
set three times the bandwidth-delay product (`powertcp-evaluation-burst.cc:942`), which is enough if one delay's worth of bytes covers two packets, `MaxAhead` and the PFC frames.

**Bounds.** *Switch:* two ports, one lossless, one lossy and one control queue; packets of one and two bytes,
four kinds, two of each (eight packets), a chip of 8 to 11 bytes. The pools are so small that in `buffer_sonic` a
state exists in which the ingress threshold, a queue's headroom limit, the egress threshold, the egress pool and the
chip alone decide over a packet, in `buffer_reverie` the headroom limit, the chip and the Reverie threshold. The headroom pool, the shared pool and
`ingressPool + xoffTotal` are never the only limit that fails there; the source calls the last redundant with DT. Two
ports are the smallest number in which two ingress queues share an egress queue's pool and each other's headroom
pool, and a port is both sender and receiver of pauses. `MaxCtrl` bounds the control frames that wait at a port
which still accepts data; PFC frames themselves are not bounded. One port may go down, after which the packets stuck behind it have
been discarded and peers may stay silent, so deadlock is not checked in `node_traffic`.

*Link:* one lossless priority, packets of two and three bytes, five of each, a lossy packet between the other ports that shares the buffer, delay 1,
PFC frames of one byte, three bytes ahead. `HeadroomNeeded` is 13 then, and no action bounds anything but through these constants. Packets that differ only in their
number are interchangeable; the action constraint `MCInOrder` picks the lowest number to send and the highest to leave and loses no behaviour up to renaming.

*Transport:* messages have three to four packets, in some flows a last one shorter than the MTU, chunks of two packets, an acknowledgement interval
that leaves the first packet unacknowledged, four packets under way in each direction and two losses: enough for a second NACK to cross
the acknowledgements of what the first one asked for. Flows with and without a window, going back to zero or not, one with an end that
is never acknowledged and one with a stop time are initial states of one run. The pair may stop with everything lost, so deadlock is not checked.

*NIC:* up to three pairs of one to three packets, two priorities, a full and a half rate, one TCP packet in the queue at a time (any number over time), one
acknowledgement to send, one pause and two changes of rate. That is enough for each source to have the turn while each other one waits, and for a finished
pair before, at and behind the chosen one. In `nic_stale_index` a NIC that has read past its group stops, so deadlock is not checked.

*Occamy:* two devices, in one MMU or in two, two queues each, packets of 4 and 8 cells, an MMU that two or three full packets fill; seven configurations. After the last
`TokenAdd` the debt grows with every packet, so `Send` stops at a debt of `MaxDebt` = 4 cells then: with the packets still queued the debt passes what `BudgetKept` allows while tokens are
added, and the property without that restriction does fail there. A drained switch at that bound has no further step, so deadlock is not checked in `occamy`. Queues
of `PortScheduler` hold up to two packets of sizes 1 and 3 against a credit of 4, so that credits go through zero in both directions.

**Fairness.** *Switch:* only `TransmitComplete`: the code schedules it with `Simulator::Schedule` when it
starts a transmission. Nothing is assumed of arrivals, nor that a peer resumes a queue it paused. `PauseEnds` instead has
these as antecedents: no link fails, control frames let up now and then (queue 0 has strict priority and TLC finds the starvation without this),
peers downstream eventually stop pausing, and peers upstream stop adding to a queue
while they are paused. *Transport:* what may be sent is sent, and what is under way arrives or gets lost (`Send`, `ReceiveUdp`, `ReceiveAck`): the NIC
asks for the next packet at the end of every transmission and at every ACK and resume. The losses and both timers have no fairness. *NIC:* time goes on, with the events due before it
(they are scheduled), until there is nothing left that time would change; peers acknowledge what has arrived
and end their pauses. The order of new pairs, TCP packets, rates and stop times is open. *Port:* `TransmitComplete` only. Fairness conditions are
written without `ENABLED` where the action's guard is a simple formula.

## 4. Proofs

Theorems hold for *every* value of the constants that the named assumptions admit.

**Switch** (`ByteTotalsProofs`, `SwitchMmuProofs`, `LosslessProofs`). `MmuConfiguration` admits
any number of ports, queues and packets, any pools, limits, alphas and
either buffer model: finitely many ports and queues, packet sizes positive, parameters natural numbers.
Only `LosslessCorrect` assumes a relation between pool sizes, reservations and headroom. Theorems: `TypeCorrect`, `CountersCorrect`,
`PoolsCorrect`, `HeadroomCorrect`, `HeadroomLimitCorrect`, `NoOverrun`, `HeadroomPaused`, `NoForgottenPause`, `FiltersCorrect`,
`CongestionCorrect`, `LosslessCorrect`.

None of the properties is inductive alone. That a departure does not wrap a counter needs that the packet
is counted in it (`CountersMatchBuffer`); that the *shared pool* does not wrap needs besides that a queue's headroom is never more than its
lossless bytes (`HeadroomIsLossless`), so that what a departure does not take from the headroom is still in the pool; that
needs in turn that the pools are the sums of their queues' parts. `Accounts` is the conjunction of these for a counter record and a set of packets; `Inv` adds the limits and the
pause state. The proof has three layers:

1. `ByteTotalsProofs`: how `Total` changes when a packet is added or removed, when one argument changes, and that a part is at most the whole.
   A recursive sum would need induction over data, so `Total` is defined as the cardinality of a set of byte cells
   and these facts follow from the library's facts on cardinality.
2. `SwitchMmuProofs`: for each MMU operation one lemma that says what it leaves in every counter (`IngressUpdated`,
   `IngressRemoved`, ...), composed to `Admitted` and `Released`. All case analysis on buffer models and headroom is here.
3. `LosslessProofs`, first part: `AdmitPreserves` and `ReleasePreserves` (from `Accounts` of a buffer to `Accounts` of the buffer with a packet more or
   less), `ChecksPreserve`, then `StepPreserves`: one step per action, `CutThrough` being an admission followed by a release.

`LosslessCorrect` is `LosslessDropsOnlyPaused` under `LosslessConfiguration`: the pool of a SONiC switch and its headroom fit the chip, as the example programs
set them, and a lossless packet and a queue's reservation fit its headroom. Its invariant `SharedWithin` says that the bytes outside headroom and
reservations, with the reservations, keep to `ingressPool`; then a packet that its threshold refuses finds room in its headroom unless the queue is in it already,
and a queue with headroom is paused. `pfc_link` has such a configuration. `buffer_sonic` does not, and the property holds there nevertheless, so the condition is
sufficient only.

**Node** (`SwitchNodeProofs`). `NodeImplementsBuffer`, `NodeConserving`, `NodePfcFaithful`, `NodePauseRespected` and `NodeTypeCorrect`, for any number of ports, queues
and packets (`MmuConfiguration`, `NodeConfiguration`). The invariant `NodeInv` adds to `WorkConserving` and `PfcStreamFaithful` that every data packet waits, once, in the queue it leaves
through and that what a failed link discarded is in no queue. The calls nest, so the lemmas follow the methods from the inside out
(`SendPfcGood`, `AcceptGood`, `NotifyGood`, `TransmitGood`, `ReceiveAdmitted`, ...), each from a good state to a good state. Two facts carry the rest: in between, only the port whose `DequeueAndTransmit` is
still to come may be idle with something to send (`Conserving`), and a packet that finds its port idle is the only one that port can send, which makes the event a `CutThrough`. Together with
`NodeImplementsBuffer` the theorems about `SwitchBuffer` hold of the node. That `SwitchNode!Buffer`, an instance, has the same operators as `SwitchMmu` is proved first.

**Link** (`LosslessProofs`, second part). `HeadroomHolds` and `ResumesMatch`, for every delay, packet sizes, number of priorities, thresholds and traffic
of the other ports (`LinkConfiguration`). The obvious argument adds up what is on the link, which would need sums over a varying set in every
step. The invariant `LinkInv` has two clocks instead. `OnWire`: any two frames on the link arrive as far apart as the later one is long.
`Backlog`: the device's backlog, with the resumes that are still to come, exceeds its limit for no longer than a lossless packet takes to arrive, because
a PFC frame needs a packet that arrived; so every PFC frame has at most `Notice` to go. `HeadroomClock`: what a queue has in its headroom is bounded by the time since its pause
was queued and, once the sender has stopped, by the time until its last packet arrives. `Told` and `Alternate` say that PFC frames of a priority
alternate and that the last one tells the MMU's state; `ResumesMatch` is an instance. What the MMU does to a queue comes from four lemmas
about it (`FrameAdmitted`, `FrameDropped`, `LinkReleased`, `ElsewhereView`) and from `Inv` of the switch.

`LinkIsLossless` is `NeverDropped` under `NoDropConfiguration`, which adds to `LosslessConfiguration` that every lossless queue has `HeadroomNeeded` and that the egress
limits let every lossless packet pass. It puts the two results together: by `HeadroomHolds` the headroom is not full, by `SharedWithin` neither are the pool and
the chip. `MCPfcLink` assumes `NoDropConfiguration`, so TLC evaluates that the instance meets it.

**Transport** (`RdmaTransportProofs`). For every message length, window, MTU, chunk, interval, mode and number of losses that
`TransportConfiguration` admits: `TransportTypeCorrect`, `DeliveryImplemented` (`Spec => Delivery!Spec`) and `NoNackWithoutLoss`. For
the first two the invariant `Inv` adds to the types that `snd_una`, the receiver's expected byte and every acknowledgement under way are at most `delivered`, and that
packets end within the message; without it a late acknowledgement could confirm anything. For the third `QuietInv` says what being in step
is: the packets under way are contiguous from the expected byte to `snd_nxt`, and none is left when the last byte is confirmed, which is why deleting the receiver's side is harmless.
Channels stay sequences over a set of packets; a step changes the set or the sequence, not both.

**Port** (`PortSchedulerProofs`). `CreditStaysBounded`, `NeverIdle` and `SharesFairly` for any number of queues, packet sizes and credit
(`QueueConfiguration`: one turn's credit pays for any packet). The difficulty is DRR's circle, which looks at the current queue twice;
the model states the outcome of each look in closed form, and the lemmas follow a queue that waits to the look that finds it with credit.
`SharesFairly` (`Fair`) compares two queues that have both waited since a common moment. Its invariant `LeadSound` bounds what one got more than the other, plus
the difference of their credits, by one packet and what is still to come to the other in the present round.

**Occamy's memory** (`OccamySwitchProofs`). `MemoryIsBalanced`, `BufferIsNotOverrun`, `PushoutFits`, `HeadsDropInTurn` and `SpendsWithinBudget`, for any number of devices, MMUs
and queues, any thresholds and packets within `OccamyConfiguration`, with or without push-out and head drop. Two more hypotheses name what the code relies on without saying:
`StaticSizes` (where a device has static memory its packets have one size, see 5) and, for `PushoutAlwaysFits` only, `TwoPacketsFit`. `MCOccamySwitch` assumes these and `AllPay`, so TLC
evaluates that its instances meet them. The inductive invariant `SwitchInvariant` says that every queue's bytes `Split` into the static and the shared bytes counted for it, static ones
being whole packets within the queue's reservation; that an MMU's `m_usedBuffer` is the sum of the shared bytes of its queues and at most its buffer; and where the head-drop cursor is. `Split` is what
an incremental counter needs: which memory a leaving packet gives back is decided by the counters at that time, not by where it came from, and only whole packets make the two agree.
The loop that pushes packets out is a fold over turns; `Pushed` and `PushedOut` say what one turn and the loop leave. For the cursor `TurnsKept` bounds, for each
queue that waits, the head drops that overtook it by the turns it is still away (`Distance`, `Ahead`).
`SpendsWithinBudget` is the refinement of `TokenBudget`, step by step: each step of the switch changes the tokens and the ports' work as `BudgetStep` allows, under
`AllPay` (a device that counts tokens has no static memory, whose packets pay none when they are sent).
`BudgetHolds` proves of `TokenBudget` itself, for any number of ports up to `port_num`, that as long as tokens are added the debt
never exceeds what the packets on the wires will earn and one head drop; its lemma `IntervalWork`
says what one interval takes off the sum of the ports' work. `DebtIsBounded` puts the two together. Neither says anything of the debt after
the last `TokenAdd` (`Ended`), where there is no bound; `SpendsWithinBudget` does: no head is dropped any more.

**NIC** (`HostNicProofs`). `NobodyForgotten` (`WakeupScheduled`) and `ReadyAreSent` (`SendsOnlyReady`), for any number of pairs and priorities, any rates of
which one is the slowest (the code's `m_minRate`), and any bounds. The invariant `NicInv` needs little beyond types, that nothing is confirmed that was not sent. What is
hard is the search: `Positions` says that it visits each pair of the group once wherever it starts, `Places` that the pairs that are kept get distinct positions
without gaps, so `MovedKeeps` can say that the position chosen before finished pairs are removed still means the same pair, unless that pair is finished
itself. `ReadyAreSent` excludes this by `StopsAlone` (a pair with a stop time has the NIC to itself; a pair without one that has bytes left is not finished), which `MCHostNic` assumes of
the flows of `host_nic`; the run `nic_stale_index` shows that the property fails without it. `NobodyForgotten` needs no such condition. Its argument, `NextSendScheduled`: `DequeueAndTransmit`
takes the minimum also over paused and window-bound pairs, so it may schedule nothing for a pair that waits, but only if a blocked one could send at once.

Model-checked only: the liveness properties (`PauseEnds`, `AllComplete`, `LosslessCompletes`, `NoStarvation`), which the prover does not support. Every other property of the passing runs is also a theorem.

## 5. Disagreements between code and comments

The four violation runs; `PROJECT.json` quotes the lines. Briefly: Reverie's pause decision reads a filter that only
departures update; `GetIngressSharedUsed` subtracts overlapping amounts; `RecoverQueue` rewinds to `snd_una` but `Acknowledge` may then
pass `snd_nxt`, after which a windowed flow counts as window bound for ever; `GetNextQindex` does not follow a chosen pair that it removes itself.

Met while modelling, without a run of their own:

- `TakeDown` does not tell the MMU of the packets it discards (the source has a TODO): their bytes stay counted for ever, and a
  sender paused for them is never resumed.
- The egress check drops lossless packets under SONiC, although the comment at `P/switch-mmu.cc:67` has lossless bypass it.
- Of Occamy: an ACK of 54 bytes pays a token of 200, so a load of ACKs drives `token_num` down without bound (`BudgetConfiguration` excludes it). `TokenAdd`
  ends at 1.1 s, but the simulation and its transmissions go on: from then on `token_num` only falls and a queue over its threshold is not dropped from any more. A UDP packet with a DSCP of 8 or more, or a packet that is neither UDP nor TCP,
  indexes `m_queues` beyond its end (line 797); in the model the index is at most `useqCnt`, one of the eight queues. With static
  memory, packets of several sizes make the static counters drift, and a head drop of a static packet gives back memory it never took; the shipped experiments
  have no static memory. Push-out under strict priority may remove packets and then reject the newcomer. `SendNode` puts every packet of a host into its queue twice (`O/point-to-point/model/shared-memory-point-to-point-net-device.cc:1122`).

## 6. Not modelled

- *Congestion control* (DCQCN, HPCC, TIMELY, DCTCP, PowerTCP, HPCC-PINT): arithmetic on doubles over measured times and rates. What
  the rest of the host sees of it is `ChangeRate`: any rate, at any time. The window that varies with the rate goes with it. A completing ACK that carries
  a congestion notification restarts the timers of a pair that is gone; this is listed as a hazard no property covers.
- *ABM thresholds* in both trees and GenQueueDisc: products of dequeue rates measured as doubles over time windows; a small instance of these means nothing.
- ECN marking, ECMP hashing and telemetry, which no modelled decision reads; queue 0's bytes, which the code does not count either; the 4 GB wrap of
  sequence numbers (messages are assumed shorter); a NIC whose link goes down.
- Occamy's host side, above which is the TCP stack of ns-3; `DropRR` and the other operations nothing calls.
- RdmaDriver, RdmaClient and the header codecs: forwarding and serialisation.
- The ns-3 core, TCP/IP stack, routing, traffic control, examples and scripts: upstream code or experiments, by far the largest part of the repository and the
  reason the share of all its lines that is modelled is small. The models take from it that one event runs at a time, to completion.
