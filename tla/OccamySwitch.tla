----------------------------- MODULE OccamySwitch -----------------------------
(***************************************************************************)
(* The shared memory of an Occamy switch                                   *)
(* (shared-memory-point-to-point-net-device.cc and network/model/          *)
(* switch.cc): devices with queues, groups of devices that share an MMU,   *)
(* admission by dynamic thresholds or push-out, static bytes of each       *)
(* queue, and head drops limited by tokens.  Sizes are in cells of         *)
(* ceil_size, 200 bytes; time is counted in intervals of TokenAdd.         *)
(***************************************************************************)
EXTENDS MultipleQueue, ByteTotals

CONSTANTS
  Device,     \* the network devices: 1 .. the number of ports, as GetIfIndex
  qAlpha,     \* factor of the dynamic threshold
  port_num,   \* intervals of TokenAdd in the transmission of a full packet
  Duration,   \* Duration[size]: intervals of TokenAdd in a transmission
  MaxDebt,    \* bound of the model: after the last TokenAdd, a packet arrives only
              \* while the debt of tokens is smaller
  Config      \* records enqueueMethod, m_dropType, dequeueType, useqCnt,
              \* staticBuffer, group (devices to an MMU), sizes and maxBuffer,
              \* the m_maxBuffer of each MMU

Methods == {"DT", "MULTILAYER_DT", "PUSHOUT"}

ASSUME OccamyConfiguration ==
  /\ Device = 1 .. Cardinality(Device)
  /\ qAlpha \in Nat
  /\ port_num \in Nat \ {0}
  /\ MaxDebt \in Nat
  /\ \A c \in Config :
       /\ c.enqueueMethod \in Methods
       /\ c.m_dropType \in {"NONE", "TOKEN", "LONGTOKEN"}
       /\ c.dequeueType \in DequeueTypes
       /\ c.useqCnt \in Nat \ {0}
       /\ c.staticBuffer \in Nat
       /\ c.staticBuffer > 0 => c.m_dropType = "NONE"
       /\ c.group \in Nat \ {0}
       /\ c.sizes \subseteq PacketSize
       /\ c.maxBuffer \in Nat

\* PushOutPacket looks at every port an MMU may have.
ASSUME FullGroups ==
  \A c \in Config : c.enqueueMethod = "PUSHOUT" => Cardinality(Device) % c.group = 0

\* With static memory packets have one size: only then do a packet's bytes leave
\* the memory they entered.
StaticSizes == \A c \in Config : c.staticBuffer > 0 => \A y, z \in c.sizes : y = z

\* Under push-out an MMU has room for two packets of any size.
TwoPacketsFit ==
  \A c \in Config :
    c.enqueueMethod = "PUSHOUT" => \A size \in c.sizes : 2 * size <= c.maxBuffer

\* Where tokens are counted there is no static memory, whose packets pay nothing.
AllPay == \A c \in Config : c.enqueueMethod = "MULTILAYER_DT" => c.staticBuffer = 0

VARIABLES
  conf,      \* the configuration, which does not change
  sw,        \* the state of the switch
  scheduled, \* TokenAdd has scheduled its next event
  overtaken  \* history: the head drops taken from other queues since this one,
             \* of the generator's MMU, is over its threshold

vars == <<conf, sw, scheduled, overtaken>>

\* GetMMUSwitch, and the devices from left to right that share it.
Mmu(d) == (d - 1) \div conf.group

\* Fault: a device only looks at its own queues.
Members_Own(d) == {d}

Members(d) == {e \in Device : Mmu(e) = Mmu(d)}

\* A device that is READY.
Idle == -1

Init ==
  \E c \in Config :
    /\ conf = c
    /\ sw = [mq |-> [d \in Device |-> NewMultipleQueue(c.dequeueType, c.useqCnt)],
             usedStaticBuffer |-> [d \in Device |-> [q \in 0 .. c.useqCnt - 1 |-> 0]],
             m_usedBuffer |-> [d \in {(e - 1) \div c.group : e \in Device} |-> 0],
             remaining |-> [d \in Device |-> Idle],
             token_num |-> 0,
             generator |-> None,
             last_head_drop |-> <<1, 0>>]
    /\ scheduled = FALSE
    /\ overtaken = [p \in Device \X (0 .. c.useqCnt - 1) |-> 0]

-------------------------------------------------------------------------------
(* Counters *)

\* The bytes of a queue: GetNBytes ().
NBytes(queue) == Total(DOMAIN queue, queue)

\* Queues that are not in use stay empty.
Bytes(s, d, q) ==
  IF q \in Subqueues(s.mq[d]) THEN NBytes(s.mq[d].m_queues[q]) ELSE 0

StaticBytes(s, d, q) ==
  IF q \in Subqueues(s.mq[d]) THEN s.usedStaticBuffer[d][q] ELSE 0

Shared(s, d, q) == Bytes(s, d, q) - StaticBytes(s, d, q)

GetQueueThreshold(s, d) == qAlpha * (conf.maxBuffer - s.m_usedBuffer[Mmu(d)])

Fits(s, d, size) == s.m_usedBuffer[Mmu(d)] + size <= conf.maxBuffer

AddUsed(s, d, size) == [s EXCEPT !.m_usedBuffer[Mmu(d)] = @ + size]
DeleteUsed(s, d, size) == [s EXCEPT !.m_usedBuffer[Mmu(d)] = @ - size]

\* ceil (size / ceil_size) tokens, sizes being in cells.
TokenDelete(s, size) ==
  IF conf.enqueueMethod = "MULTILAYER_DT"
  THEN [s EXCEPT !.token_num = @ - size] ELSE s

-------------------------------------------------------------------------------
(* Head drops *)

Positions(d) == Members(d) \X (0 .. conf.useqCnt - 1)

\* Device d takes its own static bytes off the bytes of another device's queue.
OverThreshold(s, d, p) ==
  Bytes(s, p[1], p[2]) - StaticBytes(s, d, p[2]) > GetQueueThreshold(s, d)

\* The head of a queue goes, and is paid for.
DropHead(s, d, p) ==
  LET size == Head(s.mq[p[1]].m_queues[p[2]])
      left == [s EXCEPT !.mq[p[1]] = DequeueFrom(@, p[2])]
  IN  TokenDelete(DeleteUsed(left, d, size), size)

\* Queues are numbered through their MMU's ports, from left to right.
Number(d, p) == (p[1] - Mmu(d) * conf.group - 1) * conf.useqCnt + p[2]

\* Fault: the pass always begins with the first queue.
Cursor_AtFirst(s, d) == Cardinality(Positions(d)) - 1

Cursor(s, d) == Number(d, s.last_head_drop)

\* How many queues on from the last one dropped from.
Distance(s, d, p) ==
  LET n == (Number(d, p) - Cursor(s, d)) % Cardinality(Positions(d))
  IN  IF n = 0 THEN Cardinality(Positions(d)) ELSE n

\* The queue a pass of DropTOKEN drops from.
NextInTurn(s, d) ==
  {p \in Positions(d) :
     /\ OverThreshold(s, d, p)
     /\ \A r \in Positions(d) :
          OverThreshold(s, d, r) => Distance(s, d, p) <= Distance(s, d, r)}

\* The longest queue, the last one of several.
LongestOf(s, d) ==
  CHOOSE p \in Positions(d) :
    \A r \in Positions(d) \ {p} :
      \/ Bytes(s, r[1], r[2]) < Bytes(s, p[1], p[2])
      \/ /\ Bytes(s, r[1], r[2]) = Bytes(s, p[1], p[2])
         /\ Number(d, r) < Number(d, p)

\* The queue a pass of DropLONGTOKEN drops from.
LongestOver(s, d) ==
  {p \in {LongestOf(s, d)} :
     Bytes(s, p[1], p[2]) > conf.staticBuffer /\ OverThreshold(s, d, p)}

HeadDropQueue(s, d) ==
  CASE conf.m_dropType = "TOKEN"     -> NextInTurn(s, d)
    [] conf.m_dropType = "LONGTOKEN" -> LongestOver(s, d)
    [] OTHER                         -> {}

\* The tokens of a full packet, and no more than max_token_num, are there.
Refill(s) == [s EXCEPT !.token_num = IF @ + 8 > 8 THEN 8 ELSE @ + 8]

\* Fault: head drops go into debt.
MayDrop_InDebt(s) == TRUE

MayDrop(s) == s.token_num > 0

\* TokenAdd with the head drop it allows: the state and the queues dropped from.
TokenAdd(s, d) ==
  LET r == Refill(s)
      from == IF MayDrop(r) THEN HeadDropQueue(r, d) ELSE {}
      p == CHOOSE p \in from : TRUE
  IN  IF from = {} THEN [sw |-> r, from |-> {}]
      ELSE [sw |-> [DropHead(r, d, p) EXCEPT
                      !.last_head_drop = IF conf.m_dropType = "TOKEN" THEN p ELSE @],
            from |-> from]

\* The first packet to ask for shared memory makes its device the generator.
StartTokens(s, d) ==
  IF conf.enqueueMethod = "MULTILAYER_DT" /\ s.generator = None
  THEN TokenAdd([s EXCEPT !.generator = d,
                          !.last_head_drop = <<Mmu(d) * conf.group + 1, 0>>], d).sw
  ELSE s

-------------------------------------------------------------------------------
(* Admission *)

BelowThreshold(s, d, q, size) ==
  Shared(s, d, q) + size <= GetQueueThreshold(s, d)

\* PushOutPacket for a packet of queue q of device d; ok: a packet was removed.
PushOutPacket(push, d, q) ==
  LET s == push.sw
      p == LongestOf(s, d)
      size == Head(s.mq[p[1]].m_queues[p[2]])
  IN  IF \/ conf.dequeueType = "PQ" /\ p[2] < q
         \/ Bytes(s, p[1], p[2]) <= conf.staticBuffer
      THEN [push EXCEPT !.ok = FALSE]
      ELSE [push EXCEPT
              !.sw = DeleteUsed([s EXCEPT !.mq[p[1]] = DequeueFrom(@, p[2])], d, size),
              !.space = @ + size]

\* Packets are pushed out until there is space or nothing may be pushed out.
PushOut(s, d, q, size) ==
  LET push[n \in 0 .. size] ==
        IF n = 0 THEN [sw |-> s, space |-> 0, ok |-> TRUE]
        ELSE LET before == push[n - 1]
             IN  IF before.ok /\ before.space < size
                 THEN PushOutPacket(before, d, q) ELSE before
  IN  push[size]

\* Fault: one packet is pushed out, whatever its size.
MakeRoom_Once(s, d, q, size) ==
  LET push == PushOutPacket([sw |-> s, space |-> 0, ok |-> TRUE], d, q)
  IN  [sw |-> push.sw, ok |-> push.ok]

MakeRoom(s, d, q, size) ==
  LET push == PushOut(s, d, q, size)
  IN  [sw |-> push.sw, ok |-> push.ok]

\* AcceptPacket: the state it leaves, and whether the packet may be stored.
AcceptPacket(s, d, q, size) ==
  CASE conf.enqueueMethod = "DT" ->
         [sw |-> s, ok |-> Fits(s, d, size) /\ BelowThreshold(s, d, q, size)]
    [] conf.enqueueMethod = "MULTILAYER_DT" ->
         LET t == StartTokens(s, d)
         IN  [sw |-> t,
              ok |-> /\ Fits(t, d, size)
                     /\ Shared(t, d, q) = 0 \/ BelowThreshold(t, d, q, size)]
    [] conf.enqueueMethod = "PUSHOUT" ->
         IF Fits(s, d, size) THEN [sw |-> s, ok |-> TRUE]
         ELSE MakeRoom(s, d, q, size)

-------------------------------------------------------------------------------
(* Transmission *)

\* Fault: a queue whose bytes are all static counts as having one too many.
FromStatic_AllStatic(s, d, q) == s.usedStaticBuffer[d][q] >= Bytes(s, d, q)

\* The packet just taken from queue q counts as static.
FromStatic(s, d, q) == s.usedStaticBuffer[d][q] > Bytes(s, d, q)

\* What a packet taken from queue q gives back.
Settle(s, d, q, size) ==
  IF FromStatic(s, d, q)
  THEN [s EXCEPT !.usedStaticBuffer[d][q] = @ - size]
  ELSE TokenDelete(DeleteUsed(s, d, size), size)

\* A READY device dequeues and transmits, if it finds a packet.
Transmit(s, d) ==
  LET t == Dequeue(s.mq[d])
      size == Head(s.mq[d].m_queues[t.from])
  IN  IF t.from = None THEN [s EXCEPT !.mq[d] = t.queue, !.remaining[d] = Idle]
      ELSE [Settle([s EXCEPT !.mq[d] = t.queue], d, t.from, size) EXCEPT
              !.remaining[d] = Duration[size]]

EnqueueAndSend(s, d, q, size) ==
  LET e == [s EXCEPT !.mq[d] = EnqueueTos(@, q, size)]
  IN  IF e.remaining[d] = Idle THEN Transmit(e, d) ELSE e

\* SendSwitch: static memory first, then what AcceptPacket lets in.  A queue
\* that is not in use stores nothing.
SendSwitch(s, d, q, size) ==
  IF StaticBytes(s, d, q) + size <= conf.staticBuffer
  THEN IF q \in Subqueues(s.mq[d])
       THEN EnqueueAndSend([s EXCEPT !.usedStaticBuffer[d][q] = @ + size], d, q, size)
       ELSE s
  ELSE LET a == AcceptPacket(s, d, q, size)
       IN  IF a.ok /\ q \in Subqueues(s.mq[d])
           THEN EnqueueAndSend(AddUsed(a.sw, d, size), d, q, size)
           ELSE a.sw

-------------------------------------------------------------------------------
(* The switch *)

\* The history after a step to s in which head drops took packets from the
\* queues `from'.
Recorded(s, from) ==
  [p \in DOMAIN overtaken |->
     IF \/ s.generator = None
        \/ p \in from
        \/ Mmu(p[1]) # Mmu(s.generator)
        \/ ~OverThreshold(s, s.generator, p)
     THEN 0
     ELSE IF from = {} THEN overtaken[p] ELSE overtaken[p] + 1]

Counting == conf.enqueueMethod = "MULTILAYER_DT"

\* TokenAdd has run for the last time.
Ended == Counting /\ sw.generator # None /\ ~scheduled

\* TokenAdd schedules its next event until 1.1 s of the simulation, which may be
\* at any call: time is not counted from the start.
Reschedule == scheduled' \in BOOLEAN

\* Tos of a UDP packet may name a queue, below 8, that is not in use.
Send(d, q, size) ==
  /\ Ended => sw.token_num > -MaxDebt
  /\ sw' = SendSwitch(sw, d, q, size)
  /\ IF sw'.generator = sw.generator THEN UNCHANGED scheduled ELSE Reschedule
  /\ overtaken' = Recorded(sw', {})
  /\ UNCHANGED conf

TransmitCompleteSwitch(d) ==
  /\ sw.remaining[d] = 0
  /\ sw' = Transmit(sw, d)
  /\ overtaken' = Recorded(sw', {})
  /\ UNCHANGED <<conf, scheduled>>

\* The event TokenAdd has scheduled.  Transmissions that end before it have ended.
\* The last one, too, refills the tokens and may drop a head.
TokenInterval ==
  /\ scheduled
  /\ \A d \in Device : sw.remaining[d] # 0
  /\ LET t == TokenAdd([sw EXCEPT !.remaining =
                          [d \in Device |-> IF @[d] > 0 THEN @[d] - 1 ELSE @[d]]],
                       sw.generator)
     IN  /\ sw' = t.sw
         /\ overtaken' = Recorded(t.sw, t.from)
  /\ Reschedule
  /\ UNCHANGED conf

\* Without intervals of TokenAdd, before the first or after the last or with
\* another enqueueMethod, time is not counted.
TimePasses(d) ==
  /\ ~scheduled
  /\ sw.remaining[d] > 0
  /\ sw' = [sw EXCEPT !.remaining[d] = 0]
  /\ UNCHANGED <<conf, scheduled, overtaken>>

Next ==
  \/ \E d \in Device, q \in 0 .. conf.useqCnt, size \in conf.sizes : Send(d, q, size)
  \/ \E d \in Device : TransmitCompleteSwitch(d) \/ TimePasses(d)
  \/ TokenInterval

Spec == Init /\ [][Next]_vars

-------------------------------------------------------------------------------
(* Properties *)

\* What each MMU counts as used are the bytes of its queues that are not static,
\* and no queue has more static bytes than bytes or than it may have, although
\* the code decides by different tests which memory a packet enters and leaves.
\* (With static memory, packets have one size.)
MemoryBalanced ==
  /\ \A m \in DOMAIN sw.m_usedBuffer :
       LET queues == {p \in Device \X (0 .. conf.useqCnt - 1) : Mmu(p[1]) = m}
       IN  sw.m_usedBuffer[m] = Total(queues, [p \in queues |-> Shared(sw, p[1], p[2])])
  /\ \A d \in Device : \A q \in Subqueues(sw.mq[d]) :
       /\ sw.usedStaticBuffer[d][q] >= 0
       /\ sw.usedStaticBuffer[d][q] <= Bytes(sw, d, q)
       /\ sw.usedStaticBuffer[d][q] <= conf.staticBuffer

\* No MMU stores more than it has, by threshold or after pushing packets out.
BufferNeverOverrun ==
  \A m \in DOMAIN sw.m_usedBuffer : sw.m_usedBuffer[m] \in 0 .. conf.maxBuffer

\* Push-out never fails half way: it never removes packets for one that is then
\* rejected, wherever the bytes are.  (Strict priority protects queues from it.)
PushoutAlwaysFits ==
  conf.enqueueMethod = "PUSHOUT" /\ conf.dequeueType # "PQ" =>
    \A d \in Device, size \in conf.sizes :
      \A q \in Subqueues(sw.mq[d]) : AcceptPacket(sw, d, q, size).ok

\* While a queue of the generator's MMU is over its threshold, every other queue
\* is dropped from at most once before its turn comes.
HeadDropTurns ==
  conf.m_dropType = "TOKEN" /\ sw.generator # None =>
    \A p \in Positions(sw.generator) :
      overtaken[p] < Cardinality(Positions(sw.generator))

Budget == INSTANCE TokenBudget WITH
  Port <- Device,
  Size <- PacketSize,
  Cost <- [size \in PacketSize |-> size],
  token_num <- IF Counting THEN sw.token_num ELSE 0,
  work <- [d \in Device |->
             IF Counting /\ sw.remaining[d] > 0 THEN sw.remaining[d] ELSE 0],
  ended <- Ended

\* Full packets pay what their transmission earns.  (Small ones do not: an ACK of
\* 54 bytes pays for 200.)
ASSUME SwitchEarnsTokens == Budget!BudgetConfiguration

\* Transmissions and head drops of all devices and MMUs together spend tokens as
\* TokenBudget allows; after the last TokenAdd packets still pay, and no head is
\* dropped.
ImplementsTokenBudget == Budget!Spec
===============================================================================
