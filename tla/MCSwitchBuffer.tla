---------------------------- MODULE MCSwitchBuffer ----------------------------
(***************************************************************************)
(* Small instances of SwitchBuffer: two ports, whose queue 1 is lossless    *)
(* (it has headroom and a reservation) and whose queue 2 is not.           *)
(***************************************************************************)
EXTENDS SwitchBuffer, TLC

CONSTANT Ids   \* how many packets may agree in all header fields

MCPorts == {1, 2}
MCQueues == 0 .. 2

Header(in, q, out, size, unsched) ==
  [inDev |-> in, qIndex |-> q, outDev |-> out, size |-> size,
   type |-> IF q = 1 THEN LOSSLESS ELSE LOSSY, unsched |-> unsched, id |-> 0]

WithIds(headers) == {[h EXCEPT !.id = n] : h \in headers, n \in Ids}

\* Two lossless ingress queues with packets of two sizes, one lossy queue.
MCPackets == WithIds({Header(1, 1, 2, 1, FALSE), Header(1, 1, 2, 2, FALSE),
                      Header(2, 1, 1, 1, FALSE), Header(2, 2, 1, 2, TRUE)})

\* The same with the lossy packets in the lossless queue: TCP packets keep the
\* priority their tag gives, whatever else that queue carries.
MCMixedPackets == {IF p.type = LOSSY THEN [p EXCEPT !.qIndex = 1] ELSE p : p \in MCPackets}

PerQueue(n) == [i \in MCPorts \X MCQueues |-> n]
PerClass(lossless, lossy) == (LOSSLESS :> lossless) @@ (LOSSY :> lossy)
LosslessOnly(n) == [i \in MCPorts \X MCQueues |-> IF i[2] = 1 THEN n ELSE 0]

MCxoff == LosslessOnly(3)
MCreserve == LosslessOnly(1)
\* Headroom and egress thresholds differ between the ports, so that every
\* queue-level limit decides somewhere.
MCunequalXoff ==
  [i \in MCPorts \X MCQueues |-> IF i[2] # 1 THEN 0 ELSE IF i[1] = 1 THEN 3 ELSE 2]
MCunequalAlpha == [i \in MCPorts \X MCQueues |-> IF i = <<1, 1>> THEN 4 ELSE 16]

MCnoReserve == PerQueue(0)
MCxon == PerQueue(1)
MCxonOffset == PerQueue(1)
MCalpha == PerQueue(2)
MCalphaHigh == PerQueue(16)
MCdt == PerClass("DT", "DT")
MCfab == PerClass("DT", "FAB")
MCegressPool == PerClass(12, 4)
MCsmallEgressPool == PerClass(5, 4)
MCtightEgressPool == PerClass(6, 4)
===============================================================================
