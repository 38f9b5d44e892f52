----------------------------- MODULE MCSwitchNode -----------------------------
(***************************************************************************)
(* Small instances of SwitchNode: two ports, lossless queue 1, lossy queue *)
(* 2 and the control queue 0.                                              *)
(***************************************************************************)
EXTENDS SwitchNode, TLC

CONSTANT Ids   \* how many packets may agree in all header fields

MCPorts == {1, 2}
MCQueues == 0 .. 2

Header(in, q, out, size) ==
  [inDev |-> in, qIndex |-> q, outDev |-> out, size |-> size,
   type |-> IF q = 2 THEN LOSSY ELSE LOSSLESS, unsched |-> FALSE, id |-> 0]

WithIds(headers) == {[h EXCEPT !.id = n] : h \in headers, n \in Ids}

\* Traffic both ways, and acknowledgements in queue 0.
MCPackets == WithIds({Header(1, 1, 2, 2), Header(2, 1, 1, 2)})
               \cup {Header(1, 2, 2, 1), Header(1, 0, 2, 1)}

PerQueue(n) == [i \in MCPorts \X MCQueues |-> n]
PerClass(lossless, lossy) == (LOSSLESS :> lossless) @@ (LOSSY :> lossy)
LosslessOnly(n) == [i \in MCPorts \X MCQueues |-> IF i[2] = 1 THEN n ELSE 0]

MCxoff == LosslessOnly(2)
MCreserve == PerQueue(0)
MCxon == PerQueue(1)
MCxonOffset == PerQueue(1)
MCalpha == PerQueue(1)
MCalphaHigh == PerQueue(16)
MCdt == PerClass("DT", "DT")
MCegressPool == PerClass(8, 3)
===============================================================================
