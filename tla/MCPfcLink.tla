------------------------------- MODULE MCPfcLink -------------------------------
(***************************************************************************)
(* Packets of one lossless priority and two sizes from the link, and a     *)
(* lossy one between the other ports that takes a share of the buffer and  *)
(* leaves on the device that sends the PFC frames.                         *)
(***************************************************************************)
EXTENDS PfcLink, TLC

CONSTANTS Ids, OtherIds   \* packets from the link, of each size, and others

Header(in, out, size, type) ==
  [inDev |-> in, qIndex |-> 1, outDev |-> out, size |-> size, type |-> type,
   unsched |-> FALSE]

WithIds(h, ids) == {h @@ ("id" :> n) : n \in ids}

MCPackets ==
  WithIds(Header(1, 2, 2, LOSSLESS), Ids) \cup WithIds(Header(1, 2, 3, LOSSLESS), Ids)
    \cup WithIds(Header(2, 1, 2, LOSSY), OtherIds)

\* Packets that differ only in their ids are interchangeable: the sender takes the
\* first one that is not under way, and the last one in the buffer leaves first.
Alike(p) == {x \in Packets : [x EXCEPT !.id = p.id] = p}
UnderWay == held \cup {f.pkt : f \in frames}
MCInOrder ==
  /\ \A p \in UnderWay' \ UnderWay : \A x \in Alike(p) : x.id < p.id => x \in UnderWay
  /\ \A p \in held \ held' : \A x \in Alike(p) \cap held : x.id <= p.id

PerQueue(n) == [i \in Ports \X Queues |-> n]
PerClass(lossless, lossy) == (LOSSLESS :> lossless) @@ (LOSSY :> lossy)

MCPorts == {1, 2}
MCQueues == {0, 1}
MCdt == PerClass("DT", "DT")
MCegressPool == PerClass(100, 100)
MCxoff == [i \in Ports \X Queues |-> IF i = <<1, 1>> THEN HeadroomNeeded ELSE 0]
MCzero == PerQueue(0)
MCone == PerQueue(1)
MCalphaEgress == PerQueue(100)

\* The configuration is one the theorem about NeverDropped covers.
ASSUME MCNoDrop == NoDropConfiguration
===============================================================================
