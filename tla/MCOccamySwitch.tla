---------------------------- MODULE MCOccamySwitch ----------------------------
(***************************************************************************)
(* Two ports, in one MMU or in two, under every way to admit and to drop.  *)
(* Two or three full packets fill an MMU.                                  *)
(***************************************************************************)
EXTENDS OccamySwitch, TLC

Switching(method, drop, dequeue, static, group, sizes, max) ==
  [enqueueMethod |-> method, m_dropType |-> drop, dequeueType |-> dequeue,
   useqCnt |-> 2, staticBuffer |-> static, group |-> group, sizes |-> sizes,
   maxBuffer |-> max]

MCConfig ==
  {Switching("MULTILAYER_DT", "TOKEN", "RR", 0, 2, {8}, 24),
   Switching("MULTILAYER_DT", "TOKEN", "RR", 0, 1, {4, 8}, 16),
   Switching("MULTILAYER_DT", "LONGTOKEN", "RR", 0, 2, {8}, 24),
   Switching("PUSHOUT", "NONE", "RR", 8, 2, {8}, 16),
   Switching("PUSHOUT", "NONE", "PQ", 0, 2, {4, 8}, 16),
   Switching("PUSHOUT", "NONE", "RR", 0, 2, {4, 8}, 16),
   Switching("DT", "NONE", "RR", 8, 2, {8}, 24)}

ASSUME SwitchConfiguration == StaticSizes /\ TwoPacketsFit /\ AllPay

\* A full packet takes port_num intervals, one of half the size half of them.
MCDuration == (4 :> 1) @@ (8 :> 2)
===============================================================================
