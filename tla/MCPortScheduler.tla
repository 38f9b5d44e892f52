---------------------------- MODULE MCPortScheduler ----------------------------
(***************************************************************************)
(* Every dequeue type, with enough subqueues for its cases: two of PQDRR's *)
(* four share what the other two leave.                                    *)
(***************************************************************************)
EXTENDS PortScheduler, TLC

MCConfig == {<<"RR", 3>>, <<"PQ", 2>>, <<"DRR", 2>>, <<"PQDRR", 4>>}

Limit(lens) == [q \in 0 .. Len(lens) - 1 |-> lens[q + 1]]

MCMaxLength ==
  ("RR" :> Limit(<<2, 2, 2>>)) @@ ("PQ" :> Limit(<<2, 2>>)) @@
  ("DRR" :> Limit(<<2, 2>>)) @@ ("PQDRR" :> Limit(<<1, 0, 2, 2>>))
===============================================================================
