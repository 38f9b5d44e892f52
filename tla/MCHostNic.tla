------------------------------- MODULE MCHostNic -------------------------------
(***************************************************************************)
(* Up to three pairs of two priorities, with and without windows.          *)
(***************************************************************************)
EXTENDS HostNic, TLC

Pair(pg, size, win, stops) ==
  [m_pg |-> pg, m_size |-> size, m_win |-> win, stops |-> stops]

\* Two paced messages and a short one; one that stops, alone.
MCFlows ==
  {<<Pair(3, 2, 0, FALSE), Pair(4, 2, 1, FALSE)>>,
   <<Pair(3, 1, 0, FALSE), Pair(4, 2, 0, FALSE)>>,
   <<Pair(3, 1, 0, FALSE), Pair(3, 1, 0, FALSE), Pair(4, 1, 0, FALSE)>>,
   <<Pair(4, 2, 1, TRUE)>>}

ASSUME PairsStopAlone == StopsAlone(MCFlows)

\* A message that is confirmed while another one stops.
MCStopping == {<<Pair(3, 1, 0, FALSE), Pair(3, 3, 0, TRUE), Pair(4, 2, 0, FALSE)>>}

MCGap == ("full" :> 1) @@ ("half" :> 2)
===============================================================================
