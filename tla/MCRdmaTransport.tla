---------------------------- MODULE MCRdmaTransport ----------------------------
(***************************************************************************)
(* Small instances of RdmaTransport: messages of a few packets, the last   *)
(* of which is shorter than the others.                                    *)
(***************************************************************************)
EXTENDS RdmaTransport

Flow(size, win, backto0, stop) ==
  [m_size |-> size, m_win |-> win, m_backto0 |-> backto0, stopTime |-> stop]

\* Windowed, unlimited, going back to zero, and stopped early; in the last but
\* one the end of the message is never acknowledged.
MCFlows == {Flow(7, 4, FALSE, FALSE), Flow(7, 0, FALSE, FALSE), Flow(8, 4, TRUE, FALSE),
            Flow(6, 0, TRUE, FALSE), Flow(7, 4, FALSE, TRUE)}
===============================================================================
