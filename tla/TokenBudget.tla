------------------------------ MODULE TokenBudget ------------------------------
(***************************************************************************)
(* What Occamy promises of its head drops: they only take what the ports   *)
(* of the switch leave of its packet memory's bandwidth.  Every interval   *)
(* adds the tokens of one full packet; a packet sent or dropped pays for   *)
(* itself, sent packets even when there are no tokens left.  One interval  *)
(* is the last; then no packet is dropped, and those sent pay all the same. *)
(***************************************************************************)
EXTENDS Integers, FiniteSets, ByteTotals

CONSTANTS
  Port,      \* the ports of the switch
  port_num,  \* intervals in the transmission time of a full packet
  Size,      \* packet sizes
  Cost,      \* Cost[size]: the tokens a packet pays
  Duration   \* Duration[size]: the intervals its transmission takes

\* Tokens of a full packet: added in an interval, and the most that are kept.
Full == 8

\* What a transmission earns covers what the packet pays.
BudgetConfiguration ==
  /\ IsFiniteSet(Port)
  /\ port_num \in Nat \ {0}
  /\ Cardinality(Port) <= port_num
  /\ Cost \in [Size -> 1 .. Full]
  /\ Duration \in [Size -> Nat]
  /\ \A s \in Size : Cost[s] * port_num <= Full * Duration[s]

VARIABLES
  token_num,
  work,      \* work[p]: intervals until port p has sent its packet, 0 if idle
  ended      \* tokens have been added for the last time

vars == <<token_num, work, ended>>

Init ==
  /\ token_num = 0
  /\ work = [p \in Port |-> 0]
  /\ ended = FALSE

Refilled == IF token_num + Full > Full THEN Full ELSE token_num + Full

\* A port starts to send a packet, paying with what there is.
Start(p, tokens) ==
  \E s \in Size :
    /\ work[p] = 0
    /\ work' = [work EXCEPT ![p] = Duration[s]]
    /\ token_num' = tokens - Cost[s]

\* Tokens are added, perhaps for the last time.
Add == ~ended /\ ended' \in BOOLEAN

\* The first packet makes the switch start adding tokens.
First(p) ==
  /\ Add
  /\ \A q \in Port : work[q] = 0
  /\ Start(p, Refilled)

\* An interval ends: tokens are added, and a packet may be dropped if there are any.
Tick ==
  /\ Add
  /\ work' = [p \in Port |-> IF work[p] > 0 THEN work[p] - 1 ELSE 0]
  /\ \/ token_num' = Refilled
     \/ /\ Refilled > 0
        /\ \E s \in Size : token_num' = Refilled - Cost[s]

\* Intervals are no longer counted: at some time a port has sent its packet.
Finish(p) ==
  /\ ended
  /\ work' = [work EXCEPT ![p] = 0]
  /\ UNCHANGED <<token_num, ended>>

Next ==
  \/ \E p \in Port :
       \/ Start(p, token_num) /\ UNCHANGED ended
       \/ First(p)
       \/ Finish(p)
  \/ Tick

Spec == Init /\ [][Next]_vars

-------------------------------------------------------------------------------
(* Property *)

\* As long as tokens are added, the debt never exceeds what the packets on the
\* wires will earn before they are sent, and one head drop: once the ports are
\* idle, an interval or two suffice for head drops to go on, however long the
\* ports have been busy.  (Afterwards nothing is earned.)
BudgetKept ==
  /\ token_num <= Full
  /\ \/ ended
     \/ token_num * port_num + Full * Total(Port, work) >= (1 - Full) * port_num
===============================================================================
