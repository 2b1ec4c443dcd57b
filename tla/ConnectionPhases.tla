-------------------------- MODULE ConnectionPhases --------------------------
(***************************************************************************)
(* What the RDP connection state machine promises about its phases (spec   *)
(* section 4.5): the phases are visited strictly forward, possibly several *)
(* at once when a callback re-enters itself on the rest of its buffer,     *)
(* and the one way back is a reactivation from ACTIVE to                   *)
(* CAPABILITIES_EXCHANGE.                                                  *)
(***************************************************************************)
EXTENDS Naturals, Sequences

CONSTANT Order          \* the phases, as a sequence in protocol order

VARIABLE phase

Phase == {Order[i] : i \in 1..Len(Order)}

\* The position of a phase in the protocol order.
Rank(p) == CHOOSE i \in 1..Len(Order) : Order[i] = p

Init == phase = Order[1]

\* A step of the connection sequence: to any later phase.
Advance == \E p \in Phase : Rank(p) > Rank(phase) /\ phase' = p

\* The documented loopback: a reactivation of an active session.
Reactivate ==
  /\ phase = Order[Len(Order)]
  /\ phase' = "CAPABILITIES_EXCHANGE"

Next == Advance \/ Reactivate

Spec == Init /\ [][Next]_phase
=============================================================================
