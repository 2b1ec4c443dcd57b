-------------------------- MODULE MCPeerConnection --------------------------
(***************************************************************************)
(* Model-checking instance of PeerConnection: a conforming client joining  *)
(* two MCS channels, up to two input PDUs and one reactivation, with an    *)
(* application whose callbacks change nothing in the connection.           *)
(***************************************************************************)
EXTENDS PeerConnection

\* One kind of input PDU, sent up to MaxInputs times.
NoAppInputPdus == {"Input"}
NoAppInputBudget == [m \in NoAppInputPdus |-> MaxInputs]

\* No fields of its own in the peer context, no callbacks.
NoAppContext == <<>>
NoAppActivate(c) == c
NoAppInput(c, s) == c
=============================================================================
