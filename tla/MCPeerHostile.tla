---------------------------- MODULE MCPeerHostile ----------------------------
(***************************************************************************)
(* The server of PeerConnection facing a client that may also send share   *)
(* data PDUs out of turn: a finalization PDU before it answered the Demand *)
(* Active.  The spec (section 4.5) has each phase accept only its own PDUs *)
(* and reject the others with a ProtocolError.                             *)
(***************************************************************************)
EXTENDS MCPeerConnection

CONSTANT MaxInjected     \* bound on out-of-turn PDUs

VARIABLE injected        \* out-of-turn PDUs sent so far

hvars == <<vars, injected>>

\* The client sends a data PDU of the finalization out of turn.
ClientInject ==
  /\ client.st \notin {"Start", "Done"}
  /\ injected < MaxInjected
  /\ \E m \in {"Synchronize", "Control", "FontList"} : c2s' = Append(c2s, m)
  /\ injected' = injected + 1
  /\ UNCHANGED <<rdp, srvUp, cause, s2c, client>>

HostileInit == Init /\ injected = 0

HostileNext == (Next /\ UNCHANGED injected) \/ ClientInject

HostileSpec == HostileInit /\ [][HostileNext]_hvars
=============================================================================
