------------------------------- MODULE RpcBind -------------------------------
(***************************************************************************)
(* The client side of the RPC secure bind used to tunnel RDP through a     *)
(* gateway (src/libfreerdp/core/gateway/rpc_bind.c): the Bind PDU, the     *)
(* Bind-Ack, the Alter-Context PDUs of further authentication legs and    *)
(* the final RPC-Auth-3, the pending-call list and the fragment sizes.     *)
(*                                                                         *)
(* From the spec, because their code is not in this repository:           *)
(*  - the authentication engine (credssp_auth, spec section 4.2): each     *)
(*    authenticate either continues with a token, completes with or        *)
(*    without a final token, or fails; tokens are identified by the leg    *)
(*    that produced them and have a length from TokenLens;                 *)
(*  - the driver (rpc_client, spec section 4.3): it sends the Bind, on a   *)
(*    response removes the pending call with that call id, parses the ack  *)
(*    and acts on rpc_bind_state; teardown fails all pending calls;        *)
(*  - the gateway server: it answers each Bind and Alter-Context, in       *)
(*    order, with its fragment sizes and a token, and never Auth-3.        *)
(***************************************************************************)
EXTENDS Integers, Sequences, SequencesExt

CONSTANTS
  GatewayAuthResults,  \* what utils_authenticate_gateway may return
  TokenLens,           \* lengths of the tokens the engine outputs
  MaxLegs,             \* bound on the tokens the engine outputs
  InitMaxXmitFrag,     \* rpc->max_xmit_frag and max_recv_frag before the ack
  InitMaxRecvFrag,
  ServerXmitFrags,     \* the max_xmit_frag / max_recv_frag a bind_ack carries
  ServerRecvFrags,
  SendMayFail          \* rpc_in_channel_send_pdu may fail

ASSUME GatewayAuthResults \subseteq
         {"SUCCESS", "SKIP", "CANCELLED", "NO_CREDENTIALS", "FAILED"}
ASSUME TokenLens \subseteq Nat /\ MaxLegs \in Nat \ {0}

NoToken == [leg |-> 0, len |-> 0]
UINT16(x) == x % 65536                 \* a cast to a 16-bit header field

\* rpc_offset_align: the padding that aligns `offset` to `a` bytes.
AlignPad(offset, a) == (a - (offset % a)) % a

VARIABLES
  phase,       \* the driver: "Start", "BindSent", "AlterSent", "Established",
               \* "Failed", "Closed"
  auth,        \* the engine: [complete, token, legs]
  calls,       \* rpc->client->ClientCallList, the call ids in order
  maxXmit,     \* rpc->max_xmit_frag
  maxRecv,     \* rpc->max_recv_frag
  negotiated,  \* a bind_ack has set the fragment sizes
  sent,        \* the PDUs the client sent, in order
  srvRead,     \* how many of them the server has read
  toCli        \* the server's responses in flight

vars == <<phase, auth, calls, maxXmit, maxRecv, negotiated, sent, srvRead, toCli>>

(***************************************************************************)
(* The authentication engine (spec section 4.2)                            *)
(***************************************************************************)

\* The outcomes of credssp_auth_authenticate: continue with the next token,
\* complete with a final token or none, or fail (ok FALSE).
AuthFailed == [ok |-> FALSE, complete |-> FALSE, token |-> NoToken, legs |-> 0]
AuthSteps(a) ==
  {AuthFailed}
  \cup (IF a.legs < MaxLegs
        THEN {[ok |-> TRUE, complete |-> FALSE, token |-> [leg |-> a.legs + 1, len |-> l],
               legs |-> a.legs + 1] : l \in TokenLens}
             \cup (IF a.legs > 0
                   THEN {[ok |-> TRUE, complete |-> TRUE, token |-> [leg |-> a.legs + 1, len |-> l],
                          legs |-> a.legs + 1] : l \in TokenLens}
                   ELSE {})
        ELSE {})
  \cup (IF a.legs > 0 THEN {[ok |-> TRUE, complete |-> TRUE, token |-> NoToken, legs |-> a.legs]}
        ELSE {})

\* rpc_bind_state: LAST_LEG when complete with a token still to send,
\* COMPLETE when complete without one, INCOMPLETE otherwise.
RpcBindState(a) ==
  IF a.complete THEN (IF a.token # NoToken THEN "LAST_LEG" ELSE "COMPLETE")
  ELSE "INCOMPLETE"

(***************************************************************************)
(* PDU construction.  A context c holds the fields a handler changes and   *)
(* its result rc; `ok` says whether rpc_in_channel_send_pdu succeeds.      *)
(***************************************************************************)
Fail(c) == [c EXCEPT !.rc = -1]

\* Register call 2 in ClientCallList, then send the PDU.
RegisterAndSend(c, pdu, ok) ==
  LET d == [c EXCEPT !.calls = Append(@, pdu.call_id)] IN
  IF ok THEN [d EXCEPT !.sent = Append(@, pdu)] ELSE Fail(d)

\* rpc_send_bind_pdu after rpc_bind_setup: a Bind (initial) or an
\* Alter-Context carrying the engine's output token, call_id 2, frag_length
\* 116 + 8 + auth_length, both 16-bit fields.
SendBindPdu(c, initial, ok) ==
  IF c.auth.token = NoToken THEN Fail(c)
  ELSE LET authLength == UINT16(c.auth.token.len)
           pdu == [ptype |-> IF initial THEN "Bind" ELSE "AlterContext",
                   call_id |-> 2, auth |-> authLength,
                   frag |-> UINT16(116 + 8 + authLength), leg |-> c.auth.token.leg,
                   limit |-> c.maxXmit, negotiated |-> c.negotiated]
       IN RegisterAndSend(c, pdu, ok)

\* rpc_send_rpc_auth_3_pdu: call_id 2, a 20-byte header aligned to 4, the
\* 8-byte trailer and the token; the call is registered although no
\* response will come.
SendAuth3Pdu(c, ok) ==
  IF c.auth.token = NoToken THEN Fail(c)
  ELSE LET authLength == UINT16(c.auth.token.len)
           pdu == [ptype |-> "Auth3", call_id |-> 2, auth |-> authLength,
                   frag |-> UINT16(20 + AlignPad(20, 4) + 8 + authLength),
                   leg |-> c.auth.token.leg,
                   limit |-> c.maxXmit, negotiated |-> c.negotiated]
       IN RegisterAndSend(c, pdu, ok)

Ctx == [auth |-> auth, calls |-> calls, sent |-> sent, maxXmit |-> maxXmit,
        maxRecv |-> maxRecv, negotiated |-> negotiated, rc |-> 0]

Commit(c) ==
  /\ auth' = c.auth /\ calls' = c.calls /\ sent' = c.sent
  /\ maxXmit' = c.maxXmit /\ maxRecv' = c.maxRecv /\ negotiated' = c.negotiated

Oks == IF SendMayFail THEN BOOLEAN ELSE {TRUE}
FreshAuth == [ok |-> TRUE, complete |-> FALSE, token |-> NoToken, legs |-> 0]

\* A mutant of RecvBindAckPdu: the ack's sizes taken over without the swap.
RecvBindAckPduNoSwap(c, m, step) ==
  LET d == [c EXCEPT !.maxRecv = m.recv, !.maxXmit = m.xmit, !.negotiated = TRUE] IN
  IF ~step.ok THEN Fail(d) ELSE [d EXCEPT !.auth = step]

\* A mutant of RecvBindAckPdu: the ack's token is taken in but
\* credssp_auth_authenticate is not called on it.
RecvBindAckPduNoAuthenticate(c, m, step) ==
  [c EXCEPT !.maxRecv = m.xmit, !.maxXmit = m.recv, !.negotiated = TRUE]

\* rpc_recv_bind_ack_pdu: the ack's max_xmit_frag becomes max_recv_frag and
\* its max_recv_frag max_xmit_frag; the token at frag_length - auth_length
\* goes to the engine, which authenticates (step).
RecvBindAckPdu(c, m, step) ==
  LET d == [c EXCEPT !.maxRecv = m.xmit, !.maxXmit = m.recv, !.negotiated = TRUE] IN
  IF ~step.ok THEN Fail(d) ELSE [d EXCEPT !.auth = step]

\* The driver observes a response: the first pending call with its call id
\* is removed (spec section 3, PendingCall).
ResponseReceived(c, m) == [c EXCEPT !.calls = RemoveFirst(@, m.call_id)]

\* Mutant of AfterAckPhase: the driver waits for an answer to RPC-Auth-3.
AfterAckPhaseAwaitAuth3(c, st) ==
  CASE c.rc < 0 -> "Failed"
    [] st \in {"INCOMPLETE", "LAST_LEG"} -> "AlterSent"
    [] OTHER -> "Established"

\* The driver's phase after a response: a failure ends the bind, an
\* Alter-Context waits for its response, RPC-Auth-3 or COMPLETE establish.
AfterAckPhase(c, st) ==
  CASE c.rc < 0 -> "Failed"
    [] st = "INCOMPLETE" -> "AlterSent"
    [] OTHER -> "Established"

(***************************************************************************)
(* Actions                                                                 *)
(***************************************************************************)

\* rpc_send_bind_pdu(rpc, TRUE): rpc_bind_setup asks for gateway
\* credentials (cancelled and failed are fatal, no credentials goes on with
\* a NULL identity), creates the engine and authenticates; then the Bind.
SendBind ==
  /\ phase = "Start"
  /\ \E rc \in GatewayAuthResults, step \in AuthSteps(FreshAuth), ok \in Oks :
       IF rc \in {"CANCELLED", "FAILED"} \/ ~step.ok
       THEN /\ phase' = "Failed"
            /\ UNCHANGED <<auth, calls, maxXmit, maxRecv, negotiated, sent>>
       ELSE LET c == SendBindPdu([Ctx EXCEPT !.auth = step], TRUE, ok) IN
            /\ Commit(c)
            /\ phase' = IF c.rc < 0 THEN "Failed" ELSE "BindSent"
  /\ UNCHANGED <<srvRead, toCli>>

\* The gateway reads the next PDU and answers a Bind or an Alter-Context
\* with its fragment sizes and its token.
ServerRespond ==
  /\ srvRead < Len(sent)
  /\ srvRead' = srvRead + 1
  /\ LET p == sent[srvRead + 1] IN
     IF p.ptype \in {"Bind", "AlterContext"}
     THEN \E x \in ServerXmitFrags, r \in ServerRecvFrags :
            toCli' = Append(toCli, [call_id |-> p.call_id, xmit |-> x, recv |-> r])
     ELSE UNCHANGED toCli
  /\ UNCHANGED <<phase, auth, calls, maxXmit, maxRecv, negotiated, sent>>

\* The driver receives a Bind-Ack or Alter-Context-Response: the pending
\* call with its call id is removed, rpc_recv_bind_ack_pdu runs, and
\* rpc_bind_state decides: LAST_LEG sends the RPC-Auth-3, INCOMPLETE an
\* Alter-Context (rpc_send_bind_pdu(rpc, FALSE)), COMPLETE is done.
RecvAck ==
  /\ phase \in {"BindSent", "AlterSent"}
  /\ toCli # <<>>
  /\ toCli' = Tail(toCli)
  /\ \E step \in AuthSteps(auth), ok \in Oks :
       LET m  == Head(toCli)
           c1 == RecvBindAckPdu(ResponseReceived(Ctx, m), m, step)
           st == RpcBindState(c1.auth)
           c2 == CASE c1.rc < 0            -> c1
                   [] st = "LAST_LEG"      -> SendAuth3Pdu(c1, ok)
                   [] st = "INCOMPLETE"    -> SendBindPdu(c1, FALSE, ok)
                   [] OTHER                -> c1
       IN /\ Commit(c2)
          /\ phase' = AfterAckPhase(c2, st)
  /\ UNCHANGED srvRead

\* The session is torn down: every pending call fails and is removed.
Teardown ==
  /\ phase \in {"Established", "Failed"}
  /\ phase' = "Closed"
  /\ calls' = <<>>
  /\ UNCHANGED <<auth, maxXmit, maxRecv, negotiated, sent, srvRead, toCli>>

\* Nothing is left to do.
Terminated == phase = "Closed" /\ UNCHANGED vars

Init ==
  /\ phase = "Start"
  /\ auth = FreshAuth
  /\ calls = <<>>
  /\ maxXmit = InitMaxXmitFrag
  /\ maxRecv = InitMaxRecvFrag
  /\ negotiated = FALSE
  /\ sent = <<>>
  /\ srvRead = 0
  /\ toCli = <<>>

Next == SendBind \/ ServerRespond \/ RecvAck \/ Teardown \/ Terminated

\* The connect path sends the Bind, the gateway answers what it reads and
\* the client processes every response; teardown is the caller's choice.
Fairness == WF_vars(SendBind) /\ WF_vars(ServerRespond) /\ WF_vars(RecvAck)

Spec == Init /\ [][Next]_vars /\ Fairness

(***************************************************************************)
(* Properties                                                              *)
(***************************************************************************)
Pdu == [ptype : {"Bind", "AlterContext", "Auth3"}, call_id : Nat, auth : Nat,
        frag : Nat, leg : Nat, limit : Nat, negotiated : BOOLEAN]

TypeOK ==
  /\ phase \in {"Start", "BindSent", "AlterSent", "Established", "Failed", "Closed"}
  /\ auth.complete \in BOOLEAN /\ auth.legs \in 0..MaxLegs
  /\ \A i \in DOMAIN calls : calls[i] \in Nat
  /\ negotiated \in BOOLEAN
  /\ maxXmit \in {InitMaxXmitFrag} \cup ServerRecvFrags
  /\ maxRecv \in {InitMaxRecvFrag} \cup ServerXmitFrags
  /\ \A i \in DOMAIN sent : sent[i] \in Pdu
  /\ srvRead \in 0..Len(sent)

\* The PDUs carry the engine's tokens in the order it produced them, each
\* once: the n-th PDU sent holds the n-th token, so no leg is skipped and
\* no stale token is sent again on an Alter-Context or the RPC-Auth-3.
TokensInOrder == \A i \in DOMAIN sent : sent[i].leg = i

\* The bind ends: established or failed, whatever the number of legs.
EventuallySettled == <>(phase \in {"Established", "Failed", "Closed"})

\* Every PDU sent after the bind_ack fits the negotiated transmit size: the
\* code comment before rpc_recv_bind_ack_pdu says a party "may not transmit
\* larger fragments than negotiated".
FragWithinNegotiated ==
  \A i \in DOMAIN sent : sent[i].negotiated => sent[i].frag <= sent[i].limit

\* The header's auth_length never exceeds its frag_length (spec section 6).
AuthWithinFrag == \A i \in DOMAIN sent : sent[i].auth <= sent[i].frag
=============================================================================
