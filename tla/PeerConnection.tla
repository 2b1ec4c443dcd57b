--------------------------- MODULE PeerConnection ---------------------------
(***************************************************************************)
(* The server side of an RDP connection (src/libfreerdp/core/peer.c) and   *)
(* the client it talks to.                                                 *)
(*                                                                         *)
(* The server is the receive callback peer_recv_callback: the transport    *)
(* hands it one framed PDU at a time, and it dispatches on rdp->state,     *)
(* possibly re-entering itself (after security commencement, after client  *)
(* info and after licensing) before it returns.  One ServerReceive step is *)
(* one whole callback, the re-entries included.  A callback that returns   *)
(* -1 makes rdp_check_fds fail, the peer main loop ends and the transport  *)
(* is disconnected.                                                        *)
(*                                                                         *)
(* The rdp_server_accept_* functions and rdp_server_reactivate live        *)
(* outside this repository; they are modelled from the connection          *)
(* sequence of the spec (section 4.5): each accepts the PDU of its phase,  *)
(* sends its reply and moves to the next phase, or fails.                  *)
(*                                                                         *)
(* The client is a conforming RDP client (spec section 4.5): it sends the  *)
(* next PDU of the connection sequence when the server's reply arrives,    *)
(* sends input once active, and answers a reactivation.  Messages travel   *)
(* over the TCP connection in order and are not lost.                      *)
(***************************************************************************)
EXTENDS Integers, Sequences, FiniteSets, TLC

CONSTANTS
  NumChannels,          \* MCS channels the client joins (user, I/O, static)
  LicenseCallbackKind,  \* "none": callback removed; "nolicense": the default
                        \* freerdp_peer_nolicense; "app": an application's own
  LicenseResults,       \* what an "app" license callback may return
  CapabilitiesResults,  \* what client->Capabilities may return
  MaxReactivations,     \* bound on server-initiated reactivations
  MaxInputs,            \* bound on input PDUs the client sends while active
  MaxLicenseLegs,       \* bound on IN_PROGRESS rounds of an "app" callback
  InputPdus,            \* the input PDUs the client's user may send
  InputBudget,          \* how many of each of them the user sends at most
  AppContext,           \* the application's fields of the peer context
  OnActivate(_),        \* the application's PostConnect and Activate callbacks
  OnInput(_, _)         \* the application's input callbacks, on an input PDU

ASSUME NumChannels \in 1..3
ASSUME LicenseCallbackKind \in {"none", "nolicense", "app"}
ASSUME LicenseResults \subseteq
         {"COMPLETED", "IN_PROGRESS", "ABORT", "INTERNAL_ERROR", "UNKNOWN"}
ASSUME CapabilitiesResults \subseteq BOOLEAN /\ CapabilitiesResults # {}
ASSUME {MaxReactivations, MaxInputs, MaxLicenseLegs} \subseteq Nat
ASSUME InputBudget \in [InputPdus -> Nat]

\* enum CONNECTION_STATE, in the order the connection sequence visits it.
StateOrder == <<"INITIAL", "NEGO", "MCS_CONNECT", "MCS_ERECT_DOMAIN",
                "MCS_ATTACH_USER", "RDP_SECURITY_COMMENCEMENT",
                "SECURE_SETTINGS_EXCHANGE", "LICENSING",
                "CAPABILITIES_EXCHANGE", "FINALIZATION", "ACTIVE">>
ConnectionStates == {StateOrder[i] : i \in 1..Len(StateOrder)}

\* What the client may send.  A PDU of an earlier phase arriving once the
\* server dispatches share-control PDUs fails to parse there.
ClientPdus == {"ConnectionRequest", "McsConnectInitial", "ErectDomain",
               "AttachUser", "ChannelJoin", "SecurityExchange", "ClientInfo",
               "License", "ConfirmActive", "Synchronize", "Control",
               "FontList", "Shutdown"} \cup InputPdus
\* What the server may send: its own PDUs and the application's graphics.
ServerPdus == {"ConnectionConfirm", "McsConnectResponse", "AttachUserConfirm",
               "ChannelJoinConfirm", "LicensePdu", "LicenseDone",
               "DemandActive", "FontMap", "DeactivateAll", "Ultimatum",
               "FrameMarker", "SurfaceBits"}
Protocols == {"RDP", "SSL", "HYBRID"}   \* PROTOCOL_RDP, _SSL, _HYBRID
NULL == "NULL"                          \* the NULL stream of a re-entry

VARIABLES
  rdp,     \* the server's rdpRdp/freerdp_peer fields the callback touches
  srvUp,   \* "open", or why the peer main loop ended: "error" | "eof"
  cause,   \* the PDU whose callback returned -1 (history)
  c2s,     \* PDUs in flight from client to server
  s2c,     \* PDUs in flight from server to client
  client   \* the client's connection-sequence state

vars == <<rdp, srvUp, cause, c2s, s2c, client>>

(***************************************************************************)
(* Server.  A callback works on a context: the rdp fields, the PDUs it     *)
(* sends (out) and its return code (rc).                                   *)
(***************************************************************************)
Send(c, m) == [c EXCEPT !.out = Append(@, m)]
Fail(c) == [c EXCEPT !.rc = -1]
Goto(c, st) == [c EXCEPT !.state = st]   \* rdp_server_transition_to_state

\* Environment outcomes a callback may meet: the protocol nego selects, the
\* license callback's result, the Capabilities and Logon callbacks' results.
Env == [proto : Protocols, lic : LicenseResults,
        caps : CapabilitiesResults, logon : BOOLEAN]

\* rdp_server_accept_nego; selects a protocol and confirms it.
AcceptNego(c, s, e) ==
  IF s # "ConnectionRequest" THEN Fail(c)
  ELSE Send([Goto(c, "NEGO") EXCEPT !.proto = e.proto], "ConnectionConfirm")

\* rdp_server_accept_mcs_connect_initial, _erect_domain_request and
\* _attach_user_request: accept the phase's PDU, reply, advance.
AcceptMcs(c, s, want, next, reply) ==
  IF s # want THEN Fail(c)
  ELSE IF reply = NULL THEN Goto(c, next) ELSE Send(Goto(c, next), reply)

\* rdp_server_accept_mcs_channel_join_request: the channel-join loop stays in
\* MCS_ATTACH_USER until every requested channel is joined.
AcceptChannelJoin(c, s) ==
  IF s # "ChannelJoin" THEN Fail(c)
  ELSE LET j == c.joined + 1
           d == Send([c EXCEPT !.joined = j], "ChannelJoinConfirm")
       IN IF j = NumChannels THEN Goto(d, "RDP_SECURITY_COMMENCEMENT") ELSE d

\* rdp_server_establish_keys and rdp_recv_client_info.
EstablishKeys(c, s) == IF s # "SecurityExchange" THEN Fail(c) ELSE c
RecvClientInfo(c, s) ==
  IF s # "ClientInfo" THEN Fail(c) ELSE [c EXCEPT !.clientInfo = TRUE]

\* rdp_send_demand_active.
SendDemandActive(c) == Send([c EXCEPT !.demands = @ + 1], "DemandActive")

\* rdp_server_accept_confirm_active: capabilities confirmed, finalization.
AcceptConfirmActive(c) ==
  Goto([c EXCEPT !.confirms = @ + 1], "FINALIZATION")

\* rdp_server_accept_client_font_list_pdu: sends the Font Map PDU and
\* transitions to ACTIVE, which clears AwaitCapabilities and runs the
\* application's PostConnect (first time) and Activate callbacks.
AcceptFontList(c) ==
  OnActivate(Send([Goto(c, "ACTIVE") EXCEPT !.AwaitCapabilities = FALSE], "FontMap"))

\* A mutant of Reactivate: rdp->state is left as it was.
ReactivateNoTransition(c) ==
  [SendDemandActive(Send(c, "DeactivateAll"))
     EXCEPT !.AwaitCapabilities = TRUE, !.reactivations = @ + 1]

\* rdp_server_reactivate, what update->DesktopResize does on a server:
\* Deactivate All, back to CAPABILITIES_EXCHANGE, Demand Active,
\* AwaitCapabilities.  It does not look at the state it is called in.
Reactivate(c) ==
  [SendDemandActive(Send(Goto(c, "CAPABILITIES_EXCHANGE"), "DeactivateAll"))
     EXCEPT !.AwaitCapabilities = TRUE, !.reactivations = @ + 1]

\* freerdp_peer_close: unless negotiation failed (never here), Deactivate
\* All then the MCS Disconnect Provider Ultimatum.
PeerClose(c) == [Send(Send(c, "DeactivateAll"), "Ultimatum") EXCEPT !.closing = TRUE]

\* A mutant of PeerRecvDataPdu: the synchronize, control and input handlers'
\* results are taken inverted, so those PDUs fail the callback.
PeerRecvDataPduRejectUnknown(c, s) ==
  CASE s = "FontList" -> AcceptFontList(c)
    [] s = "Shutdown" -> Fail(Send(c, "Ultimatum"))
    [] OTHER          -> Fail(c)

\* peer_recv_data_pdu: the secondary switch on the share data PDU type.  A
\* shutdown request sends the disconnect ultimatum and fails the callback.
PeerRecvDataPdu(c, s) ==
  CASE s = "FontList" -> AcceptFontList(c)
    [] s = "Shutdown" -> Fail(Send(c, "Ultimatum"))
    [] s \in InputPdus -> OnInput(c, s)   \* input_recv: the input callbacks
    [] OTHER          -> c   \* synchronize, control, ...: no state

\* peer_recv_pdu, peer_recv_tpkt_pdu and peer_recv_fastpath_pdu: dispatch on
\* the share control PDU type; anything that is not a data PDU or a Confirm
\* Active fails to parse.
DataPdus == {"Synchronize", "Control", "FontList", "Shutdown"} \cup InputPdus
PeerRecvPdu(c, s) ==
  CASE s = "ConfirmActive" -> AcceptConfirmActive(c)
    [] s \in DataPdus      -> PeerRecvDataPdu(c, s)
    [] OTHER               -> Fail(c)

\* The license callback's result: the default freerdp_peer_nolicense sends a
\* valid-client error packet and completes; a removed callback is taken as
\* completed; an application's callback answers with its own PDUs.
LicenseOutcome(e) ==
  CASE LicenseCallbackKind = "none"      -> "COMPLETED"
    [] LicenseCallbackKind = "nolicense" -> "COMPLETED"
    [] OTHER                             -> e.lic
LicenseReply(e) ==
  CASE LicenseCallbackKind = "none" -> <<>>
    [] LicenseOutcome(e) = "COMPLETED"   -> <<"LicenseDone">>
    [] LicenseOutcome(e) = "IN_PROGRESS" -> <<"LicensePdu">>
    [] OTHER                             -> <<>>

(***************************************************************************)
(* One pass of the switch on rdp->state returns the context and whether    *)
(* the callback re-enters itself, and with which stream.                   *)
(***************************************************************************)
Done(c) == [ctx |-> c, again |-> FALSE, s |-> NULL]
Reenter(c, s) == [ctx |-> c, again |-> TRUE, s |-> s]

\* CONNECTION_STATE_INITIAL: accept the negotiation, record the selected
\* protocol, and run the Logon callback (its result is stored, not checked).
Initial(c, s, e) ==
  LET d == AcceptNego(c, s, e) IN
  IF d.rc < 0 THEN d
  ELSE [d EXCEPT !.NlaSecurity = (e.proto = "HYBRID"),
                 !.TlsSecurity = (e.proto = "SSL"),
                 !.RdpSecurity = (e.proto = "RDP"),
                 !.authenticated = e.logon]

\* CONNECTION_STATE_RDP_SECURITY_COMMENCEMENT.  UseRdpSecurityLayer follows
\* the negotiated RDP security: the security exchange PDU is consumed;
\* otherwise the stream still holds the client info and is processed again.
SecurityCommencement(c, s) ==
  IF c.RdpSecurity
  THEN LET d == EstablishKeys(c, s) IN
       IF d.rc < 0 THEN Done(d) ELSE Done(Goto(d, "SECURE_SETTINGS_EXCHANGE"))
  ELSE Reenter(Goto(c, "SECURE_SETTINGS_EXCHANGE"), s)

\* CONNECTION_STATE_SECURE_SETTINGS_EXCHANGE: client info, then licensing
\* is entered at once with a NULL stream.
SecureSettings(c, s) ==
  LET d == RecvClientInfo(c, s) IN
  IF d.rc < 0 THEN Done(d) ELSE Reenter(Goto(d, "LICENSING"), NULL)

\* A mutant of Licensing: COMPLETED breaks out of the switch instead of
\* re-entering the callback.
LicensingNoReentry(c, e) ==
  LET res == LicenseOutcome(e)
      d   == [c EXCEPT !.out = @ \o LicenseReply(e),
                       !.licLegs = @ + (IF res = "IN_PROGRESS" THEN 1 ELSE 0)]
  IN CASE res \in {"INTERNAL_ERROR", "ABORT"} -> Done(Fail(d))
       [] res = "COMPLETED" ->
            Done(Goto([d EXCEPT !.licensed = TRUE], "CAPABILITIES_EXCHANGE"))
       [] OTHER -> Done(d)

\* CONNECTION_STATE_LICENSING: the license callback decides; COMPLETED
\* re-enters in CAPABILITIES_EXCHANGE with a NULL stream, IN_PROGRESS and an
\* unknown result stay in LICENSING.
Licensing(c, e) ==
  LET res == LicenseOutcome(e)
      d   == [c EXCEPT !.out = @ \o LicenseReply(e),
                       !.licLegs = @ + (IF res = "IN_PROGRESS" THEN 1 ELSE 0)]
  IN CASE res \in {"INTERNAL_ERROR", "ABORT"} -> Done(Fail(d))
       [] res = "COMPLETED" ->
            Reenter(Goto([d EXCEPT !.licensed = TRUE], "CAPABILITIES_EXCHANGE"), NULL)
       [] OTHER -> Done(d)

\* Mutants of CapabilitiesExchange: AwaitCapabilities never set, and the
\* PDUs arriving while capabilities are awaited dropped unprocessed.
CapabilitiesExchangeNoAwait(c, s, e) ==
  IF ~c.AwaitCapabilities
  THEN IF ~e.caps THEN Fail(c)
       ELSE LET d == SendDemandActive(c)
            IN IF s = NULL THEN d ELSE PeerRecvPdu(d, s)
  ELSE PeerRecvPdu(c, s)
CapabilitiesExchangeDropWhileAwaiting(c, s, e) ==
  IF ~c.AwaitCapabilities
  THEN IF ~e.caps THEN Fail(c)
       ELSE LET d == [SendDemandActive(c) EXCEPT !.AwaitCapabilities = TRUE]
            IN IF s = NULL THEN d ELSE PeerRecvPdu(d, s)
  ELSE c

\* CONNECTION_STATE_CAPABILITIES_EXCHANGE: the first pass runs the
\* Capabilities callback and sends the Demand Active; later passes (and a
\* reactivation) hand the PDU to peer_recv_pdu, input included.
CapabilitiesExchange(c, s, e) ==
  IF ~c.AwaitCapabilities
  THEN IF ~e.caps THEN Fail(c)
       ELSE LET d == [SendDemandActive(c) EXCEPT !.AwaitCapabilities = TRUE]
            IN IF s = NULL THEN d ELSE PeerRecvPdu(d, s)
  ELSE PeerRecvPdu(c, s)

\* The switch of peer_recv_callback.
Dispatch(c, s, e) ==
  CASE c.state = "INITIAL" -> Done(Initial(c, s, e))
    [] c.state = "NEGO" ->
         Done(AcceptMcs(c, s, "McsConnectInitial", "MCS_CONNECT", "McsConnectResponse"))
    [] c.state = "MCS_CONNECT" ->
         Done(AcceptMcs(c, s, "ErectDomain", "MCS_ERECT_DOMAIN", NULL))
    [] c.state = "MCS_ERECT_DOMAIN" ->
         Done(AcceptMcs(c, s, "AttachUser", "MCS_ATTACH_USER", "AttachUserConfirm"))
    [] c.state = "MCS_ATTACH_USER" -> Done(AcceptChannelJoin(c, s))
    [] c.state = "RDP_SECURITY_COMMENCEMENT" -> SecurityCommencement(c, s)
    [] c.state = "SECURE_SETTINGS_EXCHANGE" -> SecureSettings(c, s)
    [] c.state = "LICENSING" -> Licensing(c, e)
    [] c.state = "CAPABILITIES_EXCHANGE" -> Done(CapabilitiesExchange(c, s, e))
    [] c.state \in {"FINALIZATION", "ACTIVE"} -> Done(PeerRecvPdu(c, s))

\* peer_recv_callback: a pass of the switch, and the re-entry it asks for.
RECURSIVE PeerRecvCallback(_, _, _)
PeerRecvCallback(c, s, e) ==
  LET r == Dispatch(c, s, e) IN
  IF r.again THEN PeerRecvCallback(r.ctx, r.s, e) ELSE r.ctx

\* The callback's context around the rdp fields, and the fields back out.
Ctx(r) == [f \in DOMAIN r \cup {"out", "rc"} |->
             IF f = "out" THEN <<>> ELSE IF f = "rc" THEN 0 ELSE r[f]]
Fields(c) == [f \in DOMAIN c \ {"out", "rc"} |-> c[f]]

\* peer_recv_callback run by the transport on the next framed PDU.
ServerReceive ==
  /\ srvUp = "open"
  /\ c2s # <<>>
  /\ \E e \in Env :
       LET c == PeerRecvCallback(Ctx(rdp), Head(c2s), e) IN
       /\ e.lic \in IF LicenseCallbackKind = "app" /\ rdp.licLegs >= MaxLicenseLegs
                    THEN LicenseResults \ {"IN_PROGRESS"} ELSE LicenseResults
       /\ rdp' = Fields(c)
       /\ c2s' = Tail(c2s)
       /\ s2c' = s2c \o c.out
       /\ IF c.rc < 0
          THEN srvUp' = "error" /\ cause' = Head(c2s)
          ELSE UNCHANGED <<srvUp, cause>>
  /\ UNCHANGED client

\* A mutant of ServerReactivate: the application resizes in any state.
ServerReactivateAnyState ==
  /\ srvUp = "open"
  /\ rdp.reactivations < MaxReactivations
  /\ LET c == Reactivate(Ctx(rdp))
     IN rdp' = Fields(c) /\ s2c' = s2c \o c.out
  /\ UNCHANGED <<srvUp, cause, c2s, client>>

\* An application resizing the desktop of an active session between two
\* callbacks (rdp_server_reactivate).
ServerReactivate ==
  /\ srvUp = "open"
  /\ rdp.state = "ACTIVE"
  /\ rdp.reactivations < MaxReactivations
  /\ LET c == Reactivate(Ctx(rdp))
     IN rdp' = Fields(c) /\ s2c' = s2c \o c.out
  /\ UNCHANGED <<srvUp, cause, c2s, client>>

\* freerdp_peer_close, called by the application between two callbacks.
\* The main loop keeps running until the client goes away.
ServerClose ==
  /\ srvUp = "open"
  /\ rdp.state = "ACTIVE"
  /\ ~rdp.closing
  /\ LET c == PeerClose(Ctx(rdp))
     IN rdp' = Fields(c) /\ s2c' = s2c \o c.out
  /\ UNCHANGED <<srvUp, cause, c2s, client>>

\* The client closed the TCP connection: the transport reads end of stream,
\* CheckFileDescriptor fails and the main loop disconnects the peer.
ServerTransportEof ==
  /\ srvUp = "open"
  /\ client.st = "Done"
  /\ c2s = <<>>
  /\ srvUp' = "eof"
  /\ UNCHANGED <<rdp, cause, c2s, s2c, client>>

(***************************************************************************)
(* Client: a conforming client, waiting for the server's reply to each     *)
(* step of the connection sequence.                                        *)
(***************************************************************************)
FinalizationPdus == <<"ConfirmActive", "Synchronize", "Control", "FontList">>

\* The client's reaction to a server PDU: its next state and what it sends.
ClientReact(m) ==
  LET st == client.st IN
  CASE m = "Ultimatum" -> [st |-> "Done", send |-> <<>>]
    [] st = "WaitConnConfirm" /\ m = "ConnectionConfirm" ->
         [st |-> "WaitMcsResponse", send |-> <<"McsConnectInitial">>]
    [] st = "WaitMcsResponse" /\ m = "McsConnectResponse" ->
         [st |-> "WaitAttachConfirm", send |-> <<"ErectDomain", "AttachUser">>]
    [] st = "WaitAttachConfirm" /\ m = "AttachUserConfirm" ->
         [st |-> "WaitJoinConfirm", send |-> <<"ChannelJoin">>]
    [] st = "WaitJoinConfirm" /\ m = "ChannelJoinConfirm" ->
         IF client.joins + 1 < NumChannels
         THEN [st |-> "WaitJoinConfirm", send |-> <<"ChannelJoin">>]
         ELSE [st |-> "WaitLicense",
               send |-> (IF rdp.RdpSecurity THEN <<"SecurityExchange">> ELSE <<>>)
                        \o <<"ClientInfo">>]
    [] st = "WaitLicense" /\ m = "LicensePdu" ->
         [st |-> "WaitLicense", send |-> <<"License">>]
    [] st = "WaitLicense" /\ m = "LicenseDone" ->
         [st |-> "WaitDemand", send |-> <<>>]
    [] st \in {"WaitLicense", "WaitDemand", "Deactivated"} /\ m = "DemandActive" ->
         [st |-> "WaitFontMap", send |-> FinalizationPdus]
    [] st = "WaitFontMap" /\ m = "FontMap" -> [st |-> "Active", send |-> <<>>]
    [] st \in {"Active", "WaitFontMap"} /\ m = "DeactivateAll" ->
         [st |-> "Deactivated", send |-> <<>>]      \* also during finalization
    [] st = "Active" /\ m \in {"FrameMarker", "SurfaceBits"} ->
         [st |-> "Active", send |-> <<>>]              \* graphics are shown
    [] OTHER -> [st |-> "Broken", send |-> <<>>]   \* unexpected in this state

\* The client processes the next PDU from the server.
ClientReceive ==
  /\ s2c # <<>>
  /\ client.st # "Done"
  /\ LET r == ClientReact(Head(s2c)) IN
     /\ client' = [client EXCEPT !.st = r.st,
                     !.joins = IF Head(s2c) = "ChannelJoinConfirm" THEN @ + 1 ELSE @]
     /\ c2s' = c2s \o r.send
  /\ s2c' = Tail(s2c)
  /\ UNCHANGED <<rdp, srvUp, cause>>

\* The client opens the connection with its X.224 connection request.
ClientConnect ==
  /\ client.st = "Start"
  /\ client' = [client EXCEPT !.st = "WaitConnConfirm"]
  /\ c2s' = Append(c2s, "ConnectionRequest")
  /\ UNCHANGED <<rdp, srvUp, cause, s2c>>

\* The user types or moves the mouse while the session is active.
ClientInput ==
  /\ client.st = "Active"
  /\ client.inputs < MaxInputs
  /\ \E m \in InputPdus :
       /\ client.pressed[m] < InputBudget[m]
       /\ client' = [client EXCEPT !.inputs = @ + 1, !.pressed[m] = @ + 1]
       /\ c2s' = Append(c2s, m)
  /\ UNCHANGED <<rdp, srvUp, cause, s2c>>

\* The user logs off: Shutdown Request, then the client is done.
ClientShutdown ==
  /\ client.st = "Active"
  /\ client' = [client EXCEPT !.st = "Done"]
  /\ c2s' = Append(c2s, "Shutdown")
  /\ UNCHANGED <<rdp, srvUp, cause, s2c>>

\* The server dropped the connection: the client sees the socket close.
ClientConnectionLost ==
  /\ srvUp # "open"
  /\ client.st # "Done"
  /\ s2c = <<>>
  /\ client' = [client EXCEPT !.st = "Done"]
  /\ UNCHANGED <<rdp, srvUp, cause, c2s, s2c>>

\* Both ends have stopped.
Terminated ==
  /\ srvUp # "open"
  /\ client.st = "Done"
  /\ UNCHANGED vars

(***************************************************************************)
(* Specification                                                           *)
(***************************************************************************)

\* freerdp_peer_context_new (calloc'd rdp, LicenseCallback set to
\* freerdp_peer_nolicense, the application's ContextNew filling its own
\* fields) followed by freerdp_peer_initialize.
Init ==
  /\ rdp = [state |-> "INITIAL", AwaitCapabilities |-> FALSE, proto |-> NULL,
            NlaSecurity |-> FALSE, TlsSecurity |-> FALSE, RdpSecurity |-> FALSE,
            authenticated |-> FALSE, joined |-> 0, licLegs |-> 0,
            reactivations |-> 0, closing |-> FALSE,
            clientInfo |-> FALSE, licensed |-> FALSE, demands |-> 0, confirms |-> 0]
           @@ AppContext
  /\ srvUp = "open"
  /\ cause = NULL
  /\ c2s = <<>>
  /\ s2c = <<>>
  /\ client = [st |-> "Start", joins |-> 0, inputs |-> 0,
               pressed |-> [m \in InputPdus |-> 0]]

\* The peer and its client; the application acts only from its callbacks.
PeerNext ==
  \/ ServerReceive \/ ServerTransportEof
  \/ ClientConnect \/ ClientReceive \/ ClientInput \/ ClientShutdown
  \/ ClientConnectionLost \/ Terminated

\* An application that also resizes or closes between callbacks.
Next == PeerNext \/ ServerReactivate \/ ServerClose

\* The peer main loop runs the callback whenever the socket is readable, and
\* the client answers every PDU it receives; the user's and the
\* application's choices (input, log off, resize, close) are not forced.
Fairness ==
  /\ WF_vars(ServerReceive) /\ WF_vars(ServerTransportEof)
  /\ WF_vars(ClientConnect) /\ WF_vars(ClientReceive)
  /\ WF_vars(ClientConnectionLost)

Spec == Init /\ [][Next]_vars /\ Fairness

(***************************************************************************)
(* Properties                                                              *)
(***************************************************************************)
TypeOK ==
  /\ rdp.state \in ConnectionStates
  /\ rdp.AwaitCapabilities \in BOOLEAN
  /\ rdp.proto \in Protocols \cup {NULL}
  /\ rdp.joined \in 0..NumChannels
  /\ rdp.demands \in 0..MaxReactivations + 1
  /\ rdp.confirms \in 0..MaxReactivations + 1
  /\ rdp.licLegs \in 0..MaxLicenseLegs
  /\ rdp.reactivations \in 0..MaxReactivations
  /\ srvUp \in {"open", "error", "eof"}
  /\ cause \in ClientPdus \cup {NULL}
  /\ \A i \in DOMAIN c2s : c2s[i] \in ClientPdus
  /\ \A i \in DOMAIN s2c : s2c[i] \in ServerPdus
  /\ client.joins \in 0..NumChannels /\ client.inputs \in 0..MaxInputs
  /\ \A m \in InputPdus : client.pressed[m] \in 0..InputBudget[m]

\* The server is ACTIVE only once the client info was received, licensing
\* completed, and every Demand Active it sent (the first one after licensing
\* and one per reactivation) has been answered by a Confirm Active: the
\* re-entries of peer_recv_callback and the AwaitCapabilities flag must
\* send exactly one Demand Active per capabilities exchange.
ActiveImpliesHandshake ==
  rdp.state = "ACTIVE" =>
    /\ rdp.clientInfo /\ rdp.licensed
    /\ rdp.demands >= 1 /\ rdp.demands = rdp.confirms

\* With a conforming client the server fails a callback only on the client's
\* Shutdown Request, and the client never meets a PDU it cannot handle: in
\* particular input still in flight when the server starts a reactivation
\* is processed in CAPABILITIES_EXCHANGE, not rejected.
NoSpuriousTeardown ==
  /\ srvUp = "error" => cause = "Shutdown"
  /\ client.st # "Broken"

\* The server's rdp->state implements the phase order of the connection
\* sequence: every callback, re-entries included, and every application
\* call (reactivate, close) moves it forward or keeps it, and it goes back
\* only from ACTIVE to CAPABILITIES_EXCHANGE.
Phases == INSTANCE ConnectionPhases WITH Order <- StateOrder, phase <- rdp.state
PhasesRefined == Phases!Spec

\* Every connection the client opens reaches ACTIVE (or ends): the server
\* sends its Demand Active without waiting for another client PDU.
EventuallyActive == <>(rdp.state = "ACTIVE" \/ srvUp # "open")

\* Every capabilities exchange, a reactivation included, ends with the server
\* ACTIVE again or the connection gone.
ReactivationCompletes ==
  (rdp.state = "CAPABILITIES_EXCHANGE") ~> (rdp.state = "ACTIVE" \/ srvUp # "open")
=============================================================================
