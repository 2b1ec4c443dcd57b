------------------------------ MODULE Clipboard ------------------------------
(***************************************************************************)
(* Clipboard redirection of the X11 client (src/client/X11/xf_cliprdr.c).  *)
(*                                                                         *)
(* Three parties exchange the clipboard.  The RDP server talks to the      *)
(* client over the cliprdr channel: s2c and c2s are its two in-order PDU   *)
(* streams, and each PDU from the server is one call of a cliprdr callback *)
(* (xf_cliprdr_server_format_list, ..._data_request, ..._data_response).   *)
(* The X server delivers events to the client window: xq is its event      *)
(* queue, and each event is one call of xf_cliprdr_handle_xevent.  A local *)
(* X application copies, pastes, and answers our conversions when it owns  *)
(* the CLIPBOARD selection.                                                *)
(*                                                                         *)
(* The client's state is cb, the fields of xfClipboard.  Every callback    *)
(* and event handler is one step, with the whole of what it calls.  Data   *)
(* is abstracted to a version: each copy, on either side, makes a new      *)
(* clipboard content numbered 1, 2, ...; NULL is an absent buffer.         *)
(*                                                                         *)
(* The server, the X server and the application are not code of this       *)
(* repository: they are modelled from the cliprdr protocol and from the    *)
(* ICCCM rules the code relies on (selection timestamps, INCR transfers).  *)
(***************************************************************************)
EXTENDS Naturals, Sequences, FiniteSets

CONSTANTS
  Formats,          \* clipboard formats both sides know (by atom and id)
  MaxCopies,        \* bound on copies, server side and local together
  Pastes,           \* paste requests of the local application (ids)
  MaxServerPastes,  \* bound on pastes on the server side
  MaxChunks,        \* chunks of an INCR transfer
  ServerMayFail,    \* the server may answer a data request with no data
  AppMayAbandon     \* the local owner may stop an INCR transfer midway

ASSUME MaxCopies \in Nat /\ MaxServerPastes \in Nat /\ MaxChunks \in Nat
ASSUME ServerMayFail \in BOOLEAN /\ AppMayAbandon \in BOOLEAN

NULL == 0                 \* no data
NoFormat == "NoFormat"    \* data_format_id / requestedFormatId of -1
Self == "Self"            \* our own window as a requestor (xfc->drawable)
NoRequest == "NoRequest"  \* clipboard->respond of NULL
TARGETS == "TARGETS"      \* clipboard->targets[1]
Vers == 0..MaxCopies
Owners == {"none", "us", "app"}
NoProp == [type |-> "none", ver |-> NULL]

VARIABLES
  s2c, c2s,   \* cliprdr PDUs in flight, server to client and back
  srv,        \* the server: its clipboard and its outstanding paste
  sel,        \* the X CLIPBOARD selection: owner, last-change time, content
  xtime,      \* the X server time
  xq,         \* X events queued for the client window
  winProp,    \* property_atom on the client window
  app,        \* the local application: its content, conversions, INCR
  paste,      \* paste[p]: a paste of the application, and its answer
  copies,     \* copies so far (the version of the latest one)
  cb          \* xfClipboard

vars == <<s2c, c2s, srv, sel, xtime, xq, winProp, app, paste, copies, cb>>

SelReq(req, t) == [type |-> "SelectionRequest", req |-> req, target |-> t]
SelNotify(t, p) == [type |-> "SelectionNotify", target |-> t, prop |-> p]
TimestampNotify(t) == [type |-> "PropertyNotify", atom |-> "timestamp", time |-> t]
PropertyNewValue == [type |-> "PropertyNotify", atom |-> "property"]
XFixesNotify == [type |-> "XFixesSelectionNotify"]

(***************************************************************************)
(* The client's steps work on a context: the client state and everything   *)
(* a handler may change.  Commit makes the context the next state.         *)
(***************************************************************************)
Ctx == [cb |-> cb, xq |-> xq, conv |-> app.conv, up |-> c2s, prop |-> winProp,
        paste |-> paste, sel |-> sel, xtime |-> xtime]

Commit(x) ==
  /\ cb' = x.cb /\ xq' = x.xq /\ c2s' = x.up /\ winProp' = x.prop
  /\ paste' = x.paste /\ sel' = x.sel /\ xtime' = x.xtime
  /\ app' = [app EXCEPT !.conv = x.conv]

Send(x, m) == [x EXCEPT !.up = Append(@, m)]
Post(x, e) == [x EXCEPT !.xq = Append(@, e)]

\* XConvertSelection: the X server passes the request to the current owner,
\* or answers with property None when there is none.
ConvertSelection(x, t) ==
  CASE x.sel.owner = "app" -> [x EXCEPT !.conv = Append(@, t)]
    [] x.sel.owner = "us"  -> Post(x, SelReq(Self, t))
    [] OTHER               -> Post(x, SelNotify(t, FALSE))

\* xf_cliprdr_send_data_request / xf_cliprdr_send_data_response: a NULL
\* buffer is sent as CB_RESPONSE_FAIL.
SendDataRequest(x, f) == Send(x, [type |-> "FormatDataRequest", fmt |-> f])
SendDataResponse(x, d) == Send(x, [type |-> "FormatDataResponse", ver |-> d])

\* xf_cliprdr_clear_cached_data: frees data and data_raw.
ClearCachedData(x) == [x EXCEPT !.cb.data = NULL]

\* xf_cliprdr_send_client_format_list: sends the static client formats and,
\* when another window owns the selection, asks it for its TARGETS.
SendClientFormatList(x) ==
  LET y == Send(x, [type |-> "FormatList", nonempty |-> TRUE])
  IN  IF x.cb.owner = "app" THEN ConvertSelection(y, TARGETS) ELSE y

\* xf_cliprdr_check_owner
CheckOwner(x) ==
  IF x.cb.sync /\ x.cb.owner # x.sel.owner
  THEN SendClientFormatList([x EXCEPT !.cb.owner = x.sel.owner])
  ELSE x

\* xf_cliprdr_is_raw_transfer_available: only a window of another FreeRDP
\* client sets _FREERDP_CLIPRDR_RAW, and the local owner is not one.
IsRawTransferAvailable == FALSE

\* xf_cliprdr_get_formats_from_targets: whether the ATOM list in our
\* property names client formats; a property of another type reads as none.
GetFormatsFromTargets(p) == p.type = "ATOM"

\* xf_cliprdr_get_client_formats: the raw format list of a FreeRDP owner,
\* else the formats from its TARGETS.
GetClientFormats(p) == IF IsRawTransferAvailable THEN TRUE ELSE GetFormatsFromTargets(p)

\* xf_cliprdr_get_requested_targets: the owner's formats as our format list.
GetRequestedTargets(x) ==
  Send(x, [type |-> "FormatList", nonempty |-> GetClientFormats(x.prop)])

\* xf_cliprdr_get_client_format_by_id: the client format of an id, if any.
GetClientFormatById(id) == id \in Formats

\* xf_cliprdr_get_server_format_by_atom, through xf_cliprdr_formats_equal:
\* the server format matching the client format of an atom.
GetServerFormatByAtom(x, t) == t \in x.cb.serverFormats

(***************************************************************************)
(* Data from the owner: xf_cliprdr_get_requested_data and                  *)
(* xf_cliprdr_process_requested_data                                       *)
(***************************************************************************)

\* XGetWindowProperty's bytes_left: nothing is left of a deleted or empty
\* property (the end of an INCR transfer is a zero-length property).
BytesLeft(p) == IF p.type = "none" \/ (p.type = "data" /\ p.ver = NULL) THEN 0 ELSE 1

\* The data read with the requested type: a property of another type reads
\* as no data.
ReadData(p) == IF p.type = "data" THEN p.ver ELSE NULL

\* incr_data after a chunk is appended: data of the oldest content in it.
Accumulate(acc, v) ==
  CASE v = NULL -> acc [] acc = NULL -> v [] OTHER -> IF acc < v THEN acc ELSE v

\* Mutant of ProcessRequestedData: no wait for the end of an INCR transfer.
ProcessRequestedDataNoIncrWait(x, hasData, d) ==
  SendDataResponse(x, IF ~hasData \/ ~GetClientFormatById(x.cb.requestedFormatId) THEN NULL ELSE d)

\* xf_cliprdr_process_requested_data: nothing is sent while an INCR transfer
\* runs; a missing buffer or format is sent as a failure.  The conversion
\* through clipboard->system is taken to succeed for a known format.
ProcessRequestedData(x, hasData, d) ==
  IF x.cb.incr_starts /\ hasData THEN x
  ELSE SendDataResponse(x, IF ~hasData \/ ~GetClientFormatById(x.cb.requestedFormatId) THEN NULL ELSE d)

\* Mutant of GetRequestedData: the end of an INCR transfer leaves
\* incr_starts set.
GetRequestedDataKeepsIncr(x, t) ==
  IF ~GetClientFormatById(x.cb.requestedFormatId) \/ x.cb.requestedFormatId # t THEN SendDataResponse(x, NULL)
  ELSE LET p == x.prop
           y == [x EXCEPT !.prop = NoProp]
       IN  CASE BytesLeft(p) = 0 /\ ~x.cb.incr_starts -> ProcessRequestedData(y, FALSE, NULL)
             [] p.type = "INCR" ->
                  ProcessRequestedData([y EXCEPT !.cb.incr_starts = TRUE, !.cb.incrData = NULL], TRUE, NULL)
             [] BytesLeft(p) = 0 ->
                  ProcessRequestedData([y EXCEPT !.cb.incrData = NULL], TRUE, x.cb.incrData)
             [] x.cb.incr_starts ->
                  ProcessRequestedData([y EXCEPT !.cb.incrData = Accumulate(@, ReadData(p))], TRUE, NULL)
             [] OTHER -> ProcessRequestedData(y, TRUE, ReadData(p))

\* xf_cliprdr_get_requested_data: the property is read, deleted (which lets
\* an INCR owner write its next chunk) and its data handed on.  A property
\* of type INCR starts a transfer; with a transfer running, a non-empty
\* property is a chunk and an empty one ends it.
GetRequestedData(x, t) ==
  IF ~GetClientFormatById(x.cb.requestedFormatId) \/ x.cb.requestedFormatId # t THEN SendDataResponse(x, NULL)
  ELSE LET p == x.prop
           y == [x EXCEPT !.prop = NoProp]
       IN  CASE BytesLeft(p) = 0 /\ ~x.cb.incr_starts -> ProcessRequestedData(y, FALSE, NULL)
             [] p.type = "INCR" ->
                  ProcessRequestedData([y EXCEPT !.cb.incr_starts = TRUE, !.cb.incrData = NULL], TRUE, NULL)
             [] BytesLeft(p) = 0 ->
                  ProcessRequestedData([y EXCEPT !.cb.incr_starts = FALSE, !.cb.incrData = NULL],
                                       TRUE, x.cb.incrData)
             [] x.cb.incr_starts ->
                  ProcessRequestedData([y EXCEPT !.cb.incrData = Accumulate(@, ReadData(p))], TRUE, NULL)
             [] OTHER -> ProcessRequestedData(y, TRUE, ReadData(p))

(***************************************************************************)
(* X events: xf_cliprdr_handle_xevent and the handlers it calls            *)
(***************************************************************************)

\* A paste of the application gets its SelectionNotify, with data d.
Deliver(x, req, d) == [x EXCEPT !.paste[req] = [@ EXCEPT !.st = "answered", !.got = d]]

\* The SelectionNotify XSendEvent'd to the requestor of e, with the property
\* set (p) or None.  Our own window gets it as an event; the TARGETS we
\* answer ourselves are written to our property_atom, and the X server
\* reports that write with a PropertyNotify before the SelectionNotify.
Answer(x, e, p, d) ==
  IF e.req = Self
  THEN IF p THEN Post(Post([x EXCEPT !.prop = [type |-> "ATOM", ver |-> NULL]], PropertyNewValue),
                      SelNotify(e.target, p))
            ELSE Post(x, SelNotify(e.target, p))
  ELSE Deliver(x, e.req, d)

\* Mutant of ProcessSelectionRequest: a request of our own window is not
\* refused.
ProcessSelectionRequestNoSelfCheck(x, e) ==
  IF e.target = TARGETS THEN Answer(x, e, TRUE, NULL)
  ELSE IF ~GetServerFormatByAtom(x, e.target) THEN Answer(x, e, FALSE, NULL)
  ELSE IF x.cb.dataFmt = e.target /\ x.cb.data # NULL THEN Answer(x, e, TRUE, x.cb.data)
  ELSE IF x.cb.respond # NoRequest THEN Answer(x, e, FALSE, NULL)
  ELSE SendDataRequest([ClearCachedData(x) EXCEPT !.cb.respond = e.req, !.cb.dataFmt = e.target],
                       e.target)

\* xf_cliprdr_process_selection_request: TIMESTAMP and TARGETS are answered
\* at once; a server format is answered from the cache when the cached data
\* is of that format, refused while another request awaits the server (a
\* "duplicate request"), and otherwise requested from the server, the
\* answer being delayed in clipboard->respond.  A request of our own window
\* or for a format the server did not announce is refused.
ProcessSelectionRequest(x, e) ==
  IF e.target = TARGETS THEN Answer(x, e, TRUE, NULL)
  ELSE IF ~GetServerFormatByAtom(x, e.target) \/ e.req = Self THEN Answer(x, e, FALSE, NULL)
  ELSE IF x.cb.dataFmt = e.target /\ x.cb.data # NULL THEN Answer(x, e, TRUE, x.cb.data)
  ELSE IF x.cb.respond # NoRequest THEN Answer(x, e, FALSE, NULL)
  ELSE SendDataRequest([ClearCachedData(x) EXCEPT !.cb.respond = e.req, !.cb.dataFmt = e.target],
                       e.target)

\* xf_cliprdr_process_selection_notify
ProcessSelectionNotify(x, e) ==
  IF e.target = TARGETS
  THEN IF e.prop THEN GetRequestedTargets(x) ELSE SendClientFormatList(x)
  ELSE GetRequestedData(x, e.target)

\* xf_cliprdr_set_selection_owner: XSetSelectionOwner takes effect only if
\* its timestamp is not older than the selection's last change; the X
\* server then reports the new owner through XFixes.
SetSelectionOwner(x, t) ==
  IF t >= x.sel.time
  THEN Post([x EXCEPT !.sel = [owner |-> "us", time |-> t, ver |-> x.cb.listVer]], XFixesNotify)
  ELSE x

\* xf_cliprdr_process_property_notify: the timestamp property we changed
\* lets us take the selection; a new value of our property while an INCR
\* transfer runs is its next chunk.
ProcessPropertyNotify(x, e) ==
  IF e.atom = "timestamp" THEN SetSelectionOwner(x, e.time)
  ELSE IF x.cb.incr_starts /\ GetClientFormatById(x.cb.requestedFormatId)
       THEN GetRequestedData(x, x.cb.requestedFormatId)
       ELSE x

\* xf_cliprdr_handle_xevent.  The XFixes owner change is ignored when we
\* are the owner; otherwise the cached owner is forgotten and re-checked.
HandleXEvent(x, e) ==
  CASE e.type = "XFixesSelectionNotify" ->
         IF x.sel.owner = "us" THEN x ELSE CheckOwner([x EXCEPT !.cb.owner = "none"])
    [] e.type = "SelectionNotify"  -> ProcessSelectionNotify(x, e)
    [] e.type = "SelectionRequest" -> ProcessSelectionRequest(x, e)
    [] e.type = "PropertyNotify"   -> ProcessPropertyNotify(x, e)

(***************************************************************************)
(* cliprdr callbacks, called for each PDU from the server                  *)
(***************************************************************************)

\* xf_cliprdr_monitor_ready: capabilities, the format list, then sync.
MonitorReady(x) ==
  [SendClientFormatList(Send(x, [type |-> "ClientCapabilities"])) EXCEPT !.cb.sync = TRUE]

\* xf_cliprdr_prepare_to_set_selection_owner: a change of our timestamp
\* property, whose PropertyNotify brings back the X server time.
PrepareToSetSelectionOwner(x) ==
  Post([x EXCEPT !.xtime = @ + 1], TimestampNotify(x.xtime + 1))

\* Mutant of ServerFormatList: the cached data is kept.
ServerFormatListKeepsCache(x, m) ==
  PrepareToSetSelectionOwner(
    Send([x EXCEPT !.cb.serverFormats = Formats, !.cb.listVer = m.ver],
         [type |-> "FormatListResponse"]))

\* Mutant of ServerFormatList: the selection is not taken.
ServerFormatListNoOwner(x, m) ==
  Send([ClearCachedData(x) EXCEPT !.cb.dataFmt = NoFormat, !.cb.serverFormats = Formats,
                                  !.cb.listVer = m.ver],
       [type |-> "FormatListResponse"])

\* xf_cliprdr_server_format_list: the cache is cleared and data_format_id
\* reset, the server formats replaced (their targets appended), the list
\* acknowledged, and the selection prepared to be taken.
ServerFormatList(x, m) ==
  PrepareToSetSelectionOwner(
    Send([ClearCachedData(x) EXCEPT !.cb.dataFmt = NoFormat, !.cb.serverFormats = Formats,
                                    !.cb.listVer = m.ver],
         [type |-> "FormatListResponse"]))

\* xf_cliprdr_server_format_data_request: without raw transfer, a format
\* the client does not know is answered with a failure; otherwise it is
\* remembered and the selection converted to it.
ServerFormatDataRequest(x, m) ==
  IF ~IsRawTransferAvailable /\ ~GetClientFormatById(m.fmt) THEN SendDataResponse(x, NULL)
  ELSE ConvertSelection([x EXCEPT !.cb.requestedFormatId = m.fmt], m.fmt)

\* xf_cliprdr_server_format_data_response: ignored unless a request waits in
\* respond.  With data_format_id reset by a format list in between there is
\* no source format, ClipboardSetData fails and the requestor gets no data.
\* Empty data (SrcSize 0) frees respond without an XSendEvent.  Otherwise
\* the data is cached and sent.  respond is freed and set to NULL.
ServerFormatDataResponse(x, m) ==
  IF x.cb.respond = NoRequest THEN x
  ELSE LET y == [ClearCachedData(x) EXCEPT !.cb.respond = NoRequest]
           req == x.cb.respond
       IN  CASE x.cb.dataFmt = NoFormat -> Deliver(y, req, NULL)
             [] m.ver = NULL            -> y
             [] OTHER                   -> Deliver([y EXCEPT !.cb.data = m.ver], req, m.ver)

\* The cliprdr client's dispatch of a server PDU to the callbacks;
\* xf_cliprdr_server_capabilities and _format_list_response change nothing
\* modelled here (streams_supported is for the FUSE file streams).
ChannelCallback(x, m) ==
  CASE m.type = "MonitorReady"       -> MonitorReady(x)
    [] m.type = "FormatList"         -> ServerFormatList(x, m)
    [] m.type = "FormatDataRequest"  -> ServerFormatDataRequest(x, m)
    [] m.type = "FormatDataResponse" -> ServerFormatDataResponse(x, m)
    [] OTHER                         -> x

(***************************************************************************)
(* The client's two entry points                                           *)
(***************************************************************************)

\* xf_clipboard_new: calloc'd, requestedFormatId -1, no server formats.
Init ==
  /\ s2c = <<[type |-> "ServerCapabilities"], [type |-> "MonitorReady"]>>
  /\ c2s = <<>>
  /\ srv = [clip |-> [src |-> "none", ver |-> NULL], want |-> FALSE, wantVer |-> NULL,
            err |-> FALSE, pastes |-> 0]
  /\ sel = [owner |-> "none", time |-> 0, ver |-> NULL]
  /\ xtime = 0
  /\ xq = <<>>
  /\ winProp = NoProp
  /\ app = [clip |-> NULL, conv |-> <<>>, incr |-> [on |-> FALSE, left |-> 0, ver |-> NULL]]
  /\ paste = [p \in Pastes |-> [st |-> "idle", ownVer |-> NULL, got |-> NULL]]
  /\ copies = 0
  /\ cb = [sync |-> FALSE, owner |-> "none", serverFormats |-> {}, listVer |-> NULL,
           data |-> NULL, dataFmt |-> NoFormat, respond |-> NoRequest,
           requestedFormatId |-> NoFormat, incr_starts |-> FALSE, incrData |-> NULL]

\* One PDU from the server, handled by its callback.
ChannelReceive ==
  /\ s2c # <<>>
  /\ s2c' = Tail(s2c)
  /\ Commit(ChannelCallback(Ctx, Head(s2c)))
  /\ UNCHANGED <<srv, copies>>

\* One X event, handled by xf_cliprdr_handle_xevent.
XEvent ==
  /\ xq # <<>>
  /\ Commit(HandleXEvent([Ctx EXCEPT !.xq = Tail(@)], Head(xq)))
  /\ UNCHANGED <<s2c, srv, copies>>

(***************************************************************************)
(* The RDP server (cliprdr protocol)                                       *)
(***************************************************************************)

\* A copy on the server side is announced with a format list.
ServerCopy ==
  /\ copies < MaxCopies
  /\ copies' = copies + 1
  /\ srv' = [srv EXCEPT !.clip = [src |-> "server", ver |-> copies + 1]]
  /\ s2c' = Append(s2c, [type |-> "FormatList", ver |-> copies + 1])
  /\ UNCHANGED <<c2s, sel, xtime, xq, winProp, app, paste, cb>>

\* A paste on the server side of what the client announced.
ServerPaste ==
  /\ srv.clip.src = "client" /\ ~srv.want /\ srv.pastes < MaxServerPastes
  /\ \E f \in Formats : s2c' = Append(s2c, [type |-> "FormatDataRequest", fmt |-> f])
  /\ srv' = [srv EXCEPT !.want = TRUE, !.wantVer = app.clip, !.pastes = @ + 1]
  /\ UNCHANGED <<c2s, sel, xtime, xq, winProp, app, paste, copies, cb>>

\* Data the server answers a request with: its own content, or a failure
\* when it has none (or, if ServerMayFail, at any time).
ServerData ==
  (IF srv.clip.src = "server" THEN {srv.clip.ver} ELSE {})
  \cup (IF ServerMayFail \/ srv.clip.src # "server" THEN {NULL} ELSE {})

\* The server reads one PDU of the client.  A data response it did not ask
\* for, or one older than the local content when it asked, is an error.
ServerReceive ==
  /\ c2s # <<>>
  /\ c2s' = Tail(c2s)
  /\ LET m == Head(c2s) IN
     CASE m.type = "FormatList" ->
            /\ srv' = [srv EXCEPT !.clip = [src |-> IF m.nonempty THEN "client" ELSE "none",
                                            ver |-> NULL]]
            /\ s2c' = Append(s2c, [type |-> "FormatListResponse"])
       [] m.type = "FormatDataRequest" ->
            /\ \E d \in ServerData :
                 s2c' = Append(s2c, [type |-> "FormatDataResponse", ver |-> d])
            /\ UNCHANGED srv
       [] m.type = "FormatDataResponse" ->
            /\ srv' = [srv EXCEPT !.want = FALSE,
                                  !.err = @ \/ ~srv.want \/ (m.ver # NULL /\ m.ver < srv.wantVer)]
            /\ UNCHANGED s2c
       [] OTHER -> UNCHANGED <<srv, s2c>>
  /\ UNCHANGED <<sel, xtime, xq, winProp, app, paste, copies, cb>>

(***************************************************************************)
(* The local X application (ICCCM)                                         *)
(***************************************************************************)

\* A copy: the application takes the selection at the current time.
AppCopy ==
  /\ copies < MaxCopies
  /\ copies' = copies + 1
  /\ xtime' = xtime + 1
  /\ app' = [app EXCEPT !.clip = copies + 1]
  /\ sel' = [owner |-> "app", time |-> xtime + 1, ver |-> copies + 1]
  /\ xq' = Append(xq, XFixesNotify)
  /\ UNCHANGED <<s2c, c2s, srv, winProp, paste, cb>>

\* A paste while the client owns the selection: a SelectionRequest to us.
AppPaste ==
  /\ sel.owner = "us"
  /\ \E p \in Pastes, t \in Formats \cup {TARGETS} :
       /\ paste[p].st = "idle"
       /\ paste' = [paste EXCEPT ![p] = [st |-> "waiting", ownVer |-> sel.ver, got |-> NULL]]
       /\ xq' = Append(xq, SelReq(p, t))
  /\ UNCHANGED <<s2c, c2s, srv, sel, xtime, winProp, app, copies, cb>>

\* The owner answers our oldest conversion: TARGETS as an ATOM list; data
\* in the property, as an INCR transfer, or refused (property None).  The
\* X server reports each write to our property with a PropertyNotify
\* (NewValue), queued before the owner's SelectionNotify.
Written(t) == <<PropertyNewValue, SelNotify(t, TRUE)>>

AppConvert ==
  /\ app.conv # <<>> /\ ~app.incr.on
  /\ LET t == Head(app.conv)
         done == [app EXCEPT !.conv = Tail(@)]
     IN  IF t = TARGETS
         THEN /\ winProp' = [type |-> "ATOM", ver |-> NULL]
              /\ xq' = xq \o Written(t) /\ app' = done
         ELSE \/ /\ winProp' = [type |-> "data", ver |-> app.clip]
                 /\ xq' = xq \o Written(t) /\ app' = done
              \/ /\ MaxChunks > 0
                 /\ winProp' = [type |-> "INCR", ver |-> NULL]
                 /\ xq' = xq \o Written(t)
                 /\ app' = [done EXCEPT !.incr = [on |-> TRUE, left |-> MaxChunks, ver |-> app.clip]]
              \/ /\ xq' = Append(xq, SelNotify(t, FALSE)) /\ app' = done
                 /\ UNCHANGED winProp
  /\ UNCHANGED <<s2c, c2s, srv, sel, xtime, paste, copies, cb>>

\* Once we delete the property the owner writes the next chunk of an INCR
\* transfer, and a zero-length one at the end.
AppIncrChunk ==
  /\ app.incr.on /\ winProp = NoProp
  /\ winProp' = [type |-> "data", ver |-> IF app.incr.left > 0 THEN app.incr.ver ELSE NULL]
  /\ app' = [app EXCEPT !.incr = IF @.left > 0 THEN [@ EXCEPT !.left = @ - 1]
                                                ELSE [@ EXCEPT !.on = FALSE]]
  /\ xq' = Append(xq, PropertyNewValue)
  /\ UNCHANGED <<s2c, c2s, srv, sel, xtime, paste, copies, cb>>

\* The owner gives up an INCR transfer (it exits or is killed).
AppAbandon ==
  /\ AppMayAbandon /\ app.incr.on
  /\ app' = [app EXCEPT !.incr.on = FALSE]
  /\ UNCHANGED <<s2c, c2s, srv, sel, xtime, xq, winProp, paste, copies, cb>>

Next ==
  \/ ChannelReceive \/ XEvent
  \/ ServerCopy \/ ServerPaste \/ ServerReceive
  \/ AppCopy \/ AppPaste \/ AppConvert \/ AppIncrChunk \/ AppAbandon

\* The client's main loop and channel thread handle every event and PDU;
\* the server answers and the owner answers conversions and sends its
\* chunks.  Copies, pastes and giving up are the users' choice.
Spec ==
  Init /\ [][Next]_vars
  /\ WF_vars(ChannelReceive) /\ WF_vars(XEvent) /\ WF_vars(ServerReceive)
  /\ WF_vars(AppConvert) /\ WF_vars(AppIncrChunk)

(***************************************************************************)
(* Properties                                                              *)
(***************************************************************************)

Props == {NoProp} \cup [type : {"data"}, ver : Vers] \cup [type : {"INCR", "ATOM"}, ver : {NULL}]
Targets == Formats \cup {TARGETS}

\* The type of every variable; in particular respond only ever holds the
\* request of another application (a request of our own window, answered
\* later by the server, would be an answer we wait for ourselves).
TypeOK ==
  /\ srv.clip \in [src : {"none", "server", "client"}, ver : Vers]
  /\ srv.want \in BOOLEAN /\ srv.wantVer \in Vers /\ srv.err \in BOOLEAN
  /\ sel \in [owner : Owners, time : Nat, ver : Vers]
  /\ winProp \in Props
  /\ app.clip \in Vers /\ app.conv \in Seq(Targets)
  /\ paste \in [Pastes -> [st : {"idle", "waiting", "answered"}, ownVer : Vers, got : Vers]]
  /\ cb.sync \in BOOLEAN /\ cb.owner \in Owners
  /\ cb.serverFormats \subseteq Formats /\ cb.listVer \in Vers
  /\ cb.data \in Vers /\ cb.dataFmt \in Formats \cup {NoFormat}
  /\ cb.respond \in {NoRequest} \cup Pastes
  /\ cb.requestedFormatId \in Formats \cup {NoFormat}
  /\ cb.incr_starts \in BOOLEAN /\ cb.incrData \in Vers

\* A paste of the local application that gets data never gets content older
\* than the server clipboard our selection stood for when it asked: the
\* cache kept by xf_cliprdr_server_format_data_response is never served
\* after a newer format list (xf_cliprdr_server_format_list clears it).
PasteDataFresh ==
  \A p \in Pastes :
    paste[p].st = "answered" /\ paste[p].got # NULL => paste[p].got >= paste[p].ownVer

\* The server never gets a data response it did not ask for, nor data older
\* than the local content when it asked: one response per
\* xf_cliprdr_server_format_data_request, through INCR transfers too.
ServerDataConsistent == ~srv.err

\* Every Format Data Request of the server is eventually answered by
\* xf_cliprdr_process_requested_data, also when a TARGETS answer overwrites
\* the end of an INCR transfer in the shared property (MS-RDPECLIP: each
\* request gets a Format Data Response).
ServerRequestAnswered == srv.want ~> ~srv.want

\* A copy on the server side ends up as our X selection, unless a later
\* copy supersedes it: the format list leads, through the timestamp
\* PropertyNotify, to XSetSelectionOwner.
ServerCopyPropagates ==
  \A v \in 1..MaxCopies :
    srv.clip = [src |-> "server", ver |-> v] ~> ((sel.owner = "us" /\ sel.ver >= v) \/ copies > v)

\* Every paste request of the local application to us is eventually
\* answered with a SelectionNotify (ICCCM), including those that
\* xf_cliprdr_process_selection_request delays until the server answers.
PasteAnswered ==
  \A p \in Pastes : paste[p].st = "waiting" ~> paste[p].st = "answered"

\* A SelectionNotify whose property holds a complete value for the format
\* the server asked for is forwarded to the server by
\* xf_cliprdr_get_requested_data at once.
ValueForwarded ==
  [][ xq # <<>> /\ Head(xq).type = "SelectionNotify"
      /\ Head(xq).target = cb.requestedFormatId
      /\ winProp.type = "data" /\ winProp.ver # NULL
      => Len(c2s') = Len(c2s) + 1 ]_vars

====
