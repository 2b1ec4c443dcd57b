------------------------------ MODULE TfreeRdp ------------------------------
(***************************************************************************)
(* The test server application src/server/test/tfreerdp.c running on the  *)
(* peer of PeerConnection.  Its callbacks run inside peer_recv_callback:   *)
(* PostConnect and Activate when the Font List takes the server to ACTIVE, *)
(* and the input callbacks when input_recv dispatches an input PDU, in     *)
(* whatever state the peer hands it to peer_recv_pdu.  testPeerContext     *)
(* extends the peer context, so its fields are fields of rdp here.         *)
(*                                                                         *)
(* The user's input is a mouse move (the icon is drawn at the pointer),    *)
(* the 's' key (desktop resize: the session is reactivated) and the 'x'    *)
(* key (freerdp_peer_close).  Graphics are a frame: a begin marker, the     *)
(* background over the icon's old position, the icon, an end marker.       *)
(* The pixel data, the codecs, the rdpdbg channel thread ('c'), the audio   *)
(* input channel ('r') and the pcap replay mode are left out.              *)
(***************************************************************************)
EXTENDS PeerConnection

CONSTANTS
  HasCodec,   \* settings->rfx_codec or settings->ns_codec
  IconLoads   \* test_peer_load_icon finds a codec and test_icon.ppm

ASSUME HasCodec \in BOOLEAN /\ IconLoads \in BOOLEAN /\ (IconLoads => HasCodec)

TfInputPdus == {"Mouse", "KeyS", "KeyX"}

\* test_peer_context_new: icon_x = -1 (no icon shown yet), frame_id 0,
\* icon_width 0 and activated FALSE from the calloc; client->connected.
TfContext == [connected |-> FALSE, iconLoaded |-> FALSE, iconShown |-> FALSE,
              activated |-> FALSE, frame_id |-> 0]

\* tf_peer_post_connect: loads the icon; opening rdpdbg and audin is left out.
TfPostConnect(c) == [c EXCEPT !.iconLoaded = IconLoads]

\* test_peer_begin_frame / test_peer_end_frame: frame markers; the end one
\* increments frame_id.
BeginFrame(c) == Send(c, "FrameMarker")
EndFrame(c) == [Send(c, "FrameMarker") EXCEPT !.frame_id = @ + 1]

\* test_peer_draw_background: with a codec, one frame that fills the
\* desktop.
DrawBackground(c) ==
  IF ~HasCodec THEN c ELSE EndFrame(Send(BeginFrame(c), "SurfaceBits"))

\* tf_peer_activate: resets the RemoteFX context, marks the peer activated
\* and draws the background (the pcap replay is left out).
TfActivate(c) == DrawBackground([c EXCEPT !.activated = TRUE])

\* The server's transition to ACTIVE: PostConnect the first time (it
\* returns TRUE), then Activate.
TfOnActivate(c) ==
  TfActivate(IF c.connected THEN c
             ELSE [TfPostConnect(c) EXCEPT !.connected = TRUE])

\* A mutant of DrawIcon: the activated check is dropped.
DrawIconUnchecked(c) ==
  IF ~c.iconLoaded THEN c
  ELSE LET b == BeginFrame(c)
           e == IF c.iconShown THEN Send(b, "SurfaceBits") ELSE b
       IN EndFrame([Send(e, "SurfaceBits") EXCEPT !.iconShown = TRUE])

\* test_peer_draw_icon: nothing without an icon or before activation;
\* otherwise one frame erasing the icon at its old position (once it was
\* shown) and drawing it at the new one.
DrawIcon(c) ==
  IF ~c.iconLoaded \/ ~c.activated THEN c
  ELSE LET b == BeginFrame(c)
           e == IF c.iconShown THEN Send(b, "SurfaceBits") ELSE b
       IN EndFrame([Send(e, "SurfaceBits") EXCEPT !.iconShown = TRUE])

\* A mutant of KeyResize: activated is left set.
KeyResizeKeepsActivated(c) == Reactivate(c)

\* tf_peer_keyboard_event, 's': DesktopResize, then activated = false.
KeyResize(c) == [Reactivate(c) EXCEPT !.activated = FALSE]

\* The input callbacks: tf_peer_mouse_event and tf_peer_keyboard_event.
TfInput(c, s) ==
  CASE s = "Mouse" -> DrawIcon(c)
    [] s = "KeyS"  -> KeyResize(c)
    [] s = "KeyX"  -> PeerClose(c)      \* client->Close

TfSpec == Init /\ [][PeerNext]_vars /\ Fairness

(***************************************************************************)
(* Properties                                                              *)
(***************************************************************************)

\* tfreerdp's activated flag, which gates every frame it draws, is set only
\* while the session is ACTIVE: the 's' key clears it in the same callback
\* that starts the reactivation, so mouse input still in flight finds it
\* clear, and Activate sets it again only when the Font List ends the new
\* exchange.
ActivatedOnlyWhenActive == rdp.activated => rdp.state = "ACTIVE"

\* freerdp_peer_close ends what the server sends with the Disconnect
\* Provider Ultimatum (MS-RDPBCGR 1.3.1.4.2, quoted at peer.c:812-814):
\* nothing follows it on the connection, not even a frame tfreerdp draws
\* for input the client sent before it saw the close.
UltimatumLast == \A i \in 1..Len(s2c) - 1 : s2c[i] # "Ultimatum"
=============================================================================
