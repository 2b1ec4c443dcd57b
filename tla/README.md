# TLA+ models of the FreeRDP sources in `src/`

This directory holds TLA+ models of the parts of the repository whose
behaviour depends on ordering, interleaving, failures or boundary values,
together with the TLC configurations that check them. `PROJECT.json` lists:

- every component, modelled or not;
- every run and the mutant that each property of a passing run must catch;
- the source lines behind every definition;
- the findings and the hazards.

## The system and how its parts interact

| Part | Source | Role |
|------|--------|------|
| Server peer | `src/libfreerdp/core/peer.c` | Runs the server side of the connection sequence; see below. |
| Static virtual channels | `src/libfreerdp/core/peer.c` | Server application threads open, write and close channels. A write is split into chunks that the client reassembles. |
| RPC gateway secure bind | `src/libfreerdp/core/gateway/rpc_bind.c` | Client side of an RDP connection tunnelled over RPC/HTTP: Bind, Bind-Ack, Alter-Context legs and RPC-Auth-3, driven by an authentication engine. |
| Sign primitive | `src/libfreerdp/primitives/prim_sign.c` | A codec helper. |
| Test server | `src/server/test/tfreerdp.c` | An application of the server peer. Its callbacks run inside `peer_recv_callback`: post-connect and activate when the connection goes ACTIVE, the keyboard and mouse handlers for each input PDU. 's' reactivates the session, 'x' closes it, a mouse move draws an icon in a frame. |
| X11 clipboard | `src/client/X11/xf_cliprdr.c` | Bridges the server's cliprdr channel and the X CLIPBOARD selection: format lists, data requests and responses in both directions, INCR transfers. With FUSE, files the server copies are served as a directory: a FUSE thread answers the kernel's lookups and reads by sending File Contents Requests, which the channel thread matches to their streams. |
| DirectFB client | `src/client/DirectFB/dfreerdp.c` | A client that draws through DirectFB: a main thread waits on a semaphore for one session thread, which loops over select, the server's updates, input events and channel events. It drops frames while busy and follows VT switches. |
| Not modelled yet | Proxy channel filter | See "Not modelled" below. |
| Not modelled | NTLM hashing, the WLog appender, the error tables, headers | See "Not modelled" below. |

**The server peer.** The transport hands the receive callback `peer_recv_callback` one framed PDU at a time. The callback advances `rdp->state` through the connection sequence:

1. INITIAL, NEGO, then the MCS states;
2. security commencement, then secure settings;
3. licensing;
4. capabilities exchange, then finalization;
5. ACTIVE.

Along the way the callback calls the application's callbacks (Logon, LicenseCallback and Capabilities). The application reactivates the session (a desktop resize) or closes it.

**The DirectFB client.** Each update PDU is drawn between `df_begin_paint` and `df_end_paint`, on the session thread. With `--direct-surface` the gdi draws straight into a locked DirectFB surface. Otherwise it draws into its own buffer, and `df_end_paint_inner` copies the invalid region to the screen. A client busy for longer than `BUSY_THRESHOLD` defers frames and input. It paints the deferred frame once a poll of select finds nothing ready.

**The sign primitive.** `primitives_init_sign` chooses between a generic version and an SSSE3 version. The SSSE3 version stores 128-bit vectors at aligned addresses.

## Modules

### `PeerConnection` (with `ConnectionPhases`, `MCPeerConnection`, `MCPeerHostile`)

This models the server peer and a conforming client.

**State:**

- `rdp` holds the fields of `rdpRdp` and `freerdp_peer` that the callback reads and writes:
  - `state` and `AwaitCapabilities`;
  - the selected protocol and the `*Security` flags;
  - `authenticated`, plus counters of Demand Active and Confirm Active PDUs.
- `c2s` and `s2c` are the in-order TCP byte streams, as PDU sequences.
- `srvUp` says whether the peer's main loop still runs.
- `client` is the client's place in the sequence.

**Actions:**

- `ServerReceive` is one whole call of `peer_recv_callback`:
  - `Dispatch` is its `switch`.
  - The recursive operator `PeerRecvCallback` performs its three re-entries, including the ones that pass a NULL stream into licensing and into capabilities exchange.
  - A return of -1 ends the loop.
- `peer_recv_pdu` and `peer_recv_data_pdu` are `PeerRecvPdu` and `PeerRecvDataPdu`.
- The other server actions:
  - `ServerReactivate` and `ServerClose` stand for a generic application, modelled from the spec. Between two callbacks of an ACTIVE session, it resizes the desktop (`Reactivate` is `rdp_server_reactivate`) or calls `client->Close` (`PeerClose` is `freerdp_peer_close`: Deactivate All, then the Ultimatum). tfreerdp, the only application in `src/`, does both from its input handler in any state instead; `TfreeRdp` models that.
  - `ServerTransportEof` is the disconnect.

**Modelled from spec §4.5.** The `rdp_server_accept_*` functions, `rdp_server_reactivate` and the client are not in `src/`. They are modelled from the spec and marked `spec_modelled` in the map.

**Refinement.** `ConnectionPhases` is the abstract promise: phases only move forward, and the single way back is from ACTIVE to CAPABILITIES_EXCHANGE. `PeerConnection` instantiates it with `phase <- rdp.state`, and `PhasesRefined` checks that refinement.

**Application hooks.** The application is a parameter: `InputPdus` are the input PDUs it acts on, `AppContext` its context fields (merged into `rdp`), `OnActivate(c)` what it does when the connection goes ACTIVE and `OnInput(c, s)` its input handler, called from `PeerRecvDataPdu`. `MCPeerConnection` binds an application that does nothing (`NoApp*`); `PeerNext` is the peer and the client without the application's own actions, and `Next` adds `ServerReactivate` and `ServerClose` for the runs without an application.

**Hostile client.** `MCPeerHostile` adds a client that sends a finalization PDU out of turn.

### `TfreeRdp` (with `MCTfreeRdp`)

This composes tfreerdp with `PeerConnection` by binding the hooks (`OnInput <- TfInput`, and so on).

- `TfContext` is the part of `testPeerContext` the handlers read: `activated`, the icon loaded and shown, and `frame_id`.
- `TfOnActivate` runs `tf_peer_post_connect` (which loads the icon, or fails to: `IconLoads`) on the first activation and `tf_peer_activate` on every one. `tf_peer_activate` draws the background (`DrawBackground`): with a codec (`HasCodec`), one frame of Surface Bits between two frame markers.
- `TfInput` is the keyboard and mouse handler. `KeyResize` is 's': `DesktopResize` and `activated = FALSE`. 'x' is `PeerClose`. A mouse move is `DrawIcon`: nothing unless the icon is loaded and the peer activated, else a frame of Surface Bits (erasing the old icon when one is shown) between two frame markers. The RemoteFX/NSCodec encoding is one `SurfaceBits` PDU.
- `TfSpec` runs `PeerNext`: tfreerdp never resizes or closes except from its input handler.
- `ActivatedOnlyWhenActive` says tfreerdp's `activated` flag, which gates drawing, is set only while `rdp->state` is ACTIVE. `UltimatumLast` says nothing follows the Ultimatum.

### `PeerChannels` (with `MCPeerChannels`)

This models the channel API used by several threads.

**Handles.** A handle is the address of a calloc'd `rdpPeerChannel`:

- addresses run over `1..NumAddrs`;
- `pch[a]` is the memory at address `a`, which `free` leaves in place;
- `alive` is the set of allocated addresses.

**Actions:**

- `Open` and `Close` are `freerdp_peer_virtual_channel_open` and `_close`.
- The write is split into two actions:
  - `WriteBegin` is the call itself.
  - `WriteChunk` is one pass of its loop. Each pass either sends a chunk (`rdp_send`) or fails on any of its three failure points.
  - Threads interleave at chunk granularity, which is where the code has no lock.
- `ClientReceive` is the spec's reassembly (§4.1).

**Reference.** `SplitReference` is the spec's chunking. `WritesFollowSplit` compares the chunks that were actually sent against it.

### `RpcBind` (with `MCRpcBind`)

This models the client's secure bind.

**Actions from the code:**

- The gateway binds with NTLM only (`rpc_bind.c` 38 and 154). Its three legs never send an Alter-Context, and its tokens stay far below the fragment limits. The engine is nonetheless left general, so that `TokensInOrder` and `EventuallySettled` cover any number of legs.
- `SendBind` is `rpc_bind_setup` followed by `rpc_send_bind_pdu(TRUE)`.
- `RecvAck` combines `rpc_recv_bind_ack_pdu` and `rpc_bind_state` with the sends they lead to:
  - an Alter-Context through `rpc_send_bind_pdu(FALSE)`;
  - an RPC-Auth-3 through `rpc_send_rpc_auth_3_pdu`.

**Modelled from spec §4.2–4.3.** These parts are outside `src/`:

- the authentication engine (`AuthSteps`), in which each authenticate continues, completes with or without a token, or fails;
- the `rpc_client` driver (`ResponseReceived`, `AfterAckPhase`, `Teardown`);
- the gateway server (`ServerRespond`).

**Data.** The 16-bit header fields keep their width: `UINT16(x) == x % 65536`.

### `PrimSign` (with `MCPrimSign`)

This models `general_sign_16s` and `ssse3_sign_16s` loop by loop, one iteration per step.

- The pointers are byte addresses from bases that the configuration varies.
- A vector operation writes 8 elements at a time.
- The model records:
  - any store outside `0..len-1`;
  - any aligned store to an address that is not 16-byte aligned.
- `Init` is `primitives_init_sign`. Its CPU flags are chosen nondeterministically.

### `Clipboard` (with `MCClipboard`)

This models the X11 client's clipboard redirection, `xf_cliprdr.c`, between an RDP server and one other X application.

**State:**

- `cb` holds the `xfClipboard` fields the handlers read and write: `sync`, `owner`, `serverFormats`, the cached `data` and its format, `respond` (the pending SelectionRequest), `requestedFormatId`, `incr_starts` and `incrData`.
- `s2c` and `c2s` are the cliprdr channel in each direction, as PDU sequences.
- `srv` is the server: its clipboard version, the request it waits on, and `err`, set when a response is unsolicited or stale.
- `sel` is the X server's CLIPBOARD selection (owner, version, last-change time), `xtime` the X server time, `xq` the client's X event queue and `winProp` the `_FREERDP_CLIPRDR` property of the client window.
- `app` and `paste` are the other X application: its own clipboard and its pastes (`Pastes`), each waiting or answered with the version it got.

**Data.** Clipboard contents are abstracted to versions (`1..MaxCopies`); `NULL` is 0. Format names are model values of `Formats`.

**Actions of the client:**

- `ChannelReceive` is one cliprdr callback (`ChannelCallback`): Monitor Ready, Server Format List, Format Data Request and Format Data Response, each with the whole handler, including the `ConvertSelection` or `SetSelectionOwner` call it ends with.
- `XEvent` is `xf_cliprdr_handle_xevent` on the head of `xq`: SelectionNotify, SelectionRequest, PropertyNotify and XFixesSelectionNotify.
- The X server queues a PropertyNotify (NewValue) for every write to our property: the owner's data, INCR and ATOM answers (`Written`), the chunks of an INCR transfer, and our own TARGETS answer to a request of our window. The handler at 1093 consumes these events.

**Actions of the environment:** the server copies, pastes, answers and receives; the X application copies, pastes, answers a conversion with data, with INCR or with a refusal, writes INCR chunks, and may abandon a paste. The X protocol rules are kept: `XSetSelectionOwner` only takes effect when its timestamp is not older than the selection's last change, and an INCR owner writes the next chunk only after the requestor deletes the property.

### `ClipboardFuse` (with `MCClipboardFuse`)

This models the FUSE file streams of `xf_cliprdr.c` (built `WITH_FUSE`), on the three threads that share `stream_list` and `ino_list`: the FUSE session loop, the cliprdr channel thread and the X event thread.

**State:**

- `inos` is `ino_list`; inode `i + 1` stands for descriptor `i`. Each inode has a list index, a directory flag, its parent, its `child_inos` and whether `st_size` is known. `tcopy` and `builds` say which server copy and which build the table came from; an inode's address is `<<builds, i>>`.
- `streams` is `stream_list` and `nextId` is `current_stream_id`.
- `fuse`, `chan` and `x` are the program counters of the three threads inside a handler that lets go of a lock midway.
- `respond` and `cached` stand for `clipboard->respond` and the format of `clipboard->data`.
- `srvLists`, `c2s` and `s2c` are the server's copies and the cliprdr PDUs in flight.
- `known`, `ops` and `replies` are the kernel's side: the inodes it holds, its requests, and every `fuse_reply_*` call in order.

**Data.** A file's content is `<<copy, lindex>>`. A file list is its `nrDescriptors` and its descriptors (directory, parent index, `FD_FILESIZE`).

**Actions:**

- `GenerateList` is `xf_cliprdr_fuse_generate_list`, as an operator: the recursive `BuildFrom` gives every table the loop can leave. That includes any allocation failing before or after the inode is linked to its parent, which runs the error ladder (`OnError`).
- `xf_cliprdr_clear_cached_data` is split at its `ArrayList_Unlock(stream_list)` (line 909). `ClearEntries` frees the data, replies EIO to every stream and resets the id. `ClearLists` is the two `ArrayList_Clear` calls.
- The FUSE thread runs `FuseLookup` and `FuseRead` up to the unlock of `ino_list`, then `FuseAddStream` under the `stream_list` lock, then `FuseSend`.
- The channel thread runs `ChanFormatList` and `ChanDataResponse` up to the unlock in the clear, and then `ChanClearDone` for the rest of the callback, including `generate_list` for a file list. It also runs `ChanContentsResponse`.
- The X thread runs `XPaste`, a selection request the cache cannot answer, up to the unlock in the clear. `XPasteDone` is the rest.
- The server (`ServerReceive`, `ServerCopy`) is modelled from MS-RDPECLIP. It answers a File Contents Request from its current copy.

### `DfreeRdp` (with `MCDfreeRdp`)

This models `dfreerdp.c`: `main`, `thread_func` and `dfreerdp_run` with the painting callbacks.

**State:**

- `pc` is where the session thread is. `mainPc`, `threads` and `sem` are `main`, `g_thread_count` and `g_sem`.
- `ctx` holds the three timestamps of `dfContext` as ages. The code compares only `now - ts` with the three intervals, so an age stops growing at `AgeCap`, past every interval. `NoTs` is a timestamp of 0.
- `dfi` is `primary_locks`, `primary_data` (`dataSurf`), the secondary surface and the VT state. `fbLocks` counts the DirectFB locks on each surface.
- Pixels are versions. `surf[s][r]` is the update that surface `s` shows in region `r`, and `drawn[r]` is the update last drawn into `r`. `bgDrawn` records the regions last drawn while the client was in the background.

**Actions:**

- Each client step works on a record `Ctx` of what it changes. The step's operators (`BeginPaint`, `Draw`, `EndPaint`, `LockFb`, `UnlockFb`, `EventsCommit`) transform the record, and `Commit` makes it the next state.
- `RdpUpdate` is one update PDU: `EndPaint(Draw(BeginPaint(...)))`.
- `Top`, `Select` and `Input` are the three parts of a turn of the loop: the input deferral, select with the idle repaint, and the input and channel events.
- `Connect` covers `freerdp_connect`, which fails before or after the surface setup. With a direct surface, a failing `GetSize` leaves the INIT lock held.
- `ThreadExit`, `MainCheck` and `MainWait` are the semaphore handshake.
- The wall clock is `Tick` and `ClockStepBack`. `ClockStepBack` sets the clock back by 1..`ClockBack` (an administrator or NTP), up to `MaxClockSteps` times, which puts stored timestamps ahead of `now`. `Elapsed` reads such a timestamp as the code's unsigned `now - ts` does: a wrapped, huge age, past every interval.
- The environment is `ServerUpdate`, `ServerClose`, `UserInput`, `VtSwitch`, `Tick` and `ClockStepBack`. Each event is taken just before the client step that reads it. An event at any other point is seen the same way at that step.

## Runs

| Run | Expect | What it shows |
|-----|--------|---------------|
| peer_conforming | pass | tfreerdp (`MCTfreeRdp`) over the peer connection, with the default `freerdp_peer_nolicense` callback and 2 MCS channels; the client presses 's' and 'x' once each and moves the mouse twice:<br>• one Demand Active per capabilities exchange (`ActiveImpliesHandshake`);<br>• no callback failure except on Shutdown, including input in flight during a reactivation and frames drawn by tfreerdp (`NoSpuriousTeardown`);<br>• tfreerdp's `activated` flag is set only while ACTIVE (`ActivatedOnlyWhenActive`);<br>• ACTIVE is reached (`EventuallyActive`), and a reactivation ends ACTIVE again (`ReactivationCompletes`);<br>• `rdp->state` refines `ConnectionPhases` (`PhasesRefined`). |
| peer_app_licensing | pass | An application license callback that answers IN_PROGRESS up to twice, completes, aborts or fails, together with a Capabilities callback that may refuse. |
| channels_failing | pass | Two threads on their own channels, chunk size 2, lengths 0–3, with allocations and sends failing in the middle of a write:<br>• writes are split as the spec says (`WritesFollowSplit`);<br>• no message mixes two writes (`MessagesIntact`);<br>• the client sees a sequence error only after a write failed past its FIRST chunk (`SequenceErrorOnlyAfterPartialWrite`);<br>• no handle is used after it is freed (`NoUseAfterFree`);<br>• every write that returned 1 is delivered (`WritesDelivered`). |
| channels_shared_close | violation | Two openers share one handle; a close frees it under the other opener (finding 3). |
| rpc_bind_legs | pass | Up to three legs, every gateway-auth result, failing sends:<br>• tokens are sent in order (`TokensInOrder`);<br>• the bind settles (`EventuallySettled`). |
| clipboard_flows | pass | Two copies and one server paste, with failing servers and abandoned pastes:<br>• a paste answered with data never gets data older than the server copy the client owned the selection for (`PasteDataFresh`);<br>• the server never receives an unsolicited or stale response (`ServerDataConsistent`);<br>• every server copy is eventually owned by the client in X, or superseded (`ServerCopyPropagates`). |
| clipboard_server_answered | pass | Copies and pastes on both sides, no failing server and no abandoned transfer. Every Format Data Request of the server is answered (`ServerRequestAnswered`). This includes a TARGETS answer that overwrites the end of an INCR transfer in the shared property: the PropertyNotify of that write finds the property deleted and finishes the transfer. |
| clipboard_incr_abandoned | violation | The owner answers a server paste with INCR and exits mid-transfer. `incr_starts` is never reset, and the server's request is never answered (`ServerRequestAnswered`, finding 1). |
| clipboard_fuse | pass | The file lists are flat, nested, child-before-parent and miscounted. Every allocation of `generate_list` may fail. They run against FUSE lookups and reads, two server copies and two local pastes. The inode table the FUSE thread serves is always empty or the whole tree of its list (`InodeTableWellFormed`). |
| clipboard_fuse_lost_request | violation | The FUSE thread adds a stream between the unlock and the `ArrayList_Clear` of the channel thread's `clear_cached_data`. The stream is freed without a reply, and the kernel request never returns (`EveryRequestReplied`, finding 2). |
| dfreerdp_loop | pass | The buffered client with VT switches and the direct-surface client, two updates, one input event, two VT switches, the clock set back twice by up to 2:<br>• DirectFB holds a lock on exactly the surface `primary_data` points into, while the lock mask is not empty (`LocksBalanced`);<br>• when the client waits in select without a timeout, the screen shows every update drawn in the foreground, deferred frames included (`ScreenCurrentWhenIdle`);<br>• deferred input reaches the server (`InputDelivered`);<br>• `main` exits after the thread (`MainExits`). |
| prim_sign_all | pass | Both versions, with lengths 0–80 at every loop threshold and nine destination alignments. The signs are correct and the aligned stores are aligned. |

**Extra reproductions.** Twelve configurations are not among the runs, which are capped at twelve.

- `ChannelsOwned.cfg` is `channels_failing` without failures, where `NoSequenceError` holds.
- `DfreeRdpVtLock.cfg` runs the client with `--direct-surface --direct-fullscreen`. It shows `LocksBalanced` violated:
  1. An update that draws nothing keeps the PAINT lock on the primary, because `df_end_paint` returns early at lines 288–289.
  2. The user switches VT.
  3. The next `df_begin_paint` creates the secondary under that lock, and `df_lock_fb` does not relock.
  4. `df_end_paint_inner` unlocks the secondary, which was never locked, so the primary stays locked.
  5. In the background, the gdi keeps drawing into the primary.
- `RpcLengthWrap.cfg` (`AuthWithinFrag`, a 65500-byte token wrapping `frag_length` to 88) and `RpcFragLimit.cfg` (`FragWithinNegotiated`, an Alter-Context above `max_xmit_frag`) need tokens that NTLM, the only package the gateway binds with, never produces. They show what `rpc_send_bind_pdu` would do with another package; this code cannot reach either.
- `ClipboardPasteUnanswered.cfg` shows that a server response with empty data drops `respond` without a SelectionNotify, so the X application's paste is never answered (`PasteAnswered`).
- `TfreeRdpResizeTwice.cfg` (module `MCTfreeRdp`) lets the user press 's' twice. tfreerdp's handler calls `DesktopResize` in any state, so the second press, read during CAPABILITIES_EXCHANGE, sends a second Deactivate All and Demand Active. The server goes ACTIVE on the answer to the first, with one Demand Active unconfirmed (`ActiveImpliesHandshake`).
- `TfreeRdpCloseDraw.cfg` (module `MCTfreeRdp`) has a mouse move in flight when 'x' is pressed. `freerdp_peer_close` sends the Ultimatum but tfreerdp leaves `activated` set, so `test_peer_draw_icon` sends a frame after the Ultimatum (`UltimatumLast`).

- `PeerHostile.cfg` (module `MCPeerHostile`) shows that a Font List sent before Confirm Active reaches ACTIVE unconfirmed (`ActiveImpliesHandshake`). `peer_recv_data_pdu` dispatches it in any state, while the spec says each state rejects other phases' PDUs. The accept function is outside `src`, so this depends on the spec-modelled part.
- `ChannelsPartialWrite.cfg` shows that a write failing after its FIRST chunk makes the next write's FIRST a sequence error (`NoSequenceError`). The spec says a write is never partially flushed.
- The FUSE streams (module `MCClipboardFuse`, with the same bounds as `clipboard_fuse`) have three more defects:
  - `ClipboardFuseStaleRead.cfg` (`ReadGetsItsFile`): a read resolved before a server copy registers its stream after the clear. The request carries only the list index, with no clipDataId, so the read is answered with the new copy's file.
  - `ClipboardFuseDoubleReply.cfg` (`RepliedOnce`): the X thread (line 1023) and the channel thread both run `clear_cached_data`, and both reply EIO to the same stream before either clears the list.
  - `ClipboardFuseFreedInode.cfg` (`NoUseAfterFree`): a lookup keeps `child_node` in `req_data` (line 2437, "child_node is not guaranteed to be valid"). A clear frees it, and the SIZE response writes `st_size` through it.

**Mutants.** Every property of a passing run has a mutant in `PROJECT.json`. The mutant replaces one mapped definition with a plausible bug: a dropped flag, a missing re-entry, a missing swap, an off-by-one in the chunk size, a length not reduced, or alignment to 8 instead of 16. TLC finds the property violated under the run's own configuration.

## Bounds and why they are enough

**Connection:**

- With 1–2 channels, the channel-join loop both repeats and ends.
- With one reactivation and up to three inputs ('s', and mouse moves around it), input can be in flight when Deactivate All is sent, and a mouse move can be read before, during and after the reactivation.
- 's' is pressed at most once in the passing run: a second press breaks the handshake (see the extra reproductions).
- Two license legs exercise both the IN_PROGRESS loop and the leg after it.

**Channels:**

- The chunk size is 2 and lengths are 0–3. That covers an empty write, a short write, a write of exactly one chunk (the LAST boundary), and a write that needs two chunks.
- Two threads and two addresses are enough for address reuse after a free.
- Three writes per run let both threads interleave, with one thread writing twice.

**RPC:**

- Three legs cover the paths of one and two round trips, both with and without a final token.
- The passing run uses tokens of 32 and 600 bytes, the sizes of NTLM messages. Only the extra reproductions use lengths past the 4088 fragment limit and the 16-bit limit.

**Clipboard:**

- One format and two copies: a second copy can overtake the first one's format list or data.
- One server paste and two X pastes: a server request and an X request can be in flight at once.
- One INCR chunk: the transfer has a start, a chunk and the zero-length end.
- Larger bounds (three copies, two server pastes) do not finish in the time a run has.

**Clipboard FUSE:**

- There are four file lists:
  - a flat one, whose first file lacks `FD_FILESIZE`, so a lookup needs a stream;
  - a directory with a file in it;
  - the file before its directory (the code assumes the opposite order);
  - one whose `nrDescriptors` does not match.
- Allocation failure is on, so every rung of the error ladder is reached.
- Two server copies and two pastes let a copy and a rebuild happen between a lookup and its response.
- Three FUSE requests allow a lookup, a read of the inode it returned, and one more request racing a clear.
- With three stream ids, an id can be reused after the reset to 0.
- `CHECK_DEADLOCK FALSE`: once the bounds are spent, every thread waits for input, as the real client does when idle.

**DirectFB:**

- Two updates are the fewest that defer a frame: the first sets `busy_ts`, and once its age passes `BusyThreshold` the second is deferred and painted only by the idle select. Three updates do not finish in the time a run has once the clock can go back.
- The clock goes back twice, by 1 or 2: a timestamp can end up ahead of `now` at each comparison, and an age can be set back below an interval after it had passed it.
- Each update draws nothing (which keeps the PAINT lock) or one of two regions.
- `BusyThreshold` 2, `FramedropInterval` 1 and `InputDeferInterval` 2 keep the three comparisons apart. The ages run to 3.
- Two VT switches take the client into the background and back.
- The modes are buffered fullscreen (which watches the VT) and direct non-fullscreen. A client with `--direct-fullscreen` that finds no VT behaves like one without it.

**PrimSign:**

- The lengths straddle 16 (the cut-off for the generic path), 32 (one 32-element block) and 8 (one 8-element block).
- The destination alignments include odd addresses and every even offset within 16 bytes.

## Fairness

**Connection model.** Weak fairness applies to:

- `ServerReceive`: the peer's main loop runs the callback whenever the socket has data;
- the client's reaction to received PDUs;
- the connect action;
- the socket-close actions.

The user's input, logoff and resize are not fair, and neither is the application's close: nothing forces them. tfreerdp adds no fairness: its handlers run inside the fair `ServerReceive`.

**Channels model.** `WriteChunk` is weakly fair, because a started write loop runs to its end. The client reader is also weakly fair.

**RPC model.** Three actions are weakly fair:

- the connect path's bind;
- the gateway's answers;
- the client's processing of a response.

Teardown is the caller's choice.

**Clipboard model.** Weak fairness applies to the client's channel thread and X event loop (`ChannelReceive`, `XEvent`), the server's reception, and the X application answering a conversion and writing INCR chunks: each of these runs whenever its input is there. Copies, pastes and abandoning are user actions and are not fair.

**Clipboard FUSE model.** Weak fairness applies to the rest of a started handler (`FuseAddStream`, `FuseSend`, `ChanClearDone`, `XPasteDone`), to the channel thread handling every PDU, and to the server answering every request. Each of these is a thread that blocks only on its own input. The kernel's requests, copies and pastes are not fair.

**DirectFB model.** The session thread and `main` are each weakly fair. Each is one sequential thread, so at most one of its steps is enabled at a time. The server, the user and the clock (ticking or stepping back) owe nothing. In particular, `InputDelivered` holds without time passing: a busy client stops being busy at the next poll that finds nothing ready.

**PrimSign.** `WF_vars(Next)` holds because the function runs to completion.

## Not modelled, and the plan for later sittings

**Planned:**

- **X11 clipboard, the rest.**
  - The raw-transfer path between two FreeRDP clients is not modelled.
  - Allocation failures in the INCR append and in the format list callback are not modelled.
  - In `Clipboard`, each handler runs atomically; only `ClipboardFuse` splits the handlers that share the lists.
  - The FUSE handlers `getattr`, `open` and `opendir` only read the inode table.
  - `readdir`'s paging is not modelled: it passes the entry's own index as the next offset, so a continued listing repeats an entry.
  - In `generate_list`, the mismatch branch (around line 1638) unlocks `ino_list` without holding it. A WinPR mutex unlocked by a thread that does not own it has no outcome the model could pick from, so this is left as a hazard in the text only.
  - The calloc failures of the FUSE handlers, which reply ENOMEM, are not modelled.
- **tfreerdp, the rest.** The debug-channel thread (which would feed the channel model), audio input, the 'c' and 'r' keys and the listener.
- **Proxy channel filter (`pf_channels.c`).** Its connect and disconnect handlers hand channels to plugins and set up the gdi and gfx. A model needs a plugin and a server side that this project does not yet have.
- **DirectFB client, the rest.**
  - `df_pre_connect`, the certificate callback and the argument parsing only fill settings.
  - `df_event.c` (the input events and `df_events_commit`) is not in the repository; `EventsCommit` is modelled from what the loop relies on.

**Out of scope:**

- The NTLM hashing utilities are cryptographic computations.
- WLog's `DataMessage` and the error tables are I/O and constant lookups.
- The headers declare only, so they have no operations to model.
