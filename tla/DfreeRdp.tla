------------------------------ MODULE DfreeRdp ------------------------------
(***************************************************************************)
(* The DirectFB client (src/client/DirectFB/dfreerdp.c).                   *)
(*                                                                         *)
(* main starts one thread that runs dfreerdp_run and waits on a semaphore  *)
(* for it.  dfreerdp_run connects, then loops: it decides whether to       *)
(* commit deferred input, waits in select (without a timeout unless the    *)
(* client is busy), lets the core process the server's update PDUs (each  *)
(* one wrapped in df_begin_paint / df_end_paint), reads input events from  *)
(* the DirectFB event buffer and pops one channel event.                   *)
(*                                                                         *)
(* Painting drops frames while the client is busy: busy_ts, endpaint_      *)
(* defer_ts and input_defer_ts are timestamps from get_ticks, 0 meaning    *)
(* unset.  The code only compares now - ts with the three intervals, so a  *)
(* timestamp is kept as its age, which stops growing past all of them.    *)
(* With --direct-surface the gdi draws straight into a locked DirectFB   *)
(* surface; with --direct-fullscreen the client watches its VT and, in    *)
(* the background, moves drawing to an off-screen secondary.              *)
(*                                                                         *)
(* Pixels are abstracted to versions: update u draws a set of screen       *)
(* regions, and a surface holds, per region, the update last drawn there.  *)
(* The DirectFB library, the RDP core and the gdi are not in this          *)
(* repository; they are modelled by what dfreerdp.c relies on.            *)
(***************************************************************************)
EXTENDS Integers, Sequences, FiniteSets

CONSTANTS
  Modes,              \* possible [directSurface, directFullscreen] options
  Regions,            \* screen regions an update may invalidate
  UpdateRegions,      \* the sets of regions one update may draw
  MaxUpdates,         \* update PDUs the server sends
  MaxInputs,          \* input events the user makes
  MaxVtSwitches,      \* VT switches the user makes
  BusyThreshold,      \* BUSY_THRESHOLD (500 ms)
  FramedropInterval,  \* BUSY_FRAMEDROP_INTERVAL (150 ms)
  InputDeferInterval, \* BUSY_INPUT_DEFER_INTERVAL (500 ms)
  MaxClockSteps,      \* times the wall clock is set back
  ClockBack           \* how far ahead of the clock a timestamp may end up

ASSUME UpdateRegions \subseteq SUBSET Regions
ASSUME Modes \subseteq [directSurface : BOOLEAN, directFullscreen : BOOLEAN]
ASSUME {MaxUpdates, MaxInputs, MaxVtSwitches, BusyThreshold,
        FramedropInterval, InputDeferInterval, MaxClockSteps} \subseteq Nat
ASSUME ClockBack \in Nat \ {0}

Surfaces == {"primary", "secondary"}
NoSurface == "none"                \* primary_data of 0
Vers == 0..MaxUpdates
NoTs == -(ClockBack + 1)           \* a timestamp of 0: unset
\* The age past which every comparison of the code gives the same answer.
AgeCap == LET m == IF FramedropInterval > InputDeferInterval
                   THEN FramedropInterval ELSE InputDeferInterval
          IN IF BusyThreshold + 1 > m THEN BusyThreshold + 1 ELSE m
\* A negative age is a timestamp taken before the clock was set back,
\* so later than now.
Ages == -ClockBack..AgeCap

\* now - ts in uint64: a timestamp later than now wraps to a difference
\* larger than every interval the code compares it with.
Elapsed(ts) == IF ts < 0 THEN AgeCap ELSE ts
LoopPcs == {"top", "select", "rdp", "input"}

VARIABLES
  opts,      \* the dfContext options parsed by main
  pc,        \* where the dfreerdp_run thread is
  mainPc,    \* where main is: checking g_thread_count or in sem_wait
  threads,   \* g_thread_count
  sem,       \* the value of g_sem
  ctx,       \* dfContext: the ages of busy_ts, endpaint_defer_ts, input_defer_ts
  dfi,       \* dfInfo: lock mask, primary_data, secondary, tty state
  gdi,       \* the gdi: its buffer and its invalid region
  surf,      \* surf[s][r]: the update shown by surface s in region r
  fbLocks,   \* fbLocks[s]: locks DirectFB holds on surface s
  drawn,     \* drawn[r]: the update last drawn into region r
  bgDrawn,   \* regions last drawn while the client was in the background
  s2c,       \* PDUs the server sent and the core has not processed
  sent,      \* update PDUs sent so far
  srvClosed, \* the server closed the connection
  devQ,      \* input events waiting in the DirectFB event buffer
  typed,     \* input events made so far
  inSet,     \* FD_ISSET(read_fds) in the set select returned
  inBuf,     \* input read by df_event_process and not committed
  committed, \* input committed to the server
  activeTty, \* the active VT: the client's own one or another
  vtSwitches,
  clockSteps, \* times the clock was set back
  chanEv,    \* events the channel manager queued for the client
  formatLists \* cliprdr format lists sent by the client

vars == <<opts, pc, mainPc, threads, sem, ctx, dfi, gdi, surf, fbLocks, drawn, bgDrawn,
          s2c, sent, srvClosed, devQ, typed, inSet, inBuf, committed, activeTty,
          vtSwitches, clockSteps, chanEv, formatLists>>

(***************************************************************************)
(* The client's steps work on a context x of the state a handler changes;  *)
(* Commit makes it the next state.                                         *)
(***************************************************************************)
Ctx == [ctx |-> ctx, dfi |-> dfi, gdi |-> gdi, surf |-> surf,
        fbLocks |-> fbLocks, drawn |-> drawn, bgDrawn |-> bgDrawn, inBuf |-> inBuf,
        committed |-> committed]

Commit(x) ==
  /\ ctx' = x.ctx /\ dfi' = x.dfi /\ gdi' = x.gdi /\ surf' = x.surf
  /\ fbLocks' = x.fbLocks /\ drawn' = x.drawn /\ bgDrawn' = x.bgDrawn
  /\ inBuf' = x.inBuf
  /\ committed' = x.committed

\* The surface df_lock_fb and df_unlock_fb act on.
FbSurface(x) == IF x.dfi.secondary THEN "secondary" ELSE "primary"

\* df_lock_fb: the first lock of the mask locks the surface.
LockFb(x, mask) ==
  LET s == FbSurface(x)
      first == x.dfi.primary_locks = {}
  IN [x EXCEPT !.fbLocks = IF first THEN [@ EXCEPT ![s] = @ + 1] ELSE @,
               !.dfi.dataSurf = IF first THEN s ELSE @,
               !.dfi.primary_locks = @ \cup {mask}]

\* Mutant: the last unlock forgets to unlock the surface.
UnlockFbNoUnlock(x, mask) ==
  LET y == [x EXCEPT !.dfi.primary_locks = @ \ {mask}]
  IN IF mask \notin x.dfi.primary_locks THEN x
     ELSE IF y.dfi.primary_locks # {} THEN y
     ELSE [y EXCEPT !.dfi.dataSurf = NoSurface]

\* df_unlock_fb: a mask that is not held is refused; the last unlock
\* clears primary_data and unlocks the surface.
UnlockFb(x, mask) ==
  LET s == FbSurface(x)
      y == [x EXCEPT !.dfi.primary_locks = @ \ {mask}]
  IN IF mask \notin x.dfi.primary_locks THEN x
     ELSE IF y.dfi.primary_locks # {} THEN y
     ELSE [y EXCEPT !.dfi.dataSurf = NoSurface,
                    !.fbLocks[s] = IF @ > 0 THEN @ - 1 ELSE 0]

\* Blit(dst, src, rect) of each region in rs.
Blit(x, dst, src, rs) ==
  [x EXCEPT !.surf[dst] = [r \in Regions |-> IF r \in rs THEN x.surf[src][r] ELSE @[r]]]

(***************************************************************************)
(* Painting                                                                *)
(***************************************************************************)

\* Back to our VT: with a direct fullscreen surface, the regions of the
\* last frame are copied from the secondary, which is then released.
Foreground(x) ==
  LET y == [x EXCEPT !.dfi.tty_background = FALSE]
  IN IF y.dfi.secondary /\ opts.directFullscreen /\ opts.directSurface
     THEN [Blit(y, "primary", "secondary", y.gdi.cinv)
             EXCEPT !.dfi.secondary = FALSE, !.fbLocks.secondary = 0]
     ELSE y

\* Another VT is active: with a direct fullscreen surface, a secondary
\* surface is created with a copy of the screen.
Background(x) ==
  LET y == [x EXCEPT !.dfi.tty_background = TRUE]
  IN IF opts.directFullscreen /\ opts.directSurface
     THEN [Blit(y, "secondary", "primary", Regions)
             EXCEPT !.dfi.secondary = TRUE, !.fbLocks.secondary = 0]
     ELSE y

\* The VT check at the start of df_begin_paint (the usleep of a client
\* still in the background leaves the state alone).
TtySwitch(x) ==
  CASE ~x.dfi.tty_fd -> x
    [] x.dfi.tty_background /\ activeTty = "mine" -> Foreground(x)
    [] ~x.dfi.tty_background /\ activeTty # "mine" -> Background(x)
    [] OTHER -> x

\* df_begin_paint: nothing while a frame is deferred; otherwise the VT
\* check, the PAINT lock and the gdi buffer (direct surface), and an empty
\* invalid region.  A failed lock aborts; DirectFB locks do not fail here.
BeginPaint(x) ==
  IF x.ctx.endpaint_defer_ts # NoTs THEN x
  ELSE LET y == TtySwitch(x)
           z == IF opts.directSurface
                THEN LET l == LockFb(y, "PAINT") IN [l EXCEPT !.gdi.buf = l.dfi.dataSurf]
                ELSE y
       IN [z EXCEPT !.gdi.null = TRUE, !.gdi.cinv = {}]

\* The core's decoding of update u into the gdi buffer: the regions rs are
\* drawn and invalidated.
Draw(x, u, rs) ==
  [x EXCEPT !.surf[x.gdi.buf] = [r \in Regions |-> IF r \in rs THEN u ELSE @[r]],
            !.drawn = [r \in Regions |-> IF r \in rs THEN u ELSE @[r]],
            !.bgDrawn = IF x.dfi.tty_background THEN @ \cup rs ELSE @ \ rs,
            !.gdi.null = @ /\ rs = {},
            !.gdi.cinv = @ \cup rs]

\* df_end_paint_inner: a direct surface is unlocked (its Flip shows what is
\* already on the primary); otherwise the invalid regions are copied from
\* the gdi buffer to the screen.  In the background it returns before the
\* invalid region is emptied.
EndPaintInner(x) ==
  IF opts.directSurface
  THEN LET y == UnlockFb(x, "PAINT")
       IN IF y.dfi.tty_background THEN y ELSE [y EXCEPT !.gdi.cinv = {}]
  ELSE CASE x.gdi.null -> [x EXCEPT !.gdi.cinv = {}]
         [] x.dfi.tty_background -> x
         [] OTHER -> [Blit(x, "primary", "secondary", x.gdi.cinv) EXCEPT !.gdi.cinv = {}]

\* df_end_paint: a deferred frame waits out the frame-drop
\* interval; a client busy for longer than the threshold defers the frame;
\* the first non-empty frame of a busy period starts it.
EndPaint(x) ==
  CASE x.ctx.endpaint_defer_ts # NoTs ->
         IF Elapsed(x.ctx.endpaint_defer_ts) < FramedropInterval THEN x
         ELSE EndPaintInner([x EXCEPT !.ctx.endpaint_defer_ts = NoTs])
    [] x.ctx.busy_ts # NoTs ->
         IF Elapsed(x.ctx.busy_ts) > BusyThreshold
         THEN [x EXCEPT !.ctx.endpaint_defer_ts = 0]
         ELSE EndPaintInner(x)
    [] x.gdi.null -> x
    [] OTHER -> EndPaintInner([x EXCEPT !.ctx.busy_ts = 0])

\* df_events_commit (df_event.c): the input read so far goes to the server.
EventsCommit(x) == [x EXCEPT !.committed = @ + x.inBuf, !.inBuf = 0]

(***************************************************************************)
(* The dfreerdp_run thread                                                 *)
(***************************************************************************)

Init ==
  /\ opts \in Modes
  /\ pc = "connect" /\ mainPc = "check" /\ threads = 1 /\ sem = 1
  /\ ctx = [busy_ts |-> NoTs, endpaint_defer_ts |-> NoTs, input_defer_ts |-> NoTs]
  /\ dfi = [primary_locks |-> {}, dataSurf |-> NoSurface, secondary |-> FALSE,
            tty_fd |-> FALSE, tty_background |-> FALSE]
  /\ gdi = [buf |-> NoSurface, null |-> TRUE, cinv |-> {}]
  /\ surf = [s \in Surfaces |-> [r \in Regions |-> 0]]
  /\ fbLocks = [s \in Surfaces |-> 0]
  /\ drawn = [r \in Regions |-> 0] /\ bgDrawn = {}
  /\ s2c = <<>> /\ sent = 0 /\ srvClosed = FALSE
  /\ devQ = 0 /\ typed = 0 /\ inSet = FALSE /\ inBuf = 0 /\ committed = 0
  /\ activeTty = "mine" /\ vtSwitches = 0 /\ clockSteps = 0
  /\ chanEv = <<"MonitorReady">> /\ formatLists = 0

\* The state only the environment changes.
envVars == <<sent, srvClosed, typed, activeTty, vtSwitches, clockSteps>>

\* df_post_connect with a direct surface: the INIT lock is taken around
\* gdi_init and GetSize, and again around the registration of the paint
\* callbacks; the gdi draws into the primary.
PostConnectDirect(x) ==
  LET a == [LockFb(x, "INIT") EXCEPT !.gdi.buf = "primary"]
  IN UnlockFb(LockFb(UnlockFb(a, "INIT"), "INIT"), "INIT")

\* df_post_connect otherwise: the gdi draws into its own buffer, which
\* the secondary surface wraps.
PostConnectBuffered(x) ==
  [x EXCEPT !.dfi.secondary = TRUE, !.gdi.buf = "secondary"]

\* freerdp_connect, with df_pre_connect and df_post_connect.  It fails
\* before or after the DirectFB setup; a direct surface whose GetSize fails
\* returns with the INIT lock held.  A VT is found when one of /dev/tty0..11
\* opens and answers VT_GETSTATE.
Connect ==
  /\ pc = "connect"
  /\ \/ /\ pc' = "done"
        /\ UNCHANGED <<ctx, dfi, gdi, surf, fbLocks, drawn, bgDrawn, inBuf, committed>>
     \/ /\ opts.directSurface
        /\ pc' = "done"
        /\ Commit(LockFb(Ctx, "INIT"))
     \/ /\ pc' = "top"
        /\ \E tty \in BOOLEAN :
             LET x == [Ctx EXCEPT !.dfi.tty_fd = opts.directFullscreen /\ tty]
             IN Commit(IF opts.directSurface THEN PostConnectDirect(x)
                       ELSE PostConnectBuffered(x))
  /\ UNCHANGED <<opts, mainPc, threads, sem, s2c, devQ, inSet, chanEv, formatLists>>
  /\ UNCHANGED envVars

\* The top of the loop: input deferred while busy is committed when the
\* client is no longer busy, or every InputDeferInterval; input starts to
\* be deferred once a busy client defers a frame.
Top ==
  /\ pc = "top"
  /\ pc' = "select"
  /\ LET x == Ctx
         d == ctx.input_defer_ts
     IN Commit(CASE d # NoTs /\ ctx.busy_ts = NoTs ->
                      [EventsCommit(x) EXCEPT !.ctx.input_defer_ts = NoTs]
                 [] d # NoTs /\ ctx.busy_ts # NoTs /\ Elapsed(d) >= InputDeferInterval ->
                      [EventsCommit(x) EXCEPT !.ctx.input_defer_ts = 0]
                 [] d = NoTs /\ ctx.busy_ts # NoTs /\ ctx.endpaint_defer_ts # NoTs ->
                      [x EXCEPT !.ctx.input_defer_ts = ctx.busy_ts]
                 [] OTHER -> x)
  /\ UNCHANGED <<opts, mainPc, threads, sem, s2c, devQ, inSet, chanEv, formatLists>>
  /\ UNCHANGED envVars

\* A descriptor select reports: server data, input, a channel event.
Ready == s2c # <<>> \/ devQ > 0 \/ chanEv # <<>>

\* Mutant: a poll that finds nothing ready leaves the client busy.
SelectKeepsBusy ==
  /\ pc = "select"
  /\ pc' = "rdp"
  /\ \/ /\ Ready
        /\ inSet' = (devQ > 0)
        /\ UNCHANGED <<ctx, dfi, gdi, surf, fbLocks, drawn, bgDrawn, inBuf, committed>>
     \/ /\ ~Ready /\ ctx.busy_ts # NoTs
        /\ inSet' = FALSE
        /\ Commit(IF ctx.endpaint_defer_ts # NoTs
                  THEN EndPaintInner([Ctx EXCEPT !.ctx.endpaint_defer_ts = NoTs])
                  ELSE Ctx)
  /\ UNCHANGED <<opts, mainPc, threads, sem, s2c, devQ, chanEv, formatLists>>
  /\ UNCHANGED envVars

\* Mutant: the idle poll forgets the deferred frame instead of painting it.
SelectDropsDeferred ==
  /\ pc = "select"
  /\ pc' = "rdp"
  /\ \/ /\ Ready
        /\ inSet' = (devQ > 0)
        /\ UNCHANGED <<ctx, dfi, gdi, surf, fbLocks, drawn, bgDrawn, inBuf, committed>>
     \/ /\ ~Ready /\ ctx.busy_ts # NoTs
        /\ inSet' = FALSE
        /\ Commit([Ctx EXCEPT !.ctx.busy_ts = NoTs, !.ctx.endpaint_defer_ts = NoTs])
  /\ UNCHANGED <<opts, mainPc, threads, sem, s2c, devQ, chanEv, formatLists>>
  /\ UNCHANGED envVars

\* select: without a timeout it waits for a descriptor; a busy client
\* polls, and when nothing is ready it is no longer busy and paints the
\* deferred frame.
Select ==
  /\ pc = "select"
  /\ pc' = "rdp"
  /\ \/ /\ Ready
        /\ inSet' = (devQ > 0)
        /\ UNCHANGED <<ctx, dfi, gdi, surf, fbLocks, drawn, bgDrawn, inBuf, committed>>
     \/ /\ ~Ready /\ ctx.busy_ts # NoTs
        /\ inSet' = FALSE
        /\ LET x == [Ctx EXCEPT !.ctx.busy_ts = NoTs]
           IN Commit(IF ctx.endpaint_defer_ts # NoTs
                     THEN EndPaintInner([x EXCEPT !.ctx.endpaint_defer_ts = NoTs])
                     ELSE x)
  /\ UNCHANGED <<opts, mainPc, threads, sem, s2c, devQ, chanEv, formatLists>>
  /\ UNCHANGED envVars

\* freerdp_check_fds: one update PDU, between df_begin_paint and
\* df_end_paint.  (The painted context is taken as one value, y, so that
\* TLC computes it once where it checks that the step is enabled.)
RdpUpdate ==
  /\ pc = "rdp"
  /\ s2c # <<>> /\ Head(s2c).type = "update"
  /\ s2c' = Tail(s2c)
  /\ LET m == Head(s2c)
     IN \E y \in {EndPaint(Draw(BeginPaint(Ctx), m.u, m.rs))} : Commit(y)
  /\ UNCHANGED <<opts, pc, mainPc, threads, sem, devQ, inSet, chanEv, formatLists>>
  /\ UNCHANGED envVars

\* freerdp_check_fds fails on the closed connection: the loop ends and
\* the session is freed.
RdpClosed ==
  /\ pc = "rdp"
  /\ s2c # <<>> /\ Head(s2c).type = "close"
  /\ s2c' = Tail(s2c)
  /\ pc' = "done"
  /\ UNCHANGED <<opts, mainPc, threads, sem, ctx, dfi, gdi, surf, fbLocks, drawn, bgDrawn,
                 devQ, inSet, inBuf, committed, chanEv, formatLists>>
  /\ UNCHANGED envVars

\* Mutant: the input read is not taken off the device queue.
InputKeepsQueue ==
  /\ pc = "rdp" /\ s2c = <<>>
  /\ pc' = "top"
  /\ LET x == IF inSet THEN [Ctx EXCEPT !.inBuf = @ + devQ] ELSE Ctx
     IN Commit(IF x.ctx.input_defer_ts = NoTs THEN EventsCommit(x) ELSE x)
  /\ chanEv' = IF chanEv = <<>> THEN chanEv ELSE Tail(chanEv)
  /\ formatLists' = IF chanEv # <<>> /\ Head(chanEv) = "MonitorReady"
                    THEN formatLists + 1 ELSE formatLists
  /\ UNCHANGED <<opts, mainPc, threads, sem, s2c, devQ, inSet>>
  /\ UNCHANGED envVars

\* df_check_fds, the commit of input that is not deferred,
\* freerdp_channels_check_fds and df_process_channel_event: the events
\* read are queued; one channel event is popped, and a Monitor Ready is
\* answered with an empty cliprdr format list.
Input ==
  /\ pc = "rdp" /\ s2c = <<>>
  /\ pc' = "top"
  /\ LET x == IF inSet THEN [Ctx EXCEPT !.inBuf = @ + devQ] ELSE Ctx
     IN Commit(IF x.ctx.input_defer_ts = NoTs THEN EventsCommit(x) ELSE x)
  /\ devQ' = IF inSet THEN 0 ELSE devQ
  /\ chanEv' = IF chanEv = <<>> THEN chanEv ELSE Tail(chanEv)
  /\ formatLists' = IF chanEv # <<>> /\ Head(chanEv) = "MonitorReady"
                    THEN formatLists + 1 ELSE formatLists
  /\ UNCHANGED <<opts, mainPc, threads, sem, s2c, inSet>>
  /\ UNCHANGED envVars

\* Mutant: the thread signals only when the count went negative.
ThreadExitNoSignal ==
  /\ pc = "done"
  /\ pc' = "exited"
  /\ threads' = threads - 1
  /\ sem' = IF threads - 1 < 0 THEN sem + 1 ELSE sem
  /\ UNCHANGED <<opts, mainPc, ctx, dfi, gdi, surf, fbLocks, drawn, bgDrawn, s2c, devQ,
                 inSet, inBuf, committed, chanEv, formatLists>>
  /\ UNCHANGED envVars

\* thread_func after dfreerdp_run: the last thread signals main.
ThreadExit ==
  /\ pc = "done"
  /\ pc' = "exited"
  /\ threads' = threads - 1
  /\ sem' = IF threads - 1 < 1 THEN sem + 1 ELSE sem
  /\ UNCHANGED <<opts, mainPc, ctx, dfi, gdi, surf, fbLocks, drawn, bgDrawn, s2c, devQ,
                 inSet, inBuf, committed, chanEv, formatLists>>
  /\ UNCHANGED envVars

(***************************************************************************)
(* main: while (g_thread_count > 0) freerdp_sem_wait(g_sem);               *)
(*                                                                         *)
(* main shares only g_thread_count and g_sem with the thread, which only   *)
(* thread_func's last lines touch; its steps are taken before the thread   *)
(* connects or once its loop has ended, which orders them in every way     *)
(* against thread_func's.                                                  *)
(***************************************************************************)
MainCheck ==
  /\ pc \in {"connect", "done", "exited"}
  /\ mainPc = "check"
  /\ mainPc' = IF threads > 0 THEN "wait" ELSE "exit"
  /\ UNCHANGED <<opts, pc, threads, sem, ctx, dfi, gdi, surf, fbLocks, drawn, bgDrawn, s2c,
                 devQ, inSet, inBuf, committed, chanEv, formatLists>>
  /\ UNCHANGED envVars

MainWait ==
  /\ pc \in {"connect", "done", "exited"}
  /\ mainPc = "wait" /\ sem > 0
  /\ sem' = sem - 1
  /\ mainPc' = "check"
  /\ UNCHANGED <<opts, pc, threads, ctx, dfi, gdi, surf, fbLocks, drawn, bgDrawn, s2c,
                 devQ, inSet, inBuf, committed, chanEv, formatLists>>
  /\ UNCHANGED envVars

(***************************************************************************)
(* The environment: the server, the user, the clock                        *)
(*                                                                         *)
(* The client reads the server's data and the input buffer in select and   *)
(* in the processing after it, the VT in df_begin_paint, and the clock at  *)
(* the top of the loop and in df_end_paint.  An event of the environment   *)
(* is taken just before one of the steps that reads it: one at any other   *)
(* point is seen the same way at the next such step.                       *)
(***************************************************************************)

\* The server sends update sent+1, which invalidates the regions rs (none
\* for an update that draws nothing, such as a pointer update).
ServerUpdate ==
  /\ pc \in {"select", "rdp"}
  /\ ~srvClosed /\ sent < MaxUpdates
  /\ \E rs \in UpdateRegions :
       s2c' = Append(s2c, [type |-> "update", u |-> sent + 1, rs |-> rs])
  /\ sent' = sent + 1
  /\ UNCHANGED <<opts, pc, mainPc, threads, sem, ctx, dfi, gdi, surf, fbLocks, drawn, bgDrawn,
                 srvClosed, devQ, typed, inSet, inBuf, committed, activeTty,
                 vtSwitches, clockSteps, chanEv, formatLists>>

ServerClose ==
  /\ pc \in {"select", "rdp"}
  /\ ~srvClosed
  /\ srvClosed' = TRUE
  /\ s2c' = Append(s2c, [type |-> "close"])
  /\ UNCHANGED <<opts, pc, mainPc, threads, sem, ctx, dfi, gdi, surf, fbLocks, drawn, bgDrawn,
                 sent, devQ, typed, inSet, inBuf, committed, activeTty,
                 vtSwitches, clockSteps, chanEv, formatLists>>

\* A key press or pointer event reaches the DirectFB event buffer.  The
\* input read in the processing is the one select reported, so an event
\* that arrives after select is read in the next turn of the loop.
UserInput ==
  /\ pc = "select"
  /\ typed < MaxInputs
  /\ typed' = typed + 1
  /\ devQ' = devQ + 1
  /\ UNCHANGED <<opts, pc, mainPc, threads, sem, ctx, dfi, gdi, surf, fbLocks, drawn, bgDrawn,
                 s2c, sent, srvClosed, inSet, inBuf, committed, activeTty,
                 vtSwitches, clockSteps, chanEv, formatLists>>

\* The user switches to another VT or back (the client's own VT is the
\* one active when it connected).  Only a client that found its VT reads
\* the active one, so only its switches are taken.
VtSwitch ==
  /\ pc = "rdp" /\ dfi.tty_fd /\ vtSwitches < MaxVtSwitches
  /\ activeTty' = IF activeTty = "mine" THEN "other" ELSE "mine"
  /\ vtSwitches' = vtSwitches + 1
  /\ UNCHANGED <<opts, pc, mainPc, threads, sem, ctx, dfi, gdi, surf, fbLocks, drawn, bgDrawn,
                 s2c, sent, srvClosed, devQ, typed, inSet, inBuf, committed,
                 clockSteps, chanEv, formatLists>>

\* Time passes: every timestamp that is set grows older.  The clock is
\* read at the top of the loop and by df_end_paint, which runs for an
\* update PDU.
Older(ts) == IF ts = NoTs THEN NoTs ELSE IF ts < AgeCap THEN ts + 1 ELSE AgeCap

Tick ==
  /\ \/ pc = "top" /\ ctx.input_defer_ts # NoTs
     \/ pc = "rdp" /\ s2c # <<>> /\ Head(s2c).type = "update"
  /\ ctx' = [f \in DOMAIN ctx |-> Older(ctx[f])]
  /\ UNCHANGED <<opts, pc, mainPc, threads, sem, dfi, gdi, surf, fbLocks, drawn, bgDrawn,
                 s2c, sent, srvClosed, devQ, typed, inSet, inBuf, committed,
                 activeTty, vtSwitches, clockSteps, chanEv, formatLists>>

\* get_ticks reads gettimeofday, the wall clock, which an administrator or
\* NTP may set back by k: every timestamp that is set becomes k younger,
\* possibly later than now.  An age at AgeCap stands for any larger age,
\* so it becomes any age from AgeCap - k on.  Timestamps further ahead
\* than ClockBack are kept at ClockBack.
SetBack(ts, k) ==
  LET y == IF ts - k < -ClockBack THEN -ClockBack ELSE ts - k
  IN CASE ts = NoTs  -> {NoTs}
       [] ts = AgeCap -> y..AgeCap
       [] OTHER      -> {y}

ClockStepBack ==
  /\ \/ pc = "top" /\ ctx.input_defer_ts # NoTs
     \/ pc = "rdp" /\ s2c # <<>> /\ Head(s2c).type = "update"
  /\ clockSteps < MaxClockSteps
  /\ \E f \in DOMAIN ctx : ctx[f] # NoTs     \* else nothing reads it
  /\ clockSteps' = clockSteps + 1
  /\ \E k \in 1..ClockBack :
       ctx' \in [busy_ts : SetBack(ctx.busy_ts, k),
                 endpaint_defer_ts : SetBack(ctx.endpaint_defer_ts, k),
                 input_defer_ts : SetBack(ctx.input_defer_ts, k)]
  /\ UNCHANGED <<opts, pc, mainPc, threads, sem, dfi, gdi, surf, fbLocks, drawn, bgDrawn,
                 s2c, sent, srvClosed, devQ, typed, inSet, inBuf, committed,
                 activeTty, vtSwitches, chanEv, formatLists>>

Client == Connect \/ Top \/ Select \/ RdpUpdate \/ RdpClosed \/ Input \/ ThreadExit
Main == MainCheck \/ MainWait
Env == ServerUpdate \/ ServerClose \/ UserInput \/ VtSwitch \/ Tick \/ ClockStepBack

Next == Client \/ Main \/ Env

\* The client thread and main run whenever they can; the server, the user
\* and the clock owe nothing.  Each is one sequential thread, so at most
\* one of its steps is enabled at a time (pc and s2c pick it), and weak
\* fairness of the thread is weak fairness of each of its steps.
Fairness == WF_vars(Client) /\ WF_vars(Main)

Spec == Init /\ [][Next]_vars /\ Fairness

(***************************************************************************)
(* Properties                                                              *)
(***************************************************************************)

TypeOK ==
  /\ opts \in Modes
  /\ pc \in {"connect", "done", "exited"} \cup LoopPcs
  /\ mainPc \in {"check", "wait", "exit"}
  /\ threads \in 0..1 /\ sem \in 0..2
  /\ ctx \in [busy_ts : {NoTs} \cup Ages, endpaint_defer_ts : {NoTs} \cup Ages,
              input_defer_ts : {NoTs} \cup Ages]
  /\ dfi \in [primary_locks : SUBSET {"INIT", "PAINT"},
              dataSurf : Surfaces \cup {NoSurface}, secondary : BOOLEAN,
              tty_fd : BOOLEAN, tty_background : BOOLEAN]
  /\ gdi \in [buf : Surfaces \cup {NoSurface}, null : BOOLEAN, cinv : SUBSET Regions]
  /\ surf \in [Surfaces -> [Regions -> Vers]]
  /\ fbLocks \in [Surfaces -> 0..2]
  /\ drawn \in [Regions -> Vers] /\ bgDrawn \subseteq Regions
  /\ sent \in Vers /\ typed \in 0..MaxInputs /\ clockSteps \in 0..MaxClockSteps
  /\ devQ + inBuf + committed = typed

\* DirectFB holds a lock on exactly the surface the client draws into, and
\* only while df_lock_fb's mask is not empty; that surface exists.  It is
\* what df_lock_fb / df_unlock_fb keep across df_begin_paint, the early
\* returns of df_end_paint, the idle repaint and the VT switches.
LocksBalanced ==
  pc \in LoopPcs =>
    /\ \A s \in Surfaces :
         fbLocks[s] = IF dfi.primary_locks # {} /\ s = dfi.dataSurf THEN 1 ELSE 0
    /\ dfi.primary_locks # {} =>
         (dfi.dataSurf = "primary" \/ (dfi.dataSurf = "secondary" /\ dfi.secondary))

\* Frames are dropped only while the client is busy: once it waits in
\* select without a timeout, the screen shows everything the updates drew
\* while it was on its VT, the frames df_end_paint deferred included (the
\* idle select paints them, and df_begin_paint keeps their invalid region).
ScreenCurrentWhenIdle ==
  (pc = "select" /\ ctx.busy_ts = NoTs /\ ~dfi.tty_background) =>
    \A r \in Regions \ bgDrawn : surf["primary"][r] = drawn[r]

\* Every input event the user makes is committed to the server while the
\* session lasts, including input deferred while the client is busy.
InputDelivered ==
  \A k \in 1..MaxInputs :
    typed >= k ~> (committed >= k \/ pc \in {"done", "exited"})

\* main returns once dfreerdp_run has ended: thread_func's signal on g_sem
\* is not lost, whether it comes before or after main starts to wait.
MainExits == pc = "exited" ~> mainPc = "exit"

====
