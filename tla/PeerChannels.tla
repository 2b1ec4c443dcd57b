---------------------------- MODULE PeerChannels ----------------------------
(***************************************************************************)
(* Static virtual channels of a server peer (src/libfreerdp/core/peer.c):  *)
(* the application's threads open a joined MCS channel, write to it and    *)
(* close it; freerdp_peer_virtual_channel_write sends a write as a series  *)
(* of chunks, one rdp_send per chunk, and the client reassembles them.     *)
(*                                                                         *)
(* A handle is the address of a calloc'd rdpPeerChannel.  Addresses are    *)
(* 1..NumAddrs (0 is NULL); calloc returns any free one, so an address     *)
(* freed by close may come back for the next open.  pch[a] is the memory   *)
(* at address a (its mcsChannel), which a free leaves as it was.           *)
(*                                                                         *)
(* The write loop is not atomic: each chunk is a step, so writes of        *)
(* several threads interleave on the wire, and an allocation or send that  *)
(* fails ends the loop after the chunks already sent.                      *)
(*                                                                         *)
(* The receiver is the reassembly of the spec (section 4.1): by channel,   *)
(* a FIRST chunk starts a message, a LAST one completes it, and a FIRST    *)
(* while a message is incomplete is a SequenceError.                       *)
(***************************************************************************)
EXTENDS Naturals, Sequences, FiniteSets

CONSTANTS
  Channels,       \* the MCS channels the client requested
  Joined,         \* those it has joined
  ShowProtocol,   \* those joined with CHANNEL_OPTION_SHOW_PROTOCOL
  Threads,        \* application threads using the channel API
  Uses,           \* Uses[t]: the channel names thread t opens
  KeepsHandle,    \* a thread keeps its handle value after closing it
  NumAddrs,       \* addresses calloc may return
  ChunkSize,      \* settings->VirtualChannelChunkSize
  Lengths,        \* lengths of the buffers written
  MaxWrites,      \* bound on writes
  MayFail         \* rdp_send_stream_init, the capacity check or rdp_send may fail

ASSUME Joined \subseteq Channels /\ ShowProtocol \subseteq Joined
ASSUME Uses \in [Threads -> SUBSET Channels] /\ KeepsHandle \in BOOLEAN
ASSUME ChunkSize \in Nat \ {0} /\ Lengths \subseteq Nat /\ MayFail \in BOOLEAN

Addrs == 1..NumAddrs
NULL == 0
Idle == [busy |-> FALSE]               \* no write in progress / no message

VARIABLES
  mcsHandle,  \* mcsChannel->handle for each channel
  alive,      \* the addresses currently allocated to an rdpPeerChannel
  pch,        \* pch[a]: the channel of the rdpPeerChannel at address a
  held,       \* held[t]: the handle thread t uses (NULL: none)
  wr,         \* wr[t]: thread t's write loop in progress
  nw,         \* writes started so far (and the id of the next one)
  written,    \* the writes that returned 1: [id, total]
  wire,       \* chunks sent and not yet read by the client, in order
  asm,        \* asm[c]: the client's reassembly of channel c
  delivered,  \* messages the client reassembled: [ids, got, total]
  seqErr,     \* a chunk arrived out of sequence
  freedUse,   \* a freed handle was passed to write or close
  sent        \* sent[i]: the chunks write i sent, as [size, first, last]

vars == <<mcsHandle, alive, pch, held, wr, nw, written, wire, asm, delivered,
          seqErr, freedUse, sent>>

(***************************************************************************)
(* The chunking of freerdp_peer_virtual_channel_write                      *)
(***************************************************************************)

\* Mutants of ChunkOf: the last chunk taken only below the chunk size (a
\* full-size final chunk then goes without LAST), and the split taken one
\* byte past the chunk size.
ChunkOfNotLastAtSize(len) ==
  IF len >= ChunkSize THEN [size |-> ChunkSize, last |-> len = 0]
  ELSE [size |-> len, last |-> TRUE]
ChunkOfPastSize(len) ==
  IF len > ChunkSize + 1 THEN [size |-> ChunkSize, last |-> FALSE]
  ELSE [size |-> len, last |-> TRUE]

\* Mutant of ChunkOf: the last chunk keeps the full chunk size (chunkSize
\* not set to the remaining length).
ChunkOfFullLast(len) ==
  IF len > ChunkSize THEN [size |-> ChunkSize, last |-> FALSE]
  ELSE [size |-> ChunkSize, last |-> TRUE]

\* One pass of the write loop with `len` bytes left: the chunk's size and
\* whether it is the last (the flags FIRST on the first pass only).
ChunkOf(len) ==
  IF len > ChunkSize THEN [size |-> ChunkSize, last |-> FALSE]
  ELSE [size |-> len, last |-> TRUE]

\* The spec's split (section 4.1): ceiling(len / C) chunks, each but the
\* last exactly C bytes, FIRST on the first only, LAST on the last only.
SplitReference(len) ==
  LET n == (len + ChunkSize - 1) \div ChunkSize IN
  [i \in 1..n |-> [size  |-> IF i < n THEN ChunkSize ELSE len - (n - 1) * ChunkSize,
                   first |-> i = 1, last |-> i = n]]

(***************************************************************************)
(* Application calls                                                       *)
(***************************************************************************)

\* freerdp_peer_virtual_channel_open: a static channel only; the first
\* joined channel with that name; the handle it already has, else a fresh
\* rdpPeerChannel (calloc may fail and give NULL).
Open(t) ==
  /\ held[t] = NULL
  /\ \E name \in Uses[t], dynamic \in BOOLEAN :
       CASE dynamic \/ name \notin Joined -> UNCHANGED <<mcsHandle, alive, pch, held>>
         [] mcsHandle[name] # NULL ->
              /\ held' = [held EXCEPT ![t] = mcsHandle[name]]
              /\ UNCHANGED <<mcsHandle, alive, pch>>
         [] OTHER ->
              \/ /\ MayFail
                 /\ UNCHANGED <<mcsHandle, alive, pch, held>>
              \/ \E a \in Addrs \ alive :
                   /\ alive' = alive \cup {a}
                   /\ pch' = [pch EXCEPT ![a] = name]
                   /\ mcsHandle' = [mcsHandle EXCEPT ![name] = a]
                   /\ held' = [held EXCEPT ![t] = a]
  /\ UNCHANGED <<wr, nw, written, wire, asm, delivered, seqErr, freedUse, sent>>

\* A mutant of Close: the channel keeps its handle after the free.
CloseKeepsChannelHandle(t) ==
  /\ held[t] # NULL
  /\ ~wr[t].busy
  /\ LET a == held[t] IN
     /\ alive' = alive \ {a}
     /\ held' = [held EXCEPT ![t] = IF KeepsHandle THEN a ELSE NULL]
     /\ freedUse' = (freedUse \/ a \notin alive)
  /\ UNCHANGED <<mcsHandle, pch, wr, nw, written, wire, asm, delivered, seqErr, sent>>

\* freerdp_peer_virtual_channel_close: detach the handle from its channel
\* and free it.
Close(t) ==
  /\ held[t] # NULL
  /\ ~wr[t].busy
  /\ LET a == held[t] IN
     /\ mcsHandle' = [mcsHandle EXCEPT ![pch[a]] = NULL]
     /\ alive' = alive \ {a}
     /\ held' = [held EXCEPT ![t] = IF KeepsHandle THEN a ELSE NULL]
     /\ freedUse' = (freedUse \/ a \notin alive)
  /\ UNCHANGED <<pch, wr, nw, written, wire, asm, delivered, seqErr, sent>>

\* freerdp_peer_virtual_channel_write is called: the buffer's total length,
\* FIRST on the first chunk.  A zero length sends nothing and returns 1.
WriteBegin(t) ==
  /\ held[t] # NULL
  /\ ~wr[t].busy
  /\ nw < MaxWrites
  /\ \E len \in Lengths :
       /\ wr' = [wr EXCEPT ![t] = [busy |-> len > 0, ch |-> pch[held[t]],
                                   total |-> len, left |-> len,
                                   first |-> TRUE, id |-> nw]]
       /\ written' = IF len = 0 THEN written \cup {[id |-> nw, total |-> 0]} ELSE written
  /\ nw' = nw + 1
  /\ freedUse' = (freedUse \/ held[t] \notin alive)
  /\ UNCHANGED <<mcsHandle, alive, pch, held, wire, asm, delivered, seqErr, sent>>

\* Mutants of WriteChunk: the flags not reset after the first chunk (every
\* chunk FIRST), and the chunk's own length written where the total goes.
WriteChunkKeepsFirst(t) ==
  /\ wr[t].busy
  /\ LET w == wr[t]
         k == ChunkOf(w.left)
     IN \/ /\ MayFail
           /\ wr' = [wr EXCEPT ![t] = Idle]
           /\ UNCHANGED <<wire, written, sent>>
        \/ /\ wire' = Append(wire, [ch |-> w.ch, total |-> w.total, size |-> k.size,
                                    first |-> w.first, last |-> k.last,
                                    show |-> w.ch \in ShowProtocol, id |-> w.id])
           /\ sent' = [sent EXCEPT ![w.id] = Append(@, [size |-> k.size,
                                        first |-> w.first, last |-> k.last])]
           /\ wr' = [wr EXCEPT ![t] = IF w.left = k.size THEN Idle
                                      ELSE [w EXCEPT !.left = @ - k.size]]
           /\ written' = IF w.left = k.size THEN written \cup {[id |-> w.id, total |-> w.total]}
                         ELSE written
  /\ UNCHANGED <<mcsHandle, alive, pch, held, nw, asm, delivered, seqErr, freedUse>>
WriteChunkPieceLength(t) ==
  /\ wr[t].busy
  /\ LET w == wr[t]
         k == ChunkOf(w.left)
     IN \/ /\ MayFail
           /\ wr' = [wr EXCEPT ![t] = Idle]
           /\ UNCHANGED <<wire, written, sent>>
        \/ /\ wire' = Append(wire, [ch |-> w.ch, total |-> k.size, size |-> k.size,
                                    first |-> w.first, last |-> k.last,
                                    show |-> w.ch \in ShowProtocol, id |-> w.id])
           /\ sent' = [sent EXCEPT ![w.id] = Append(@, [size |-> k.size,
                                        first |-> w.first, last |-> k.last])]
           /\ wr' = [wr EXCEPT ![t] = IF w.left = k.size THEN Idle
                                      ELSE [w EXCEPT !.left = @ - k.size,
                                                     !.first = FALSE]]
           /\ written' = IF w.left = k.size THEN written \cup {[id |-> w.id, total |-> w.total]}
                         ELSE written
  /\ UNCHANGED <<mcsHandle, alive, pch, held, nw, asm, delivered, seqErr, freedUse>>

\* One pass of the write loop: a chunk with the total length, its flags and
\* up to ChunkSize bytes is sent; or a step of it fails and write returns -1.
WriteChunk(t) ==
  /\ wr[t].busy
  /\ LET w == wr[t]
         k == ChunkOf(w.left)
     IN \/ /\ MayFail
           /\ wr' = [wr EXCEPT ![t] = Idle]
           /\ UNCHANGED <<wire, written, sent>>
        \/ /\ wire' = Append(wire, [ch |-> w.ch, total |-> w.total, size |-> k.size,
                                    first |-> w.first, last |-> k.last,
                                    show |-> w.ch \in ShowProtocol, id |-> w.id])
           /\ sent' = [sent EXCEPT ![w.id] = Append(@, [size |-> k.size,
                                        first |-> w.first, last |-> k.last])]
           /\ wr' = [wr EXCEPT ![t] = IF w.left = k.size THEN Idle
                                      ELSE [w EXCEPT !.left = @ - k.size,
                                                     !.first = FALSE]]
           /\ written' = IF w.left = k.size THEN written \cup {[id |-> w.id, total |-> w.total]}
                      ELSE written
  /\ UNCHANGED <<mcsHandle, alive, pch, held, nw, asm, delivered, seqErr, freedUse>>

(***************************************************************************)
(* The client's reassembly (spec section 4.1)                              *)
(***************************************************************************)

\* The client reads the next chunk: a FIRST starts the channel's message (a
\* SequenceError if one was incomplete, which is discarded); a chunk that is
\* not FIRST continues it, or is discarded as a SequenceError if there is
\* none; a LAST completes the message.
ClientReceive ==
  /\ wire # <<>>
  /\ LET k == Head(wire)
         m == asm[k.ch]
         cur == IF k.first THEN [got |-> 0, ids |-> {}] ELSE m
         got == cur.got + k.size
         ids == cur.ids \cup {k.id}
     IN /\ seqErr' = (seqErr \/ k.first = m.busy)
        /\ CASE ~k.first /\ ~m.busy -> UNCHANGED <<asm, delivered>>
             [] k.last ->
                  /\ asm' = [asm EXCEPT ![k.ch] = Idle]
                  /\ delivered' = delivered \cup
                       {[ch |-> k.ch, ids |-> ids, got |-> got, total |-> k.total]}
             [] OTHER ->
                  /\ asm' = [asm EXCEPT ![k.ch] = [busy |-> TRUE, got |-> got, ids |-> ids]]
                  /\ UNCHANGED delivered
  /\ wire' = Tail(wire)
  /\ UNCHANGED <<mcsHandle, alive, pch, held, wr, nw, written, freedUse, sent>>

Init ==
  /\ mcsHandle = [c \in Channels |-> NULL]
  /\ alive = {}
  /\ pch = [a \in Addrs |-> CHOOSE c \in Channels : TRUE]
  /\ held = [t \in Threads |-> NULL]
  /\ wr = [t \in Threads |-> Idle]
  /\ nw = 0
  /\ written = {}
  /\ wire = <<>>
  /\ asm = [c \in Channels |-> Idle]
  /\ delivered = {}
  /\ seqErr = FALSE
  /\ freedUse = FALSE
  /\ sent = [i \in 0..MaxWrites - 1 |-> <<>>]

Next ==
  \/ \E t \in Threads : Open(t) \/ Close(t) \/ WriteBegin(t) \/ WriteChunk(t)
  \/ ClientReceive

\* The write loop runs to its end once called, and the client keeps reading.
Fairness == (\A t \in Threads : WF_vars(WriteChunk(t))) /\ WF_vars(ClientReceive)

Spec == Init /\ [][Next]_vars /\ Fairness

(***************************************************************************)
(* Properties                                                              *)
(***************************************************************************)
Chunk == [ch : Channels, total : Nat, size : Nat, first : BOOLEAN,
          last : BOOLEAN, show : BOOLEAN, id : Nat]

TypeOK ==
  /\ mcsHandle \in [Channels -> Addrs \cup {NULL}]
  /\ alive \subseteq Addrs /\ pch \in [Addrs -> Channels]
  /\ held \in [Threads -> Addrs \cup {NULL}]
  /\ \A t \in Threads : wr[t].busy \in BOOLEAN
  /\ \A t \in Threads : wr[t].busy => wr[t].left \in Lengths \ {0}
  /\ nw \in 0..MaxWrites /\ written \subseteq [id : 0..MaxWrites, total : Lengths]
  /\ \A i \in DOMAIN wire : wire[i] \in Chunk
  /\ seqErr \in BOOLEAN /\ freedUse \in BOOLEAN

\* Every write that returned 1 sent the spec's split of its buffer: ceiling
\* (length / chunk size) chunks, full ones but the last, FIRST on the first
\* and LAST on the last only; a zero-length write sends nothing.
WritesFollowSplit == \A w \in written : sent[w.id] = SplitReference(w.total)

\* The client never meets a chunk out of sequence: the chunks of one write
\* reach it from its FIRST to its LAST with no FIRST of another write of the
\* same channel in between, whatever the threads and the writes' failures.
NoSequenceError == ~seqErr

\* A write that failed after sending some of its chunks (returned -1 with
\* its FIRST on the wire and no LAST).
PartiallyFailed(i) ==
  /\ sent[i] # <<>>
  /\ \A w \in written : w.id # i
  /\ \A t \in Threads : ~(wr[t].busy /\ wr[t].id = i)

\* Sequence errors have one cause only: the client meets a chunk out of
\* sequence only after a write failed midway, leaving its channel's
\* message open; interleaved threads and failures before the first chunk
\* never cause one.
SequenceErrorOnlyAfterPartialWrite ==
  seqErr => \E i \in DOMAIN sent : PartiallyFailed(i)

\* Every message the client reassembles is exactly one write, whole: the
\* chunks of one write only, and as many bytes as the total every chunk
\* carries.
MessagesIntact ==
  \A m \in delivered : Cardinality(m.ids) = 1 /\ m.got = m.total

\* Every write that returned 1 with a non-empty buffer is eventually
\* reassembled by the client.
WritesDelivered ==
  \A i \in 0..MaxWrites - 1, n \in Lengths \ {0} :
    ([id |-> i, total |-> n] \in written) ~> (\E m \in delivered : i \in m.ids)

\* No freed rdpPeerChannel is passed to write or close: a handle is never
\* used after its close (by its own thread, or by another that opened the
\* same channel and was handed the same handle).
NoUseAfterFree == ~freedUse
=============================================================================
