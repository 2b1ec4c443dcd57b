---------------------------- MODULE MCPeerChannels ----------------------------
(***************************************************************************)
(* PeerChannels for TLC: two application threads and two joined channels.  *)
(***************************************************************************)
EXTENDS PeerChannels

\* Each thread opens its own channel.
UsesOwn == [t \in Threads |-> IF t = "t1" THEN {"rdpdbg"} ELSE {"cliprdr", "unjoined"}]

\* Both threads open the same channel, as two components of a server
\* (a debug thread and the input handler of tfreerdp) do.
UsesShared == [t \in Threads |-> {"rdpdbg"}]
=============================================================================
