----------------------------- MODULE MCClipboard -----------------------------
(* Instantiation of Clipboard for TLC: one format, two local pastes.        *)
EXTENDS Clipboard

ClipFormats == {"UTF8_STRING"}
ClipPastes == {"p1", "p2"}

\* Keeps the X server time and the queues finite together with MaxCopies.
ClipStateBound == Len(xq) <= 6 /\ Len(c2s) <= 6 /\ Len(s2c) <= 6
====
