----------------------------- MODULE MCTfreeRdp -----------------------------
(***************************************************************************)
(* TfreeRdp for TLC: the tfreerdp application on a peer with a conforming  *)
(* client that moves the mouse and presses 's' and 'x'.                    *)
(***************************************************************************)
EXTENDS TfreeRdp

\* The user moves the mouse up to twice and presses each key at most once.
TfBudget == [m \in TfInputPdus |-> IF m = "Mouse" THEN 2 ELSE 1]

\* The user presses 's' a second time before the first resize reaches the
\* client.
TfBudgetResizeTwice == [m \in TfInputPdus |-> IF m = "KeyS" THEN 2 ELSE 0]

\* The user moves the mouse right after pressing 'x'.
TfBudgetCloseThenDraw == [m \in TfInputPdus |-> IF m = "KeyS" THEN 0 ELSE 1]
=============================================================================
