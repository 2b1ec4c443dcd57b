------------------------------ MODULE MCDfreeRdp ------------------------------
(* Instantiation of DfreeRdp for TLC.                                       *)
EXTENDS DfreeRdp

\* The buffered client with --direct-fullscreen, and --direct-surface
\* without it.  A client with --direct-fullscreen that finds no VT behaves
\* as one without, so the buffered client without it is covered too.
DfModesNoDirectVt ==
  {[directSurface |-> FALSE, directFullscreen |-> TRUE],
   [directSurface |-> TRUE, directFullscreen |-> FALSE]}

\* --direct-surface --direct-fullscreen.
DfModesDirectVt == {[directSurface |-> TRUE, directFullscreen |-> TRUE]}

DfRegions == {"r1", "r2"}

\* An update draws nothing, or one of the two regions.
DfUpdateRegions == {{}, {"r1"}, {"r2"}}

====
