----------------------------- MODULE MCStateful -----------------------------
(* Model values for the runs of StatefulHistory. *)
EXTENDS StatefulHistory, TLC

CONSTANTS y1, y2, y3

\* No system differs from another but by its name.
Symmetry == Permutations(Systems)
=============================================================================
