------------------------ MODULE GenerationSelection ------------------------
(***************************************************************************)
(* What the generation state promises, whatever crashes and whatever order *)
(* its programs run in: one selected generation, one proven generation.    *)
(* While the machine is booting only a fall-back to the proven generation  *)
(* may change the selection.  While it is operated, operators choose, and  *)
(* the running generation may become the proven one if it is also the      *)
(* selected one.  A change may coincide with the power failing.  An        *)
(* operator may boot the selected generation by hand, past the boot        *)
(* loader's bookkeeping; such a boot may leave it open which generation a  *)
(* success belongs to.                                                     *)
(***************************************************************************)
CONSTANTS Gens, NONE

VARIABLES
  selected,  \* the generation the next boot starts
  proven,    \* the generation that last booted successfully
  current,   \* the generation that runs, if any
  astray,    \* it was booted by hand, and its success may count for another
  booting    \* the machine is off or in the boot loader

vars == <<selected, proven, current, astray, booting>>

Init ==
  selected = NONE /\ proven = NONE /\ current = NONE /\ ~astray /\ ~booting

Choose == ~booting /\ selected' \in Gens /\ UNCHANGED proven

Prove ==
  /\ ~booting /\ current # NONE /\ (selected = current \/ astray)
  /\ proven' = selected /\ UNCHANGED selected

FallBack == booting /\ proven # NONE /\ selected' = proven /\ UNCHANGED proven

Change == Choose \/ Prove \/ FallBack \/ UNCHANGED <<selected, proven>>

Work == Change /\ UNCHANGED <<current, astray, booting>>

Start ==
  /\ booting /\ selected # NONE
  /\ current' = selected /\ booting' = FALSE
  /\ UNCHANGED <<selected, proven, astray>>

\* The boot ends in rescue instead.
GiveUp == booting /\ Change /\ booting' = FALSE /\ UNCHANGED <<current, astray>>

\* The operator boots from the rescue, and may cut a change short.
StartByHand ==
  /\ ~booting /\ current = NONE /\ Change
  /\ selected' # NONE /\ current' = selected'
  /\ astray' \in BOOLEAN /\ UNCHANGED booting

Stop == Change /\ current' = NONE /\ astray' = FALSE /\ booting' = TRUE

Next == Work \/ Start \/ GiveUp \/ StartByHand \/ Stop

Spec == Init /\ [][Next]_vars
=============================================================================
