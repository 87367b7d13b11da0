-------------------------- MODULE BootSetRegister --------------------------
(***************************************************************************)
(* What boot-set updates promise on each boot root: a register that holds  *)
(* the set that boots.  It changes in one step, to a bundle that the       *)
(* trusted key signed for the slot that is not in use (A when there is     *)
(* none yet), and only when the last change is saved.                      *)
(***************************************************************************)
EXTENDS Naturals

CONSTANTS Bundles, NONE, Slot, Key, NRoots

VARIABLES
  now,    \* the set that boots, on each root
  saved,  \* the set that boots after a power failure, at worst
  trust   \* the key updates are verified with

vars == <<now, saved, trust>>

Roots == 1..NRoots
Keys == {Key[b] : b \in Bundles}

Init ==
  /\ now = [r \in Roots |-> NONE]
  /\ saved = now
  /\ trust \in Keys

NextSlot(b) == IF b # NONE /\ Slot[b] = "A" THEN "B" ELSE "A"

Switch(r) ==
  /\ saved[r] = now[r]
  /\ \E b \in Bundles :
       /\ Key[b] = trust /\ Slot[b] = NextSlot(now[r])
       /\ now' = [now EXCEPT ![r] = b]
  /\ UNCHANGED <<saved, trust>>

Save(r) ==
  /\ saved' = [saved EXCEPT ![r] = now[r]]
  /\ UNCHANGED <<now, trust>>

LosePower ==
  /\ now' = saved'
  /\ now' \in [Roots -> Bundles \cup {NONE}]
  /\ \A r \in Roots : now'[r] \in {now[r], saved[r]}
  /\ UNCHANGED trust

Rekey == trust' \in Keys /\ UNCHANGED <<now, saved>>

Next == (\E r \in Roots : Switch(r) \/ Save(r)) \/ LosePower \/ Rekey

Spec == Init /\ [][Next]_vars
=============================================================================
