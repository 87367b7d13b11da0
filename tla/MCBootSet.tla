----------------------------- MODULE MCBootSet -----------------------------
EXTENDS BootSet

\* One bundle per slot and one more, signed with another key.
CONSTANTS a1, b1, a2, k1, k2
MCSlot == [b \in Bundles |-> IF b = b1 THEN "B" ELSE "A"]
MCKey == [b \in Bundles |-> IF b = a2 THEN k2 ELSE k1]
MCSize == [b \in Bundles |-> 2]
MCUnitSize == [b \in Bundles |-> 1]

\* The estimate of the check: a unit too much, or exact.
MCNeed == [b \in Bundles |-> Size[b] + 1]
MCExactNeed == Size
=============================================================================
