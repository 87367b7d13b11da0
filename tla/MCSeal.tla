------------------------------- MODULE MCSeal -------------------------------
(* Model values for the runs of Seal. *)
EXTENDS Seal

CONSTANTS m1, m2

Box(tpm, require, automatic, rescue, bootstrap, writable) ==
  [tpm |-> tpm, requireTpm |-> require, automatic |-> automatic,
   rescue |-> rescue, bootstrap |-> bootstrap, writable |-> writable]

\* Every kind of configuration at least once, with a TPM and without.
AllBoxes ==
  { Box(TRUE, TRUE, TRUE, "external", TRUE, TRUE),
    Box(TRUE, FALSE, FALSE, "embedded", FALSE, TRUE),
    Box(TRUE, FALSE, TRUE, "external", FALSE, TRUE),
    Box(TRUE, TRUE, FALSE, "none", TRUE, FALSE),
    Box(FALSE, TRUE, TRUE, "external", TRUE, TRUE),
    Box(FALSE, FALSE, FALSE, "embedded", TRUE, TRUE) }

\* A server that enters rescue on its own from a writable boot volume.
Server == { Box(TRUE, TRUE, TRUE, "external", TRUE, TRUE) }
=============================================================================
