------------------------- MODULE GenerationHistory -------------------------
(***************************************************************************)
(* GenerationState with a record of what happened to the machine, for      *)
(* properties that relate a boot to the boots before it.                   *)
(***************************************************************************)
EXTENDS GenerationState

VARIABLES
  tries,    \* boots that NMBL decided since an operator or mark-success last
            \* stepped in
  untried,  \* generations activated and not booted since
  last,     \* how the latest boot went, as far as it went
  calm      \* nothing was cut short so far and no rescue was requested

hvars == <<vars, tries, untried, last, calm>>

HInit == Init /\ tries = 0 /\ untried = {} /\ last = "none" /\ calm = TRUE

Booted == boot = "prepared" /\ boot' = "up"
Retried == boot = "rescue" /\ boot' = "up"
Attempt == op = "idle" /\ op' = "prepare"
Intervened == op = "idle" /\ op' \in {"mark", "activate", "rollback"}
Activated == op \in {"activate", "rollback"} /\ link'["active"] # link["active"]

\* mark-success made its first write: `tested` names the running generation.
Confirmed == op' = "mark" /\ Len(todo) = 4 /\ Len(todo') = 3

Record ==
  /\ tries' = IF Booted THEN tries + 1 ELSE IF Intervened THEN 0 ELSE tries
  /\ untried' = IF Booted \/ Retried THEN untried \ {running'}
                ELSE IF Activated THEN untried \cup {link'["active"]}
                ELSE untried
  \* A boot counts as failed from its first write until it is confirmed.
  /\ last' = IF Attempt \/ Retried THEN "failed" ELSE IF Confirmed THEN "confirmed" ELSE last

Orderly == CalmStep /\ Record /\ UNCHANGED calm

Disturbed == (BootError \/ PowerLoss \/ Fail \/ RetryBoot) /\ Record /\ calm' = FALSE

Diverted ==
  /\ ForceRescue
  /\ last' = "diverted" /\ calm' = FALSE
  /\ UNCHANGED <<tries, untried>>

HSpec == HInit /\ [][Orderly \/ Disturbed \/ Diverted]_hvars

\* Only rescue is requested; only crashes happen.
Crash == (PowerLoss \/ Fail) /\ Record /\ calm' = FALSE

ForcedRescueSpec == HInit /\ [][Orderly \/ Diverted]_hvars
CrashSpec == HInit /\ [][Orderly \/ Crash]_hvars

-----------------------------------------------------------------------------
(* Properties *)

\* The machine never loops: without an operator or a recorded success it boots
\* a target at most twice, a new generation and then the tested one, however
\* often the power fails or rescue is forced; the next boot ends in rescue.
BootLoopBounded == tries <= (IF AutomaticRollback THEN 2 ELSE 1)

RollsBackUntried ==
  op = "idle" /\ op' = "prepare" /\ CanRollBack /\ link["attempted"] \in untried

DeclaresFailure ==
  boot = "init" /\ boot' = "rescue" /\ op = "idle" /\ Legible

\* docs/erofs-generations.md: an activated generation "gets its own first
\* attempt on the next boot": a boot that rolls a generation back comes after
\* a boot that ran it.
FirstAttemptBeforeRollback == [][~RollsBackUntried]_hvars

\* It does as long as nothing is cut short and no rescue is requested.
CalmFirstAttempt == [][calm => ~RollsBackUntried]_hvars

\* docs/erofs-generations.md: an `attempted` selector that leads to no roll-back
\* "means the previous boot failed": the boot declared failed was neither
\* recorded as a success nor sent to rescue on request.
FailureMeansFailedBoot == [][DeclaresFailure => last = "failed"]_hvars

\* It does as long as nothing is cut short and no rescue is requested.
CalmFailure == [][calm /\ DeclaresFailure => last = "failed"]_hvars

\* rescue/automatic.rs: the roll-back of a failed untested generation "happens
\* first, before any failure is declared, whenever a rollback target exists".
UntestedRollsBack ==
  [][DeclaresFailure /\ AutomaticRollback =>
       link["tested"] \in {NONE, link["attempted"]}]_hvars

\* It does as long as nothing is cut short and no rescue is requested.
CalmRollback ==
  [][calm /\ DeclaresFailure /\ AutomaticRollback =>
       link["tested"] \in {NONE, link["attempted"]}]_hvars
=============================================================================
