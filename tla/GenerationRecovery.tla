------------------------- MODULE GenerationRecovery -------------------------
(***************************************************************************)
(* What GenerationState must eventually do.  From some point on nobody     *)
(* interferes: no operator, no power failure, no forced rescue.  Then a    *)
(* generation of Good comes up healthy each time it is booted, and any     *)
(* other one hangs until a watchdog (or a person) resets the machine.      *)
(***************************************************************************)
EXTENDS GenerationState

CONSTANT Good  \* the generations whose units come up

ASSUME GoodAssumption == Good \subseteq Gens

VARIABLE quiet

rvars == <<vars, quiet>>

Interference == OperatorStep \/ RetryBoot \/ Mishap

Healthy == running \in Good

Assess == HealthCheck /\ Healthy
Reset == boot = "up" /\ ~Healthy /\ Reboot

Undisturbed == BootStep \/ HolderStep \/ Assess \/ MarkSuccess \/ Reset

RInit == Init /\ quiet = FALSE

RNext ==
  \/ Undisturbed /\ UNCHANGED quiet
  \/ ~quiet /\ (Interference \/ Reboot) /\ UNCHANGED quiet
  \/ ~quiet /\ quiet' = TRUE /\ UNCHANGED vars

\* PID 1 runs to its end, a program that holds the flock does too, the timer
\* fires every 30 seconds, and a machine that hangs is reset.
Fairness ==
  /\ WF_rvars(BootStep /\ UNCHANGED quiet)
  /\ WF_rvars(HolderStep /\ UNCHANGED quiet)
  /\ WF_rvars(Assess /\ UNCHANGED quiet)
  /\ WF_rvars(MarkSuccess /\ UNCHANGED quiet)
  /\ WF_rvars(Reset /\ UNCHANGED quiet)

RSpec == RInit /\ [][RNext]_rvars /\ Fairness

-----------------------------------------------------------------------------
(* Properties *)

Tested == link["tested"]

\* A generation that was activated, and whose activation is complete.
Fresh == op = "idle" /\ link["attempted"] = NONE /\ link["pending"] = link["active"]

\* A freshly activated generation that never comes up is replaced by the good
\* tested one, which then runs and is confirmed, without anyone's help.
BadGenerationReplaced ==
  quiet /\ boot = "off" /\ Fresh /\ AutomaticRollback
        /\ link["active"] \in Gens \ Good /\ Tested \in Good
    ~> /\ boot = "up" /\ running \in Good /\ running = Tested
       /\ link["attempted"] = NONE /\ link["pending"] = NONE

\* A healthy generation that runs as the recorded attempt ends up tested, even
\* if an earlier mark-success was cut short.
HealthyGenerationConfirmed ==
  quiet /\ boot = "up" /\ op = "idle" /\ Healthy
        /\ link["attempted"] = running /\ link["active"] = running
    ~> Tested = running /\ link["attempted"] = NONE
=============================================================================
