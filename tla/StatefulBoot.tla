---------------------------- MODULE StatefulBoot ----------------------------
(***************************************************************************)
(* Stateful boot tracking on profile hosts: NMBL keeps state.bin on the    *)
(* boot partition and decides from it, once per boot, whether the operator *)
(* chooses the generation, a rollback is forced or the rescue is entered.  *)
(* The booted system records its success, the bootloader installer marks   *)
(* the generation it installed as unproven, and nmblctl leaves requests in *)
(* files next to state.bin.                                                *)
(*                                                                         *)
(* A boot runs to its end in one process; the machine may lose power at    *)
(* any step.  state.bin is truncated and written in place, so a write that *)
(* is cut short leaves a file that does not decode.                        *)
(***************************************************************************)
EXTENDS Integers, FiniteSets, FiniteSetsExt

CONSTANTS Systems,       \* the system closures that are deployed
          NONE,          \* no generation, no system
          LATEST,        \* the default that means the newest generation
          TORN,          \* a state.bin that does not decode
          MaxGen,        \* bound: the highest generation number
          RingSize,      \* the slots of the known-good ring (20)
          MaxAttempts,   \* stateful.maxRecoveryAttempts
          Reuse,         \* the newest generation may be deleted
          Commands,      \* bound: what the operator does
          Faults         \* what goes wrong: "error" a write of state.bin fails,
                         \* "power" power fails during one, "install" the
                         \* installer does not run after the profile changed

Gens == 1..MaxGen
Slots == 1..RingSize

ASSUME NoneAssumption == NONE \notin Gens \cup {LATEST} \cup Systems /\ LATEST \notin Gens
ASSUME BoundAssumption ==
  /\ MaxGen \in Nat \ {0} /\ RingSize \in Nat \ {0}
  /\ MaxAttempts \in Nat \ {0}
  /\ Reuse \in BOOLEAN

MaybeGen == Gens \cup {NONE}

States == [last : MaybeGen, ok : BOOLEAN, attempt : 0..MaxAttempts,
           armed : MaybeGen, retrying : BOOLEAN, good : [Slots -> MaybeGen],
           unproven : MaybeGen, failed : BOOLEAN, system : Systems \cup {NONE}]
ASSUME TornAssumption == TORN \notin States

VARIABLES
  state,      \* state.bin
  links,      \* the system that system-N-link names
  active,     \* the generation the system profile names
  request,    \* retry-generation: the retry that the operator authorized
  once,       \* boot-once
  default,    \* boot-default
  sentinel,   \* the rescue sentinel is there
  phase,      \* what the machine does
  pick,       \* the generation NMBL boots, and on whose account
  running     \* the system that was booted last

files == <<request, once, default, sentinel>>
profile == <<links, active>>
vars == <<state, profile, files, phase, pick, running>>

Phases == {"off", "retry", "authorize", "exit", "select", "commit", "system", "rescue"}
Accounts == {"none", "operator", "timeout", "instant", "forced", "retry", "exit", "menu"}

TypeOK ==
  /\ state \in States \cup {TORN}
  /\ links \in [Gens -> Systems \cup {NONE}]
  /\ active \in Gens /\ links[active] # NONE
  /\ request \in MaybeGen /\ once \in MaybeGen
  /\ default \in MaybeGen \cup {LATEST}
  /\ sentinel \in BOOLEAN
  /\ phase \in Phases
  /\ pick \in [gen : MaybeGen, by : Accounts]
  /\ running \in Systems \cup {NONE}

OnDisk == {g \in Gens : links[g] # NONE}
Newest == Max(OnDisk)

-----------------------------------------------------------------------------
(* The decision (state/decide.rs) *)

Fresh == [last |-> NONE, ok |-> TRUE, attempt |-> 0, armed |-> NONE,
          retrying |-> FALSE, good |-> [i \in Slots |-> NONE],
          unproven |-> NONE, failed |-> FALSE, system |-> NONE]

KnownGood(s) == {s.good[i] : i \in Slots} \ {NONE}

\* The ring with g moved to the front from slot p; p is the last slot if g is new.
Front(good, g, p) ==
  [i \in Slots |-> IF i = 1 THEN g ELSE IF i <= p THEN good[i - 1] ELSE good[i]]

\* The ring after the boot of s.last succeeded.
Rotated(s) ==
  IF s.last \notin OnDisk THEN s.good
  ELSE IF s.last \notin KnownGood(s) THEN Front(s.good, s.last, RingSize)
  ELSE IF s.last = active
       THEN Front(s.good, s.last, Min({i \in Slots : s.good[i] = s.last}))
  ELSE s.good

\* The slots whose generation may be booted instead of the unproven one.
Usable(s) == {i \in Slots : s.good[i] \in OnDisk \ {s.unproven}}

HonourTui(s) == [do |-> "honour", gen |-> NONE, state |-> s]
ForcePick(s, g) == [do |-> "force", gen |-> g, state |-> s]
Exhausted(s) == [do |-> "exhausted", gen |-> NONE, state |-> s]

\* The last boot succeeded.
DecideHealthy(s) ==
  LET t == [s EXCEPT !.good = Rotated(s), !.attempt = 0]
  IN IF t.unproven = active /\ t.failed /\ Usable(t) # {}
     THEN ForcePick(t, t.good[Min(Usable(t))])
     ELSE HonourTui(t)

\* The older generations that nothing is known about.
Walk(s) == {g \in OnDisk : g < active} \ (KnownGood(s) \cup {s.last, s.unproven})

Fallbacks(s) ==
  IF s.attempt + 1 \in Usable(s) THEN {s.good[s.attempt + 1]}
  ELSE IF Walk(s) # {} THEN {Max(Walk(s))}
  ELSE {}

\* Deviation of DecideFailed: a roll-back is not counted.
DecideFailedUncounted(s) ==
  IF s.retrying \/ Fallbacks(s) = {} THEN Exhausted(s)
  ELSE IF s.last = NONE THEN HonourTui(s)
  ELSE ForcePick(s, CHOOSE g \in Fallbacks(s) : TRUE)

\* The last boot failed.
DecideFailed(s) ==
  LET t == [s EXCEPT !.failed = @ \/ (s.unproven # NONE /\ s.unproven = s.last)]
  IN IF s.retrying THEN Exhausted(s)
     ELSE IF s.last = NONE THEN HonourTui(s)
     ELSE IF s.attempt >= MaxAttempts \/ Fallbacks(s) = {} THEN Exhausted(s)
     ELSE ForcePick([t EXCEPT !.attempt = @ + 1], CHOOSE g \in Fallbacks(s) : TRUE)

decide(s) == IF s.ok THEN DecideHealthy(s) ELSE DecideFailed(s)

\* The default generation (boot_selection.rs).
Default ==
  IF once \in OnDisk THEN once
  ELSE IF default = LATEST THEN Newest
  ELSE IF default \in OnDisk THEN default
  ELSE active

\* Instant boot is on, and nothing speaks against it but a key press.
Instant(s) == s.ok /\ ~sentinel /\ s.unproven # active

-----------------------------------------------------------------------------
(* Writing state.bin (state/io.rs) *)

Written(s, p) == state' = s /\ phase' = p
Failed(p) == "error" \in Faults /\ state' \in {state, TORN} /\ phase' = p
Cut == "power" \in Faults /\ state' = TORN /\ phase' = "off"

\* The phase is p if the write succeeded, q if it failed.
Save(s, p, q) == Written(s, p) \/ Failed(q) \/ Cut

Cleared(s) == [s EXCEPT !.unproven = NONE, !.failed = FALSE, !.system = NONE]

\* Deviation of Succeeded: a success of any generation clears the mark.
SucceededClears(s) ==
  Cleared([s EXCEPT !.armed = NONE, !.retrying = FALSE, !.ok = TRUE, !.attempt = 0])

\* mark_boot_succeeded
Succeeded(s) ==
  LET t == [s EXCEPT !.armed = NONE, !.retrying = FALSE, !.ok = TRUE, !.attempt = 0]
  IN IF s.unproven # NONE /\ s.unproven = s.last THEN Cleared(t) ELSE t

\* apply_unproven_mark for the active generation g, which names the system y.
Marked(s, g, y) ==
  IF s.ok /\ s.last = g THEN Cleared(s)
  ELSE IF g \in KnownGood(s) THEN s
  ELSE IF s.unproven = g /\ s.system \in {y, NONE} THEN [s EXCEPT !.system = y]
  ELSE [s EXCEPT !.unproven = g, !.failed = FALSE, !.system = y]

\* Deviation of Attempted: the success of the boot before is kept.
AttemptedHealthy(s, g) == [s EXCEPT !.last = g]

\* Deviation of Attempted: the attempt is counted here as well.
AttemptedCounted(s, g) == [s EXCEPT !.last = g, !.ok = FALSE, !.attempt = @ + 1]

\* record_attempt
Attempted(s, g) == [s EXCEPT !.last = g, !.ok = FALSE]

\* record_operator_retry
OperatorRetried(s, g) == [Attempted(s, g) EXCEPT !.armed = NONE, !.retrying = FALSE]

-----------------------------------------------------------------------------
(* NMBL *)

Init ==
  /\ state = Fresh
  /\ \E y \in Systems : links = [g \in Gens |-> IF g = 1 THEN y ELSE NONE]
  /\ active = 1
  /\ request = NONE /\ once = NONE /\ default = NONE /\ sentinel = FALSE
  /\ phase = "off" /\ pick = [gen |-> NONE, by |-> "none"] /\ running = NONE

\* A requested rescue is entered before anything is read.
PowerOn ==
  /\ phase = "off"
  /\ phase' = IF sentinel THEN "rescue" ELSE "retry"
  /\ pick' = [gen |-> NONE, by |-> "none"]
  /\ UNCHANGED <<state, profile, files, running>>

\* A boot that the policy refuses: the machine reboots into the rescue, if the
\* sentinel can be written.
Refuse == phase' = "off" /\ sentinel' \in {TRUE, sentinel}

\* An earlier phase of the boot fails, or is refused.
BootError ==
  /\ phase = "retry"
  /\ (phase' = "rescue" /\ UNCHANGED sentinel) \/ Refuse
  /\ UNCHANGED <<state, profile, request, once, default, pick, running>>

\* take_retry: the request is removed before anything else.
TakeRetry ==
  /\ phase = "retry"
  /\ request' = NONE
  /\ IF request = NONE THEN phase' = "exit" /\ UNCHANGED pick
     ELSE IF request \in OnDisk
          THEN phase' = "authorize" /\ pick' = [gen |-> request, by |-> "retry"]
     ELSE phase' = "rescue" /\ UNCHANGED pick
  /\ UNCHANGED <<state, profile, once, default, sentinel, running>>

RecordRetry ==
  /\ phase = "authorize"
  /\ IF state = TORN THEN phase' = "rescue" /\ UNCHANGED state
     ELSE Save(OperatorRetried(state, pick.gen), "commit", "rescue")
  /\ UNCHANGED <<profile, files, pick, running>>

\* Deviation of TakeRescueExit: the authorization is not removed from state.bin.
TakeRescueExitKept ==
  /\ phase = "exit"
  /\ IF state = TORN THEN phase' = "rescue" /\ UNCHANGED pick
     ELSE IF ~state.ok /\ state.armed # NONE /\ state.last = state.armed
     THEN phase' = "commit" /\ pick' = [gen |-> state.armed, by |-> "exit"]
     ELSE phase' = "select" /\ UNCHANGED pick
  /\ UNCHANGED <<state, profile, files, running>>

\* take_rescue_exit_retry: the authorization is removed before it is used.
TakeRescueExit ==
  /\ phase = "exit"
  /\ IF state = TORN THEN phase' = "rescue" /\ UNCHANGED <<state, pick>>
     ELSE IF state.armed = NONE THEN phase' = "select" /\ UNCHANGED <<state, pick>>
     ELSE IF ~state.ok /\ state.last = state.armed /\ state.armed \in OnDisk
     THEN /\ pick' = [gen |-> state.armed, by |-> "exit"]
          /\ Save([state EXCEPT !.armed = NONE, !.retrying = TRUE], "commit", "rescue")
     ELSE /\ Save([state EXCEPT !.armed = NONE], "select", "rescue")
          /\ UNCHANGED pick
  /\ UNCHANGED <<profile, files, running>>

\* The boot goes on if the attempt cannot be recorded.
Record(s, g, by) ==
  /\ pick' = [gen |-> g, by |-> by]
  /\ Save(Attempted(s, g), "commit", "commit")

\* select_with_stateful and select_default_with_stateful
Select ==
  /\ phase = "select"
  /\ LET d == decide(state)
     IN \/ /\ d.do = "honour"
           /\ \/ Instant(state) /\ Record(d.state, Default, "instant")
              \/ Record(d.state, Default, "timeout")
              \/ \E g \in OnDisk : Record(d.state, g, "operator")
        \/ d.do = "force" /\ Record(d.state, d.gen, "forced")
        \/ d.do = "exhausted" /\ phase' = "rescue" /\ UNCHANGED <<state, pick>>
  /\ UNCHANGED <<profile, files, running>>

\* The operator leaves the selector for the emergency menu.
Shell ==
  /\ phase = "select" /\ decide(state).do = "honour" /\ phase' = "rescue"
  /\ UNCHANGED <<state, profile, files, pick, running>>

\* kexec_into
Start(g) == phase' = "system" /\ running' = links[g] /\ UNCHANGED sentinel

\* consume_one_shot, then kexec_into, which may refuse or fail.
Kexec ==
  /\ phase = "commit"
  /\ once' \in IF "error" \in Faults THEN {NONE, once} ELSE {NONE}
  /\ \/ Start(pick.gen)
     \/ Refuse /\ UNCHANGED running
     \/ phase' = "rescue" /\ UNCHANGED <<running, sentinel>>
  /\ UNCHANGED <<state, profile, request, default, pick>>

\* "Retry boot" and "Verify kexec readiness" of the emergency menu: the operator
\* selects a generation that was scanned anew.  Nothing is decided, no attempt
\* is recorded, and the one-shot boot is not consumed.
RetryFromMenu(g) ==
  /\ phase = "rescue" /\ g \in OnDisk
  /\ \/ Start(g) /\ pick' = [gen |-> g, by |-> "menu"]
     \/ Refuse /\ UNCHANGED <<pick, running>>
  /\ UNCHANGED <<state, profile, request, once, default>>

\* The rescue console is ready: record_rescue_booted, then the sentinel.
RescueReady ==
  /\ phase = "rescue" /\ state # TORN
  /\ LET s == [state EXCEPT !.armed = IF state.ok THEN NONE ELSE state.last,
                            !.retrying = FALSE]
     IN \/ Written(s, "rescue") /\ sentinel' = FALSE
        \/ Written(s, "off") /\ UNCHANGED sentinel
        \/ (Failed("rescue") \/ Cut) /\ UNCHANGED sentinel
  /\ UNCHANGED <<profile, request, once, default, pick, running>>

PowerOff ==
  /\ phase # "off" /\ phase' = "off"
  /\ UNCHANGED <<state, profile, files, pick, running>>

-----------------------------------------------------------------------------
(* The booted system *)

\* nmbl-boot-succeeded.service
Succeed ==
  /\ phase = "system" /\ state # TORN
  /\ Save(Succeeded(state), "system", "system")
  /\ UNCHANGED <<profile, files, pick, running>>

\* The bootloader installer, after generation g (the system y) became active.
Install(g, y) ==
  \/ /\ state # TORN
     /\ IF Marked(state, g, y) = state THEN UNCHANGED <<state, phase>>
        ELSE Save(Marked(state, g, y), phase, phase)
  \/ (state = TORN \/ "install" \in Faults) /\ UNCHANGED <<state, phase>>

\* nixos-rebuild: the new generation has the next number.
Deploy(y) ==
  /\ phase = "system" /\ Newest < MaxGen
  /\ links' = [links EXCEPT ![Newest + 1] = y] /\ active' = Newest + 1
  /\ Install(Newest + 1, y)
  /\ UNCHANGED <<files, pick, running>>

\* nixos-rebuild --rollback, or a switch to another generation.
Switch(g) ==
  /\ phase = "system" /\ g # active
  /\ active' = g
  /\ Install(g, links[g])
  /\ UNCHANGED <<links, files, pick, running>>

DeleteGeneration(g) ==
  /\ phase = "system" /\ g # active /\ (g = Newest => Reuse)
  /\ links' = [links EXCEPT ![g] = NONE]
  /\ UNCHANGED <<state, active, files, phase, pick, running>>

\* nmblctl default, reboot-into and reboot-rescue.
SetDefault(d) ==
  /\ phase = "system" /\ default' = d
  /\ UNCHANGED <<state, profile, request, once, sentinel, phase, pick, running>>

RebootInto(g) ==
  /\ phase = "system" /\ once' = g
  /\ UNCHANGED <<state, profile, request, default, sentinel, phase, pick, running>>

RebootRescue ==
  /\ phase = "system" /\ sentinel' = TRUE
  /\ UNCHANGED <<state, profile, request, once, default, phase, pick, running>>

\* nmblctl retry-generation: the request, then the sentinel.
RetryGeneration(g) ==
  /\ phase \in {"system", "rescue"} /\ state # TORN
  /\ request' = g
  /\ sentinel' \in {FALSE, sentinel}
  /\ UNCHANGED <<state, profile, once, default, phase, pick, running>>

Boot ==
  \/ PowerOn \/ BootError \/ TakeRetry \/ RecordRetry \/ TakeRescueExit \/ Select
  \/ Shell \/ Kexec \/ RescueReady
  \/ \E g \in OnDisk : "menu" \in Commands /\ RetryFromMenu(g)

Operate ==
  \/ \E y \in Systems : Deploy(y)
  \/ \E g \in OnDisk : "switch" \in Commands /\ Switch(g)
  \/ \E g \in OnDisk : "delete" \in Commands /\ DeleteGeneration(g)
  \/ \E d \in OnDisk \cup {NONE, LATEST} : "default" \in Commands /\ SetDefault(d)
  \/ \E g \in OnDisk : "once" \in Commands /\ RebootInto(g)
  \/ \E g \in OnDisk : "retry" \in Commands /\ RetryGeneration(g)
  \/ "rescue" \in Commands /\ RebootRescue

Next == Boot \/ Succeed \/ Operate \/ PowerOff

Spec == Init /\ [][Next]_vars
=============================================================================
