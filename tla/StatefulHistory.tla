-------------------------- MODULE StatefulHistory ---------------------------
(***************************************************************************)
(* StatefulBoot with a record of what really happened, which the code does *)
(* not keep: which systems ever booted successfully, how often the machine *)
(* booted by itself, and what was authorized.                              *)
(***************************************************************************)
EXTENDS StatefulBoot

VARIABLES
  proven,   \* the systems that reached the success target
  marked,   \* the systems that were marked as unproven
  broken,   \* the systems that failed a boot while they were marked
  streak,   \* the boots that state.bin records since the last success, rescue or
            \* choice of the operator
  credit,   \* the authorizations of one boot that were not used yet
  verdict,  \* "exhausted" once automatic recovery was, "retried" once the
            \* generation that the operator then retried was booted, and
            \* "unreadable" if state.bin ended a boot in the rescue
  misled    \* the success of a generation booted from the menu was recorded as
            \* that of another one, which had failed

history == <<proven, marked, broken, streak, credit, verdict, misled>>
hvars == <<vars, history>>

HTypeOK ==
  /\ TypeOK
  /\ proven \in SUBSET Systems /\ marked \in SUBSET Systems /\ broken \in SUBSET marked
  /\ streak \in 0..MaxAttempts + 2
  /\ credit \in SUBSET {"retry", "exit"}
  /\ verdict \in {"none", "exhausted", "retried", "unreadable"}
  /\ misled \in BOOLEAN

HInit ==
  /\ Init
  /\ proven = {} /\ marked = {} /\ broken = {}
  /\ streak = 0 /\ credit = {} /\ verdict = "none"
  /\ misled = FALSE

\* The system that is marked after this step.
NowMarked == IF state' = TORN \/ state'.unproven = NONE THEN {} ELSE {state'.system}

\* The machine goes down while a marked system, whose boot is recorded, has not
\* reached its target.
Breaks ==
  phase = "system" /\ phase' = "off" /\ running \notin proven /\ pick.by # "menu"
  /\ state # TORN /\ state.unproven = pick.gen /\ state.system = running

HKexec ==
  /\ Kexec
  /\ streak' = IF phase' = "rescue" THEN 0
               ELSE IF phase' = "off" THEN streak
               ELSE IF pick.by \in {"operator", "retry"} THEN 1
               ELSE Min({streak + 1, MaxAttempts + 2})
  /\ credit' = IF phase' = "system" THEN credit \ {pick.by} ELSE credit
  /\ verdict' = IF phase' = "system" /\ pick.by = "retry" /\ verdict = "exhausted"
                THEN "retried" ELSE "none"
  /\ UNCHANGED <<proven, marked, broken, misled>>

HRetryFromMenu ==
  /\ \E g \in OnDisk : "menu" \in Commands /\ RetryFromMenu(g)
  /\ streak' = 0 /\ verdict' = "none"
  /\ UNCHANGED <<proven, marked, broken, credit, misled>>

HSucceed ==
  /\ Succeed
  /\ proven' = proven \cup {running} /\ broken' = broken \ {running}
  /\ streak' = 0 /\ verdict' = "none"
  /\ misled' = (misled \/ (pick.by = "menu" /\ ~state.ok /\ state.last # pick.gen))
  /\ UNCHANGED <<marked, credit>>

HAuthorize ==
  \/ RescueReady /\ credit' = credit \cup {"exit"}
     /\ UNCHANGED <<proven, marked, broken, streak, verdict, misled>>
  \/ /\ \E g \in OnDisk : "retry" \in Commands /\ RetryGeneration(g)
     /\ credit' = credit \cup {"retry"}
     /\ verdict' = IF verdict = "retried" THEN "none" ELSE verdict
     /\ UNCHANGED <<proven, marked, broken, streak, misled>>

HSelect ==
  /\ Select \/ Shell
  /\ streak' = IF phase' = "rescue" THEN 0 ELSE streak
  /\ verdict' = IF state # TORN /\ decide(state).do = "exhausted" THEN "exhausted" ELSE verdict
  /\ UNCHANGED <<proven, marked, broken, credit, misled>>

HOther ==
  /\ \/ PowerOn \/ BootError \/ TakeRetry \/ RecordRetry \/ TakeRescueExit \/ PowerOff
     \/ \E y \in Systems : Deploy(y)
     \/ \E g \in OnDisk : "switch" \in Commands /\ Switch(g)
     \/ \E g \in OnDisk : "delete" \in Commands /\ DeleteGeneration(g)
     \/ \E d \in OnDisk \cup {NONE, LATEST} : "default" \in Commands /\ SetDefault(d)
     \/ \E g \in OnDisk : "once" \in Commands /\ RebootInto(g)
     \/ "rescue" \in Commands /\ RebootRescue
  /\ marked' = marked \cup NowMarked
  /\ broken' = IF Breaks THEN broken \cup {running} ELSE broken
  /\ streak' = IF phase' = "rescue" THEN 0 ELSE streak
  /\ verdict' = IF phase' # "rescue" THEN verdict
                ELSE IF phase = "exit" /\ state = TORN THEN "unreadable" ELSE "none"
  /\ UNCHANGED <<proven, credit, misled>>

HNext == HKexec \/ HRetryFromMenu \/ HSucceed \/ HAuthorize \/ HSelect \/ HOther

HSpec == HInit /\ [][HNext]_hvars

-----------------------------------------------------------------------------
\* README.md: "After `maxRecoveryAttempts` failed rollbacks the failure is
\* final": left to itself, the machine boots at most once more than it may roll
\* back before it stops in the rescue or a boot succeeds (state/decide.rs).
RecoveryBounded == streak <= MaxAttempts + 1

\* docs/nmblctl.md: "the request authorizes one boot", and "reaching the rescue
\* also authorizes one retry": whatever fails or loses power in between, a
\* generation is retried only on an authorization that was not used before.
OneBootPerAuthorization ==
  phase = "commit" /\ pick.by \in {"retry", "exit"} => pick.by \in credit

\* state/io.rs: "a generation in the known-good ring has booted successfully".
RingHasBooted ==
  state # TORN => \A g \in KnownGood(state) \cap OnDisk : links[g] \in proven

\* It has, until the success of a generation booted from the menu is recorded as
\* that of another one.
KnownGoodHasBooted == ~misled => RingHasBooted

\* lib/install-bootloader.nix: "until a boot of it succeeds, NMBL neither
\* instant-boots it nor treats it as known-good".  It does not, until the
\* success of a boot from the menu is recorded as that of another generation.
InstantBootIsProven ==
  phase = "commit" /\ pick.by = "instant" /\ ~misled
    => links[pick.gen] \notin marked \ proven

\* state/decide.rs: "An unproven generation (installed, never booted
\* successfully) is never a rollback target."
RollbackTargetIsProven ==
  phase = "commit" /\ pick.by = "forced" => links[pick.gen] \notin marked \ proven

\* state/types.rs: once the unproven generation has failed a boot, "while it is
\* still the active profile, a healthy boot force-picks the newest known-good
\* generation instead".
FailedUnprovenAvoided ==
  phase = "select" /\ state # TORN /\ state.ok /\ links[active] \in broken
  /\ Usable(state) # {} => decide(state).do = "force"

\* README.md: NMBL "boots a known-good generation from a list of the last 20
\* good generations" until the attempts are used up: it does not give up while
\* one that did not just fail is still on disk.
KnownGoodIsTried ==
  /\ phase = "select" /\ state # TORN /\ ~state.retrying
  /\ state.attempt < MaxAttempts /\ decide(state).do = "exhausted"
  => \A i \in Usable(state) : state.good[i] = state.last

\* docs/nmblctl.md: "If the retried generation fails, the next boot returns to
\* automatic rescue."
RetryFailureIsFinal == verdict = "retried" => phase # "commit"

\* main_parts/stateful.rs: a state.bin that cannot be read is no reason for "a
\* hard rescue"; "the contract is to warn and skip".
UnreadableStateSkipped == verdict # "unreadable"
=============================================================================
