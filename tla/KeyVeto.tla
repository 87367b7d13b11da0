------------------------------ MODULE KeyVeto ------------------------------
(* The keys that an operator presses between the start of NMBL and the boot *)
(* of a generation, and what may start that boot: the instant boot, the     *)
(* passphrase prompt that skips the selector, the countdown, the operator.  *)
(*                                                                          *)
(* A key waits in the line discipline (`queue`) until someone reads it: the *)
(* early tap, which drains it at two points of the boot (early_key_tap.rs), *)
(* or a poll of the session's console, which latches presence on the first  *)
(* event and keeps that event for the poll after it (console/latch.rs).     *)
(* The backend is a tty; resizes and wheel notches are left out.            *)
EXTENDS Naturals, Sequences

CONSTANTS
  MaxKeys,      \* keys the operator presses
  MaxVolumes    \* activations of the configuration, at most

ASSUME MaxKeysAssumption == MaxKeys \in Nat
ASSUME MaxVolumesAssumption == MaxVolumes \in Nat

VARIABLES
  pc,        \* where the boot is
  eligible,  \* the health of the last boot allows an instant boot
  volumes,   \* activations still to be run
  left,      \* keys not yet pressed
  queue,     \* keys in the line discipline
  tap,       \* LATCHED of the early tap
  latched,   \* the session's interaction latch
  pending,   \* the first event, kept behind the notice
  box,       \* the prompt's "Select NixOS Generation" box
  filled,    \* the prompt's buffer is not empty
  skip,      \* the skip-selector latch
  how,       \* what started the boot
  log,       \* history: keys pressed since the tap was closed
  given,     \* history: keys handed to a screen
  read,      \* history: some key was read
  early,     \* history: a key was pressed before the tap was closed
  wanted     \* history: a volume was opened with the box checked

vars == <<pc, eligible, volumes, left, queue, tap, latched, pending, box, filled,
          skip, how, log, given, read, early, wanted>>
console == <<latched, pending, given>>
prompt == <<box, filled, skip, wanted>>
fixed == <<eligible, left, log, early>>

Keys == {"enter", "esc", "ctrlg", "char"}
Before == {"early", "drivers", "opened"}
Ended == {"booted", "left"}
Polling == {"wait", "prompt", "verify", "wrong", "countdown", "menu"}
UpTo(S, n) == UNION {[1..i -> S] : i \in 0..n}

TypeOK ==
  /\ pc \in Before \cup Polling \cup Ended \cup {"scan"}
  /\ volumes \in 0..MaxVolumes /\ left \in 0..MaxKeys
  /\ {eligible, tap, latched, box, filled, skip, read, early, wanted} \subseteq BOOLEAN
  /\ queue \in UpTo(Keys, MaxKeys) /\ log \in UpTo(Keys, MaxKeys)
  /\ given \in UpTo(Keys, MaxKeys) /\ pending \in UpTo(Keys, 1)
  /\ how \in {"none", "instant", "skip", "countdown", "operator"}
  /\ (how # "none") = (pc = "booted")

Init ==
  /\ pc = "early" /\ left = MaxKeys /\ how = "none"
  /\ eligible \in BOOLEAN /\ volumes \in 0..MaxVolumes
  /\ queue = <<>> /\ pending = <<>> /\ log = <<>> /\ given = <<>>
  /\ tap = FALSE /\ latched = FALSE /\ read = FALSE /\ early = FALSE
  /\ box = FALSE /\ filled = FALSE /\ skip = FALSE /\ wanted = FALSE

----------------------------------------------------------------------------
(* The operator *)

Press(k) ==
  /\ left > 0 /\ pc \notin Ended
  /\ left' = left - 1 /\ queue' = Append(queue, k)
  /\ log' = IF pc \in Before THEN log ELSE Append(log, k)
  /\ early' = (early \/ pc \in Before)
  /\ UNCHANGED <<pc, eligible, volumes, tap, console, prompt, how, read>>

----------------------------------------------------------------------------
(* Before the session *)

Drain ==
  /\ tap' = (tap \/ queue # <<>>) /\ read' = (read \/ queue # <<>>)
  /\ queue' = <<>>

(* The phases before the driver images, then the poll that ends them. *)
TapPoll ==
  /\ pc = "early" /\ pc' = "drivers"
  /\ Drain
  /\ UNCHANGED <<fixed, volumes, console, prompt, how>>

(* Raw mode is set with TCSAFLUSH: what arrived since the poll is discarded. *)
OpenConsole ==
  /\ pc = "drivers" /\ pc' = "opened"
  /\ queue' = <<>>
  /\ UNCHANGED <<fixed, volumes, tap, console, prompt, how, read>>

DisarmForgets ==
  /\ pc = "opened" /\ pc' = "wait"
  /\ queue' = <<>> /\ tap' = FALSE /\ read' = (read \/ queue # <<>>)
  /\ UNCHANGED <<fixed, volumes, console, prompt, how>>
(* The tap drains once more and is closed; its flag stays. *)
Disarm ==
  /\ pc = "opened" /\ pc' = "wait"
  /\ Drain
  /\ UNCHANGED <<fixed, volumes, console, prompt, how>>

(* An error of a phase, a refused driver image, or no console. *)
Fail ==
  /\ pc \in {"early", "drivers", "wait", "verify", "scan"} /\ pc' = "left"
  /\ UNCHANGED <<fixed, volumes, queue, tap, console, prompt, how, read>>

----------------------------------------------------------------------------
(* Reading the session's console *)

NoticeDrops ==
  /\ pc \in Polling /\ ~latched /\ queue # <<>>
  /\ latched' = TRUE /\ read' = TRUE
  /\ queue' = Tail(queue)
  /\ pc' = IF pc = "countdown" THEN "menu" ELSE pc
  /\ UNCHANGED <<fixed, volumes, tap, pending, given, prompt, how>>
(* The first event of the session: presence is latched, the event is kept,  *)
(* and the screen gets a notice, which only a countdown acts on.            *)
Notice ==
  /\ pc \in Polling /\ ~latched /\ queue # <<>>
  /\ latched' = TRUE /\ read' = TRUE
  /\ pending' = <<Head(queue)>> /\ queue' = Tail(queue)
  /\ pc' = IF pc = "countdown" THEN "menu" ELSE pc
  /\ UNCHANGED <<fixed, volumes, tap, given, prompt, how>>

(* A later poll hands a key to the screen, the kept one first. *)
Take(k) ==
  /\ latched /\ read' = TRUE /\ UNCHANGED latched
  /\ \/ pending = <<k>> /\ pending' = <<>> /\ UNCHANGED queue
     \/ pending = <<>> /\ queue # <<>> /\ k = Head(queue)
        /\ queue' = Tail(queue) /\ UNCHANGED pending
  /\ given' = Append(given, k)

----------------------------------------------------------------------------
(* Phase 3: devices and volumes *)

(* One tick of a wait: Esc aborts it, every other key is absorbed. *)
Tick(k) ==
  /\ pc = "wait" /\ Take(k)
  /\ pc' = IF k = "esc" THEN "left" ELSE pc
  /\ UNCHANGED <<fixed, volumes, tap, prompt, how>>

(* The device is there: the next activation asks, or runs without asking. *)
Activate ==
  /\ pc = "wait" /\ volumes > 0
  /\ pc' \in {"prompt", "verify"}
  /\ box' = FALSE /\ filled' = FALSE
  /\ UNCHANGED <<fixed, volumes, queue, tap, console, skip, wanted, how, read>>

(* A key at the prompt. Enter with an empty buffer is ignored; a submission *)
(* records the box and leaves the prompt.                                   *)
Prompt(k) ==
  /\ pc = "prompt" /\ Take(k)
  /\ box' = (box # (k = "ctrlg")) /\ filled' = (filled \/ k = "char")
  /\ LET submits == k = "enter" /\ filled IN
     /\ skip' = IF submits THEN ~box ELSE skip
     /\ pc' = IF submits THEN "verify" ELSE IF k = "esc" THEN "left" ELSE pc
  /\ UNCHANGED <<fixed, volumes, tap, wanted, how>>

(* While the tool runs, keys are read and lead nowhere. *)
Verify(k) ==
  /\ pc = "verify" /\ Take(k)
  /\ UNCHANGED <<pc, fixed, volumes, tap, prompt, how>>

VolumeOpens ==
  /\ pc = "verify" /\ volumes > 0
  /\ pc' = "wait" /\ volumes' = volumes - 1
  /\ wanted' = (wanted \/ box)
  /\ UNCHANGED <<fixed, queue, tap, console, box, filled, skip, how, read>>

WrongPassword ==
  /\ pc = "verify" /\ filled /\ pc' = "wrong"
  /\ UNCHANGED <<fixed, volumes, queue, tap, console, prompt, how, read>>

(* The modal: try again, a shell or a reboot, or a key that means nothing. *)
WrongModal(k) ==
  /\ pc = "wrong" /\ Take(k)
  /\ pc' \in {"wrong", "prompt", "left"}
  /\ box' = FALSE /\ filled' = FALSE
  /\ UNCHANGED <<fixed, volumes, tap, skip, wanted, how>>

PhasesEnd ==
  /\ pc = "wait" /\ volumes = 0 /\ pc' = "scan"
  /\ UNCHANGED <<fixed, volumes, queue, tap, console, prompt, how, read>>

----------------------------------------------------------------------------
(* Phases 4 and 5: what is booted, and when *)

Boot(h) == pc' = "booted" /\ how' = h

(* decide_instant_boot, after everything about health. *)
Instant == eligible /\ ~(tap \/ latched)

DecideTapAsks ==
  /\ pc = "scan"
  /\ \/ Instant /\ Boot("instant")
     \/ skip /\ ~Instant /\ Boot("skip")
     \/ ~skip /\ ~Instant /\ UNCHANGED how
        /\ pc' = IF latched \/ tap THEN "menu" ELSE "countdown"
  /\ UNCHANGED <<fixed, volumes, queue, tap, console, prompt, read>>
(* The decision reads both flags and polls nothing. Only an unattended      *)
(* session counts down; any other waits for the operator.                   *)
Decide ==
  /\ pc = "scan"
  /\ \/ Instant /\ Boot("instant")
     \/ skip /\ ~Instant /\ Boot("skip")
     \/ ~skip /\ ~Instant /\ UNCHANGED how
        /\ pc' = IF latched THEN "menu" ELSE "countdown"
  /\ UNCHANGED <<fixed, volumes, queue, tap, console, prompt, read>>

(* The deadline is looked at before the console is polled, so a key may be  *)
(* waiting when it passes.                                                  *)
Expire ==
  /\ pc = "countdown" /\ Boot("countdown")
  /\ UNCHANGED <<fixed, volumes, queue, tap, console, prompt, read>>

MenuStays(k) ==
  /\ pc = "menu" /\ Take(k)
  /\ \/ k = "enter" /\ how' = "operator" /\ UNCHANGED pc
     \/ k = "char" /\ pc' = "left" /\ UNCHANGED how
     \/ k # "enter" /\ UNCHANGED <<pc, how>>
  /\ UNCHANGED <<fixed, volumes, tap, prompt>>
(* The list: Enter boots, a letter may move, edit, ask for the shell or     *)
(* reboot.                                                                  *)
Menu(k) ==
  /\ pc = "menu" /\ Take(k)
  /\ \/ k = "enter" /\ Boot("operator")
     \/ k = "char" /\ pc' = "left" /\ UNCHANGED how
     \/ k # "enter" /\ UNCHANGED <<pc, how>>
  /\ UNCHANGED <<fixed, volumes, tap, prompt>>

Program ==
  \/ TapPoll \/ OpenConsole \/ Disarm \/ Fail \/ Notice
  \/ Activate \/ VolumeOpens \/ WrongPassword \/ PhasesEnd \/ Decide \/ Expire
  \/ \E k \in Keys : Tick(k) \/ Prompt(k) \/ Verify(k) \/ WrongModal(k) \/ Menu(k)
Next == Program \/ \E k \in Keys : Press(k)
Spec == Init /\ [][Next]_vars
(* The one thread runs on: no step of it waits for anything but a key. *)
FairSpec == Spec /\ WF_vars(Program)

----------------------------------------------------------------------------
(* A key that anything has read, before or after the console came up, keeps *)
(* the instant boot away: the tap's flag outlives its descriptor, and the   *)
(* session's latch outlives the screen that read the key. The countdown     *)
(* boots only if no key reached the console; one that was read on any       *)
(* earlier screen means that the selector waits.                            *)
ReadKeyVetoes ==
  /\ how = "instant" => ~read
  /\ how = "countdown" => given \o pending = <<>> /\ ~latched

(* From the moment the tap is closed, no key is lost or overtaken by        *)
(* another on its way to a screen, whichever screens come and go: the first *)
(* one waits behind the notice.                                             *)
KeysKept == pc \notin Before \cup {"left"} => given \o pending \o queue = log

(* Without an operator the machine does not stay in the boot loader, unless *)
(* it needs a passphrase: only a key at the console ends the countdown.     *)
UnattendedBoots == <>(pc \in Ended \/ pc = "prompt" \/ latched)

(* What instant_boot.rs:29-32 says, for the part before the console: a      *)
(* single key anywhere between stage 0 and the selector cancels the instant *)
(* boot.                                                                    *)
EarlyKeyVetoes == how = "instant" => ~early

(* What the dispatch says of the box (dispatch.rs:88-89): a checked         *)
(* submission falls through to the selector.                                *)
CheckedShowsSelector == how = "skip" => ~wanted
=============================================================================
