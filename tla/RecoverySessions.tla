-------------------------- MODULE RecoverySessions --------------------------
(***************************************************************************)
(* The recovery runtime: NMBL serves the emergency menu on the boot        *)
(* console and, on a socket, to remote operators, all on one thread.  The  *)
(* menu runs either on the boot console (shell/recovery.rs) or, while a    *)
(* rescue system runs as NMBL's child, for remote operators only           *)
(* (rescue/child.rs).  The first session that produces an action ends the  *)
(* recovery; the others are dropped at whatever await they stand.          *)
(*                                                                         *)
(* A step of a session is one poll of its future, so a step that produces  *)
(* an action also tears the others down: `tokio::select!` and the accept   *)
(* loop do both in the same turn.  The menu that replaces the local one    *)
(* when the server stops early is a session of its own, Fallback: it has a *)
(* fresh App and shares the boot console and the interaction latch.        *)
(***************************************************************************)
EXTENDS Naturals

CONSTANTS
    Local,     \* the menu on the boot console
    Fallback,  \* the menu that replaces it
    Remote     \* the connections a behaviour may see, one session each

ASSUME SessionAssumption ==
    Local # Fallback /\ Local \notin Remote /\ Fallback \notin Remote

Session == Remote \cup {Local, Fallback}

\* The sessions that read the boot console.
Here == {Local, Fallback}

Frame == {"menu", "child"}
Place == {"away", "joining", "menu", "shell", "relay", "retry", "refuse", "over"}
ShellPlace == {"shell", "relay"}
Deadline == {"off", "armed", "past"}
Reason == {"none", "chosen", "timeout", "refused", "lost", "child"}
Outcome == [what : {"none", "reboot", "kexec", "rescue"}, by : Session, why : Reason]

Nothing == [what |-> "none", by |-> Local, why |-> "none"]

VARIABLES
    frame,      \* what hosts the server: the local menu or the rescue child
    server,     \* "serving" while the socket is bound, then "gone"
    at,         \* where each session stands
    seen,       \* each session's interaction latch
    deadline,   \* the automatic reboot of each session's App
    turn,       \* its loop waits for input, or is about to look at the time
    typed,      \* a key waits in the boot console's input queue
    early,      \* a key waited there while the loop waited for input
    stolen,     \* a remote operator's relay read that console's input
    suspended,  \* the boot console is handed to a shell relay
    runs,       \* whether the shell a session started is running
    holds,      \* the terminals of other sessions a shell inherited
    child,      \* the rescue system
    outcome     \* the action the recovery returned

console == <<seen, deadline, turn, typed, early, stolen, suspended>>
shells == <<runs, holds>>
vars == <<frame, server, at, console, shells, child, outcome>>

TypeOK ==
    /\ frame \in Frame
    /\ server \in {"serving", "gone"}
    /\ at \in [Session -> Place]
    /\ seen \in [Session -> BOOLEAN]
    /\ deadline \in [Session -> Deadline]
    /\ turn \in {"poll", "check"}
    /\ typed \in BOOLEAN /\ early \in BOOLEAN
    /\ stolen \in BOOLEAN /\ suspended \in BOOLEAN
    /\ runs \in [Session -> BOOLEAN]
    /\ holds \in [Session -> SUBSET Session]
    /\ child \in {"none", "live", "exited", "gone"}
    /\ outcome \in Outcome

Open == outcome = Nothing
Live(s) == at[s] \notin {"away", "over"}

\* The latch a menu looks at: the fallback menu inherits that of the boot.
Latch(s) == IF s = Fallback THEN Local ELSE s

\* A menu entered unattended waits for its first key.
ArmedLate(s) == "off"

\* What a menu does with its deadline when it is entered.
Armed(s) == IF seen[Latch(s)] THEN "off" ELSE "armed"

To(s, p) == at' = [at EXCEPT ![s] = p]

Dropped == [t \in Session |-> IF Live(t) THEN "over" ELSE at[t]]

-----------------------------------------------------------------------------
\* bind_listener may fail in the first poll: the fallback menu starts at once.
First == IF server = "serving" THEN Local ELSE Fallback

Init ==
    /\ frame \in Frame
    /\ server \in {"serving", "gone"}
    /\ \E before \in BOOLEAN :  \* a key pressed earlier in this boot
          seen = [s \in Session |-> s = Local /\ before]
    /\ at = [s \in Session |-> IF frame = "menu" /\ s = First THEN "menu" ELSE "away"]
    /\ deadline = [s \in Session |->
                     IF frame = "menu" /\ s = First THEN Armed(s) ELSE "off"]
    /\ turn = "poll"
    /\ typed = FALSE /\ early = FALSE /\ stolen = FALSE /\ suspended = FALSE
    /\ runs = [s \in Session |-> FALSE]
    /\ holds = [s \in Session |-> {}]
    /\ child = IF frame = "child" THEN "live" ELSE "none"
    /\ outcome = Nothing

\* A commit that only asks the rescue to stop.
CommitUnwaited(s, what, why) ==
    /\ outcome' = [what |-> what, by |-> s, why |-> why]
    /\ at' = Dropped
    /\ server' = "gone"
    /\ child' = IF frame = "child" THEN "stopped" ELSE child
    /\ UNCHANGED <<frame, console, shells>>

\* A session produces an action: every other session and the server are
\* dropped.  An action committed beside a rescue first stops everything the
\* rescue runs, by a signal to every process.
Commit(s, what, why) ==
    /\ outcome' = [what |-> what, by |-> s, why |-> why]
    /\ at' = Dropped
    /\ server' = "gone"
    /\ IF frame = "child"
       THEN child' = "gone" /\ runs' = [t \in Session |-> FALSE]
       ELSE UNCHANGED <<child, runs>>
    /\ UNCHANGED <<frame, console, holds>>

-----------------------------------------------------------------------------
(* The boot console and its countdown.                                     *)

\* A key arrives; only the first one of a boot matters to the countdown.
Press(s) ==
    /\ Open /\ s \in Here /\ at[s] = "menu"
    /\ ~seen[Local] /\ ~typed
    /\ typed' = TRUE
    /\ early' = (early \/ turn = "poll")
    /\ UNCHANGED <<frame, server, at, seen, deadline, turn, stolen, suspended, shells, child, outcome>>

\* Time passes.
Expire(s) ==
    /\ Open /\ deadline[s] = "armed"
    /\ deadline' = [deadline EXCEPT ![s] = "past"]
    /\ UNCHANGED <<frame, server, at, seen, turn, typed, early, stolen, suspended, shells, child, outcome>>

\* The loop polls input before its timer: the first event sets the latch and
\* cancels the countdown, even when both are ready.
Notice(s) ==
    /\ Open /\ s \in Here /\ at[s] = "menu" /\ turn = "poll" /\ typed
    /\ seen' = [seen EXCEPT ![Latch(s)] = TRUE]
    /\ deadline' = [deadline EXCEPT ![s] = "off"]
    /\ typed' = FALSE
    /\ UNCHANGED <<frame, server, at, turn, early, stolen, suspended, shells, child, outcome>>

\* A slice ends without input: the loop looks at the time.  A key that arrives
\* from here on is too late for a deadline that has passed by then.
Idle(s) ==
    /\ Open /\ s \in Here /\ at[s] = "menu" /\ deadline[s] # "off"
    /\ turn = "poll" /\ ~typed
    /\ turn' = "check"
    /\ UNCHANGED <<frame, server, at, seen, deadline, typed, early, stolen, suspended, shells, child, outcome>>

\* There is time left: the display is drawn and the next slice begins.
Tick(s) ==
    /\ Open /\ s \in Here /\ at[s] = "menu" /\ turn = "check" /\ deadline[s] # "past"
    /\ turn' = "poll"
    /\ early' = (early \/ typed)
    /\ UNCHANGED <<frame, server, at, seen, deadline, typed, stolen, suspended, shells, child, outcome>>

TimeOut(s) ==
    /\ Open /\ at[s] = "menu" /\ deadline[s] = "past"
    /\ s \in Here => turn = "check"
    /\ Commit(s, "reboot", "timeout")

\* A console that cannot draw is taken for the choice to reboot.
ConsoleFails(s) ==
    /\ Open /\ s \in Here /\ at[s] = "menu" /\ suspended
    /\ Commit(s, "reboot", "lost")

-----------------------------------------------------------------------------
(* What an operator who is present chooses, on either kind of console.     *)

Chooses(s) == Open /\ at[s] = "menu" /\ seen[Latch(s)] /\ deadline[s] = "off"

\* A shell is forked on a new terminal: the child closes its own master, and
\* inherits those of the shells that other sessions are showing.
Spawn(s) ==
    /\ runs' = [runs EXCEPT ![s] = TRUE]
    /\ holds' = [holds EXCEPT ![s] = {t \in Session \ {s} : at[t] \in ShellPlace}]

OpenShell(s) ==
    /\ Chooses(s)
    /\ Spawn(s)
    /\ To(s, "shell")
    /\ UNCHANGED <<frame, server, console, child, outcome>>

\* A shell relayed to the boot console's own line: the console is suspended
\* if it is the one the operator sits at.
OpenRelay(s) ==
    /\ Chooses(s)
    /\ Spawn(s)
    /\ To(s, "relay")
    /\ suspended' = (suspended \/ s \in Here)
    /\ UNCHANGED <<frame, server, seen, deadline, turn, typed, early, stolen, child, outcome>>

\* A remote operator's relay reads the same line as the local menu.
Steal(s) ==
    /\ Open /\ s \in Remote /\ at[s] = "relay" /\ typed
    /\ typed' = FALSE
    /\ stolen' = TRUE
    /\ UNCHANGED <<frame, server, at, seen, deadline, turn, early, suspended, shells, child, outcome>>

\* An error path returns before the console is resumed.
CloseShellSuspended(s) ==
    /\ Open /\ at[s] \in ShellPlace
    /\ runs' = [runs EXCEPT ![s] = FALSE]
    /\ holds' = [holds EXCEPT ![s] = {}]
    /\ To(s, "menu")
    /\ UNCHANGED <<frame, server, console, child, outcome>>

\* The shell exits or is quit: it is terminated and reaped, a suspended
\* console is resumed, and the menu comes back.
CloseShell(s) ==
    /\ Open /\ at[s] \in ShellPlace
    /\ runs' = [runs EXCEPT ![s] = FALSE]
    /\ holds' = [holds EXCEPT ![s] = {}]
    /\ suspended' = (suspended /\ ~(s \in Here /\ at[s] = "relay"))
    /\ To(s, "menu")
    /\ UNCHANGED <<frame, server, seen, deadline, turn, typed, early, stolen, child, outcome>>

\* Retry boot or verify: activations, mounts, the scan and the selector.
Retry(s) ==
    /\ Chooses(s)
    /\ To(s, "retry")
    /\ UNCHANGED <<frame, server, console, shells, child, outcome>>

\* The retry fails or is abandoned, or a policy gate refuses it.
RetryEnds(s) ==
    /\ Open /\ at[s] = "retry"
    /\ \E p \in {"menu", "refuse"} : To(s, p)
    /\ UNCHANGED <<frame, server, console, shells, child, outcome>>

RetryBoots(s) == Open /\ at[s] = "retry" /\ Commit(s, "kexec", "chosen")

\* Reboot, from the menu or from the selector of a retry.
Reboot(s) ==
    /\ Chooses(s) \/ (Open /\ at[s] = "retry")
    /\ Commit(s, "reboot", "chosen")

\* The shell needs a seal, and the seal fails.
SealFails(s) ==
    /\ Chooses(s)
    /\ To(s, "refuse")
    /\ UNCHANGED <<frame, server, console, shells, child, outcome>>

\* The countdown of the refusal ends.
Refuse(s) == Open /\ at[s] = "refuse" /\ Commit(s, "rescue", "refused")

-----------------------------------------------------------------------------
(* Remote sessions.                                                        *)

Connect(s) ==
    /\ Open /\ server = "serving" /\ s \in Remote /\ at[s] = "away"
    /\ To(s, "joining")
    /\ UNCHANGED <<frame, server, console, shells, child, outcome>>

\* A remote session that starts unattended, as the local one does.
JoinUnattended(s) ==
    /\ Open /\ s \in Remote /\ at[s] = "joining"
    /\ To(s, "menu")
    /\ deadline' = [deadline EXCEPT ![s] = Armed(s)]
    /\ UNCHANGED <<frame, server, seen, turn, typed, early, stolen, suspended, shells, child, outcome>>

\* Authenticated, sealed, and attended from the start: no countdown is armed.
Join(s) ==
    /\ Open /\ s \in Remote /\ at[s] = "joining"
    /\ To(s, "menu")
    /\ seen' = [seen EXCEPT ![s] = TRUE]
    /\ deadline' = [deadline EXCEPT ![s] = "off"]
    /\ UNCHANGED <<frame, server, turn, typed, early, stolen, suspended, shells, child, outcome>>

\* The client goes away, is rejected, or leaves with Ctrl+E: the future of the
\* session is dropped where it stands, and with it NMBL's end of its terminal.
Leave(s) ==
    /\ Open /\ s \in Remote /\ Live(s)
    /\ To(s, "over")
    /\ UNCHANGED <<frame, server, console, shells, child, outcome>>

\* A fallback menu that starts with a session of its own.
AcceptDiesAfresh ==
    /\ Open /\ server = "serving"
    /\ server' = "gone"
    /\ IF frame = "menu"
       THEN /\ at' = [Dropped EXCEPT ![Fallback] = "menu"]
            /\ deadline' = [deadline EXCEPT ![Local] = "off", ![Fallback] = "armed"]
            /\ turn' = "poll" /\ early' = (early \/ typed)
       ELSE at' = Dropped /\ UNCHANGED <<deadline, turn, early>>
    /\ UNCHANGED <<frame, seen, typed, stolen, suspended, shells, child, outcome>>

\* accept fails for good (no descriptors are left): the server returns without
\* an action, which drops every remote session.  Beside a rescue the child is
\* still waited for; on the boot console the local menu is dropped too and a
\* new one takes over.  Its countdown is longer than its first drawing.
AcceptDies ==
    /\ Open /\ server = "serving"
    /\ server' = "gone"
    /\ IF frame = "menu"
       THEN /\ at' = [Dropped EXCEPT ![Fallback] = "menu"]
            /\ deadline' = [deadline EXCEPT ![Local] = "off", ![Fallback] = Armed(Fallback)]
            /\ turn' = "poll" /\ early' = (early \/ typed)
       ELSE at' = Dropped /\ UNCHANGED <<deadline, turn, early>>
    /\ UNCHANGED <<frame, seen, typed, stolen, suspended, shells, child, outcome>>

-----------------------------------------------------------------------------
(* The processes.                                                          *)

ChildExits ==
    /\ Open /\ child = "live"
    /\ child' = "exited"
    /\ UNCHANGED <<frame, server, at, console, shells, outcome>>

\* The poller's wait for the child resolves, before anything the server does.
Reap == Open /\ child = "exited" /\ Commit(Local, "reboot", "child")

\* A shell that nobody shows any more ends: by itself or hung up.
ShellEnds(s) ==
    /\ Open /\ runs[s] /\ at[s] \notin ShellPlace
    /\ runs' = [runs EXCEPT ![s] = FALSE]
    /\ holds' = [holds EXCEPT ![s] = {}]
    /\ UNCHANGED <<frame, server, at, console, child, outcome>>

Finished == ~Open /\ UNCHANGED vars

Step(s) ==
    \/ Press(s) \/ Expire(s) \/ Notice(s) \/ Idle(s) \/ Tick(s) \/ TimeOut(s) \/ ConsoleFails(s)
    \/ OpenShell(s) \/ OpenRelay(s) \/ Steal(s) \/ CloseShell(s)
    \/ Retry(s) \/ RetryEnds(s) \/ RetryBoots(s) \/ Reboot(s)
    \/ SealFails(s) \/ Refuse(s)
    \/ Connect(s) \/ Join(s) \/ Leave(s) \/ ShellEnds(s)

Next == AcceptDies \/ ChildExits \/ Reap \/ Finished \/ \E s \in Session : Step(s)

\* The runtime polls every ready future and time passes.  Nothing is assumed
\* of operators, of their connections or of the rescue.
Fairness ==
    /\ WF_vars(Reap)
    /\ \A s \in Session :
         /\ WF_vars(Expire(s)) /\ WF_vars(Notice(s)) /\ WF_vars(TimeOut(s))
         /\ WF_vars(Idle(s)) /\ WF_vars(Tick(s)) /\ WF_vars(Refuse(s))

Spec == Init /\ [][Next]_vars
FairSpec == Spec /\ Fairness

-----------------------------------------------------------------------------
(* Properties.                                                             *)

\* A key that waits while the boot console's menu waits for input is never
\* followed by the countdown's reboot, whatever the order of the two events in
\* the loop and whichever menu the console shows by then, unless a relay of a
\* remote operator read the key (loop_driver.rs, recovery.rs).
KeyStopsCountdown == outcome.why = "timeout" => ~early \/ stolen

\* The same without the exception, as console/latch.rs puts it.
EveryKeyStopsCountdown == outcome.why = "timeout" => ~early

\* A remote session ends the recovery only by what its operator chose, or by
\* a refusal: never by a countdown or because its client went away
\* (serve_session and run_remote_menu in ui/remote/mod.rs).
RemoteOnlyByChoice == outcome.by \in Remote => outcome.why \in {"chosen", "refused"}

\* Whenever the local menu is shown, NMBL holds the boot console: it is not
\* left with a shell that is gone (run_relay in ui/console_relay/mod.rs).
ConsoleResumed == at[Local] = "menu" => ~suspended

\* The same of the menu that takes over: "the local operator still has a
\* working recovery UI" (recovery.rs).
FallbackHasConsole == at[Fallback] = "menu" => ~suspended

\* A shell whose session is over has been hung up: no process keeps the other
\* end of its terminal open (the clean-up on drop of sys/pty/child.rs).
ShellsHungUp ==
    \A s \in Session : runs[s] /\ at[s] \notin ShellPlace =>
        \A t \in Session : runs[t] => s \notin holds[t]

\* A refusal ends in the reboot into the rescue, or in another session's
\* action; it is never abandoned (run_retry_boot_arm in shell/dispatch.rs).
RefusalsEnd ==
    [][\A s \in Session : at[s] = "refuse" /\ at'[s] = "over" => outcome' # Nothing]_vars

\* A machine on which nobody ever presses a key reboots, whatever remote
\* operators do and whether or not the server lives; and a rescue that exits
\* is followed by its reboot.
RecoveryEnds ==
    /\ frame = "menu" /\ [](~seen[Local] /\ ~typed) => <>(outcome # Nothing)
    /\ child = "exited" ~> outcome # Nothing
=============================================================================
