----------------------- MODULE RecoverySessions_proofs -----------------------
(***************************************************************************)
(* Proofs about the recovery runtime, for any set of remote connections.   *)
(* The invariant says who may own the boot console: while the server       *)
(* lives the fallback menu does not exist, once it exists the local menu   *)
(* is gone, and a key that was noticed left no deadline in either of them. *)
(***************************************************************************)
EXTENDS RecoverySessions, TLAPS

\* A menu that reads no boot console never has a deadline.
OnlyHere == \A s \in Remote : deadline[s] = "off"

\* A key pressed in time was noticed or stolen, or it is still queued and the
\* loop has not stopped waiting for input.
KeyKept == early => (typed /\ turn = "poll") \/ stolen \/ seen[Local]

\* Noticing the first key ends both countdowns.
NoticedStops == seen[Local] => deadline[Local] = "off" /\ deadline[Fallback] = "off"

\* The menu that takes over appears only after the server and the local menu
\* are gone.
OneMenu ==
    /\ server = "serving" => at[Fallback] = "away"
    /\ at[Fallback] = "away" => deadline[Fallback] = "off"
    /\ at[Fallback] # "away" => deadline[Local] = "off" /\ at[Local] \in {"over", "away"}

\* The console is suspended only while the session that did it is away from
\* its menu.
SuspendedAway == suspended => at[Local] \in {"relay", "over", "away"}

IInv ==
    /\ TypeOK
    /\ OnlyHere
    /\ KeyKept
    /\ NoticedStops
    /\ OneMenu
    /\ SuspendedAway
    /\ KeyStopsCountdown
    /\ RemoteOnlyByChoice

-----------------------------------------------------------------------------
(* Types *)

\* Before anything happens the state is well typed and nobody has acted.
LEMMA InitInv == Init => IInv
<1>. SUFFICES ASSUME Init PROVE IInv
  OBVIOUS
<1>. USE SessionAssumption
<1>1. TypeOK
  BY DEF Init, TypeOK, Session, Here, Frame, Place, Deadline, Outcome, Reason,
         Nothing, First, Armed, Latch
<1>2. OnlyHere /\ KeyKept /\ SuspendedAway /\ KeyStopsCountdown /\ RemoteOnlyByChoice
  BY DEF Init, OnlyHere, KeyKept, SuspendedAway, KeyStopsCountdown, RemoteOnlyByChoice,
         Session, Nothing, First
<1>3. NoticedStops
  BY DEF Init, NoticedStops, Session, First, Armed, Latch
<1>4. OneMenu
  BY DEF Init, OneMenu, Session, First
<1>. QED
  BY <1>1, <1>2, <1>3, <1>4 DEF IInv

\* An action that is committed leaves a well-typed state.
LEMMA CommitType ==
  ASSUME TypeOK, NEW s \in Session,
         NEW what \in {"none", "reboot", "kexec", "rescue"}, NEW why \in Reason,
         Commit(s, what, why)
  PROVE  TypeOK'
<1>1. at' \in [Session -> Place]
  BY DEF TypeOK, Commit, Dropped, Live, Place
<1>2. outcome' \in Outcome
  BY DEF Commit, Outcome
<1>3. child' \in {"none", "live", "exited", "gone"} /\ runs' \in [Session -> BOOLEAN]
  BY DEF TypeOK, Commit
<1>4. UNCHANGED <<frame, seen, deadline, turn, typed, early, stolen, suspended, holds>>
      /\ server' = "gone"
  BY DEF Commit, console
<1>. QED
  BY <1>1, <1>2, <1>3, <1>4 DEF TypeOK

\* Every step keeps the types.
LEMMA NextType ==
  ASSUME TypeOK, [Next]_vars
  PROVE  TypeOK'
<1>. USE SessionAssumption
<1>1. CASE AcceptDies
  <2>1. at' \in [Session -> Place]
    BY <1>1 DEF TypeOK, AcceptDies, Dropped, Live, Place, Session
  <2>2. deadline' \in [Session -> Deadline]
    BY <1>1 DEF TypeOK, AcceptDies, Armed, Deadline, Session
  <2>. QED
    BY <1>1, <2>1, <2>2 DEF TypeOK, AcceptDies, shells
<1>2. CASE ChildExits
  BY <1>2 DEF TypeOK, ChildExits, console, shells
<1>3. CASE Reap
  BY <1>3, CommitType DEF Reap, Session, Reason
<1>4. CASE Finished \/ UNCHANGED vars
  BY <1>4 DEF Finished, TypeOK, vars, console, shells
<1>5. ASSUME NEW s \in Session, Step(s)
      PROVE  TypeOK'
  <2>1. CASE TimeOut(s) \/ ConsoleFails(s) \/ RetryBoots(s) \/ Reboot(s) \/ Refuse(s)
    BY <2>1, CommitType DEF TimeOut, ConsoleFails, RetryBoots, Reboot, Refuse, Reason
  <2>9. CASE Press(s)
    <3>1. typed' \in BOOLEAN /\ early' \in BOOLEAN
      BY <2>9 DEF Press, TypeOK
    <3>. QED
      BY <2>9, <3>1 DEF Press, TypeOK, shells
  <2>2. CASE Expire(s)
    BY <2>2 DEF Expire, TypeOK, Deadline, shells
  <2>10. CASE Notice(s)
    <3>1. seen' \in [Session -> BOOLEAN] /\ deadline' \in [Session -> Deadline]
      BY <2>10 DEF Notice, TypeOK, Deadline, Latch, Session
    <3>. QED
      BY <2>10, <3>1 DEF Notice, TypeOK, shells
  <2>8. CASE Idle(s) \/ Tick(s)
    <3>1. turn' \in {"poll", "check"} /\ early' \in BOOLEAN
      BY <2>8 DEF Idle, Tick, TypeOK
    <3>. QED
      BY <2>8, <3>1 DEF Idle, Tick, TypeOK, shells
  <2>3. CASE OpenShell(s) \/ OpenRelay(s)
    <3>1. runs' \in [Session -> BOOLEAN] /\ holds' \in [Session -> SUBSET Session]
      <4>. DEFINE T == {t \in Session \ {s} : at[t] \in ShellPlace}
      <4>1. T \in SUBSET Session
        OBVIOUS
      <4>2. runs' = [runs EXCEPT ![s] = TRUE] /\ holds' = [holds EXCEPT ![s] = T]
        BY <2>3 DEF OpenShell, OpenRelay, Spawn
      <4>. HIDE DEF T
      <4>. QED
        BY <4>1, <4>2 DEF TypeOK
    <3>2. at' \in [Session -> Place]
      BY <2>3 DEF OpenShell, OpenRelay, To, TypeOK, Place
    <3>. QED
      BY <2>3, <3>1, <3>2 DEF OpenShell, OpenRelay, TypeOK, console
  <2>4. CASE CloseShell(s) \/ ShellEnds(s)
    <3>1. runs' \in [Session -> BOOLEAN] /\ holds' \in [Session -> SUBSET Session]
      BY <2>4 DEF CloseShell, ShellEnds, TypeOK
    <3>2. at' \in [Session -> Place]
      BY <2>4 DEF CloseShell, ShellEnds, To, TypeOK, Place
    <3>. QED
      BY <2>4, <3>1, <3>2 DEF CloseShell, ShellEnds, TypeOK, console
  <2>5. CASE Steal(s)
    BY <2>5 DEF Steal, TypeOK, shells
  <2>6. CASE Retry(s) \/ RetryEnds(s) \/ SealFails(s) \/ Connect(s) \/ Leave(s)
    BY <2>6 DEF Retry, RetryEnds, SealFails, Connect, Leave, To, TypeOK, Place,
                console, shells
  <2>7. CASE Join(s)
    BY <2>7 DEF Join, To, TypeOK, Place, Deadline, shells
  <2>. QED
    BY <1>5, <2>1, <2>2, <2>3, <2>4, <2>5, <2>6, <2>7, <2>8, <2>9,
       <2>10 DEF Step
<1>. QED
  BY <1>1, <1>2, <1>3, <1>4, <1>5 DEF Next

-----------------------------------------------------------------------------
(* The boot console *)

\* Whatever ends the recovery, dropping the other sessions keeps the invariant
\* as long as the end itself is one the invariant allows.
LEMMA CommitKeeps ==
  ASSUME IInv, NEW s \in Session,
         NEW what \in {"none", "reboot", "kexec", "rescue"}, NEW why \in Reason,
         Commit(s, what, why),
         why = "timeout" => ~early \/ stolen,
         s \in Remote => why \in {"chosen", "refused"}
  PROVE  IInv'
<1>. USE SessionAssumption
<1>1. TypeOK'
  BY CommitType DEF IInv
<1>2. UNCHANGED <<seen, deadline, turn, typed, early, stolen, suspended>>
      /\ server' = "gone"
      /\ \A t \in Session : at'[t] = IF Live(t) THEN "over" ELSE at[t]
  BY DEF Commit, console, Dropped
<1>3. OnlyHere' /\ KeyKept' /\ NoticedStops'
  BY <1>2 DEF IInv, OnlyHere, KeyKept, NoticedStops
<1>4. OneMenu'
  BY <1>2 DEF IInv, OneMenu, Live, Session
<1>5. SuspendedAway'
  BY <1>2 DEF IInv, SuspendedAway, Live, Session
<1>6. KeyStopsCountdown' /\ RemoteOnlyByChoice'
  BY <1>2 DEF Commit, KeyStopsCountdown, RemoteOnlyByChoice
<1>. QED
  BY <1>1, <1>3, <1>4, <1>5, <1>6 DEF IInv

\* A session that moves and touches nothing else keeps the invariant, as long
\* as no local menu comes back and the console is not left behind.
LEMMA MoveKeeps ==
  ASSUME IInv, TypeOK', NEW s \in Session, NEW p \in Place \ {"away"}, To(s, p),
         at[s] = "away" => s \in Remote, at[s] # "over",
         UNCHANGED <<server, seen, deadline, turn, typed, early, stolen, outcome>>,
         SuspendedAway'
  PROVE  IInv'
<1>. USE SessionAssumption
<1>1. \A t \in Session : at'[t] = IF t = s THEN p ELSE at[t]
  BY DEF To, IInv, TypeOK
<1>2. OnlyHere' /\ KeyKept' /\ NoticedStops' /\ KeyStopsCountdown' /\ RemoteOnlyByChoice'
  BY DEF IInv, OnlyHere, KeyKept, NoticedStops, KeyStopsCountdown, RemoteOnlyByChoice
<1>3. OneMenu'
  BY <1>1 DEF IInv, OneMenu, Session
<1>. QED
  BY <1>2, <1>3 DEF IInv

\* Every step keeps the invariant.
LEMMA NextInv ==
  ASSUME IInv, [Next]_vars
  PROVE  IInv'
<1>. USE SessionAssumption
<1>0. TypeOK /\ TypeOK'
  BY NextType DEF IInv
<1>1. CASE AcceptDies
  <2>1. /\ UNCHANGED <<seen, typed, stolen, suspended, outcome>> /\ server' = "gone"
        /\ server = "serving" /\ at[Fallback] = "away" /\ deadline[Fallback] = "off"
    BY <1>1 DEF AcceptDies, IInv, OneMenu
  <2>2. CASE frame = "menu"
    <3>1. /\ at'[Fallback] = "menu"
          /\ at'[Local] = IF Live(Local) THEN "over" ELSE at[Local]
      BY <1>0, <1>1, <2>2 DEF AcceptDies, Dropped, Session, TypeOK
    <3>2. /\ deadline'[Local] = "off"
          /\ deadline'[Fallback] = Armed(Fallback)
          /\ \A t \in Remote : deadline'[t] = deadline[t]
          /\ turn' = "poll" /\ (early' => early \/ typed)
      BY <1>0, <1>1, <2>2 DEF AcceptDies, Session, TypeOK
    <3>3. OnlyHere' /\ KeyKept'
      BY <2>1, <3>2 DEF IInv, OnlyHere, KeyKept
    <3>5. KeyStopsCountdown' /\ RemoteOnlyByChoice'
      BY <1>1, <2>1 DEF AcceptDies, Open, Nothing, KeyStopsCountdown, IInv, RemoteOnlyByChoice
    <3>4. NoticedStops' /\ OneMenu' /\ SuspendedAway'
      BY <2>1, <3>1, <3>2 DEF IInv, NoticedStops, OneMenu, SuspendedAway, Armed, Latch, Live
    <3>. QED
      BY <1>0, <3>3, <3>4, <3>5 DEF IInv
  <2>3. CASE frame # "menu"
    <3>1. /\ UNCHANGED <<deadline, turn, early>>
          /\ \A t \in Session : at'[t] = IF Live(t) THEN "over" ELSE at[t]
      BY <1>1, <2>3 DEF AcceptDies, Dropped
    <3>2. OnlyHere' /\ KeyKept' /\ KeyStopsCountdown' /\ RemoteOnlyByChoice' /\ NoticedStops'
      BY <2>1, <3>1 DEF IInv, OnlyHere, KeyKept, KeyStopsCountdown, RemoteOnlyByChoice,
         NoticedStops
    <3>3. OneMenu' /\ SuspendedAway'
      BY <2>1, <3>1 DEF IInv, OneMenu, SuspendedAway, Live, Session
    <3>. QED
      BY <1>0, <3>2, <3>3 DEF IInv
  <2>. QED
    BY <2>2, <2>3
<1>2. CASE ChildExits \/ Finished \/ UNCHANGED vars
  <2>1. UNCHANGED <<server, at, console, outcome>>
    BY <1>2 DEF ChildExits, Finished, vars
  <2>. QED
    BY <1>0, <2>1 DEF IInv, console, OnlyHere, KeyKept, NoticedStops, OneMenu,
                      SuspendedAway, KeyStopsCountdown, RemoteOnlyByChoice
<1>3. CASE Reap
  BY <1>3, CommitKeeps DEF Reap, Session, Reason
<1>4. ASSUME NEW s \in Session, Step(s)
      PROVE  IInv'
  <2>1. CASE TimeOut(s)
    <3>1. deadline[s] = "past" /\ s \notin Remote
      BY <2>1 DEF TimeOut, IInv, OnlyHere
    <3>2. s \in Here /\ turn # "poll"
      BY <2>1, <3>1 DEF TimeOut, Session, Here
    <3>3. ~early \/ stolen
      BY <3>1, <3>2 DEF IInv, KeyKept, NoticedStops, Here
    <3>. QED
      BY <2>1, <3>1, <3>3, CommitKeeps DEF TimeOut, Reason
  <2>2. CASE ConsoleFails(s) \/ RetryBoots(s) \/ Reboot(s) \/ Refuse(s)
    BY <2>2, CommitKeeps DEF ConsoleFails, RetryBoots, Reboot, Refuse, Reason, Here
  <2>3. CASE Press(s)
    BY <1>0, <2>3 DEF Press, IInv, OnlyHere, KeyKept, NoticedStops, OneMenu, SuspendedAway,
                      KeyStopsCountdown, RemoteOnlyByChoice, shells, Open, Nothing
  <2>11. CASE Idle(s) \/ Tick(s)
    <3>1. /\ UNCHANGED <<server, at, seen, deadline, typed, stolen, suspended, outcome>>
          /\ Open
      BY <2>11 DEF Idle, Tick
    <3>2. KeyKept'
      <4>1. CASE Idle(s)
        BY <4>1 DEF Idle, IInv, KeyKept
      <4>2. CASE Tick(s)
        <5>1. turn = "check" /\ turn' = "poll" /\ (early' => early \/ typed)
          BY <4>2 DEF Tick
        <5>. QED
          BY <3>1, <5>1 DEF IInv, KeyKept
      <4>. QED
        BY <2>11, <4>1, <4>2
    <3>3. OnlyHere' /\ NoticedStops' /\ OneMenu' /\ SuspendedAway'
      BY <3>1 DEF IInv, OnlyHere, NoticedStops, OneMenu, SuspendedAway
    <3>4. KeyStopsCountdown' /\ RemoteOnlyByChoice'
      BY <3>1 DEF IInv, Open, Nothing, KeyStopsCountdown, RemoteOnlyByChoice
    <3>. QED
      BY <1>0, <3>2, <3>3, <3>4 DEF IInv
  <2>4. CASE Expire(s)
    <3>1. /\ UNCHANGED <<server, at, seen, turn, typed, early, stolen, suspended, outcome>>
          /\ deadline[s] = "armed" /\ deadline' = [deadline EXCEPT ![s] = "past"]
      BY <2>4 DEF Expire
    <3>2. \A t \in Session : deadline[t] = "off" => deadline'[t] = "off"
      BY <1>0, <3>1 DEF TypeOK
    <3>3. /\ OnlyHere' /\ KeyKept' /\ NoticedStops'
          /\ SuspendedAway' /\ KeyStopsCountdown' /\ RemoteOnlyByChoice'
      BY <3>1, <3>2 DEF IInv, OnlyHere, KeyKept, NoticedStops, SuspendedAway,
         KeyStopsCountdown,
                        RemoteOnlyByChoice, Session
    <3>4. OneMenu'
      BY <3>1, <3>2 DEF IInv, OneMenu, Session
    <3>. QED
      BY <1>0, <3>3, <3>4 DEF IInv
  <2>5. CASE Notice(s)
    <3>1. /\ UNCHANGED <<server, at, early, stolen, suspended, outcome>>
          /\ s \in Here /\ at[s] = "menu" /\ Latch(s) = Local
      BY <2>5 DEF Notice, Here, Latch
    <3>2. deadline'[Local] = "off" /\ deadline'[Fallback] = "off" /\ seen'[Local]
      BY <1>0, <2>5, <3>1 DEF Notice, IInv, OneMenu, TypeOK, Session, Here
    <3>3. \A t \in Remote : deadline'[t] = deadline[t]
      BY <1>0, <2>5, <3>1 DEF Notice, TypeOK, Session, Here
    <3>4. /\ OnlyHere' /\ KeyKept' /\ NoticedStops'
          /\ SuspendedAway' /\ KeyStopsCountdown' /\ RemoteOnlyByChoice'
      BY <3>1, <3>2, <3>3 DEF IInv, OnlyHere, KeyKept, NoticedStops, SuspendedAway,
                              KeyStopsCountdown, RemoteOnlyByChoice
    <3>5. OneMenu'
      BY <3>1, <3>2 DEF IInv, OneMenu
    <3>. QED
      BY <1>0, <3>4, <3>5 DEF IInv
  <2>6. CASE Steal(s)
    BY <1>0, <2>6 DEF Steal, IInv, OnlyHere, KeyKept, NoticedStops, OneMenu, SuspendedAway,
                      KeyStopsCountdown, RemoteOnlyByChoice, shells, Open, Nothing
  <2>7. CASE Join(s)
    <3>1. /\ UNCHANGED <<server, turn, typed, early, stolen, suspended, outcome>>
          /\ s \in Remote /\ s # Local /\ s # Fallback
          /\ at' = [at EXCEPT ![s] = "menu"]
          /\ seen' = [seen EXCEPT ![s] = TRUE]
          /\ deadline' = [deadline EXCEPT ![s] = "off"]
      BY <2>7 DEF Join, To
    <3>2. \A t \in Here : at'[t] = at[t] /\ seen'[t] = seen[t] /\ deadline'[t] = deadline[t]
      BY <1>0, <3>1 DEF TypeOK, Here, Session
    <3>3. OnlyHere'
      BY <1>0, <3>1 DEF IInv, OnlyHere, TypeOK, Session
    <3>4. /\ KeyKept' /\ NoticedStops' /\ OneMenu'
          /\ SuspendedAway' /\ KeyStopsCountdown' /\ RemoteOnlyByChoice'
      BY <3>1, <3>2 DEF IInv, KeyKept, NoticedStops, OneMenu, SuspendedAway, KeyStopsCountdown,
                        RemoteOnlyByChoice, Here
    <3>. QED
      BY <1>0, <3>3, <3>4 DEF IInv
  <2>8. CASE ShellEnds(s)
    BY <1>0, <2>8 DEF ShellEnds, IInv, console, OnlyHere, KeyKept, NoticedStops, OneMenu,
                      SuspendedAway, KeyStopsCountdown, RemoteOnlyByChoice
  <2>9. CASE \/ OpenShell(s) \/ Retry(s) \/ RetryEnds(s) \/ SealFails(s)
             \/ Connect(s) \/ Leave(s)
    <3>1. /\ UNCHANGED <<server, console, outcome>>
          /\ at[s] = "away" => s \in Remote
          /\ at[s] # "over"
          /\ s = Local => at[s] \in {"menu", "retry"}
      BY <2>9 DEF OpenShell, Retry, RetryEnds, SealFails, Connect, Leave, Chooses, Live
    <3>2. PICK p \in Place \ {"away"} : To(s, p)
      BY <2>9 DEF OpenShell, Retry, RetryEnds, SealFails, Connect, Leave, Place
    <3>3. SuspendedAway'
      BY <1>0, <3>1, <3>2 DEF IInv, SuspendedAway, To, TypeOK, console
    <3>. QED
      BY <1>0, <3>1, <3>2, <3>3, MoveKeeps DEF console
  <2>10. CASE OpenRelay(s) \/ CloseShell(s)
    <3>1. /\ UNCHANGED <<server, seen, deadline, turn, typed, early, stolen, outcome>>
          /\ at[s] \in {"menu", "shell", "relay"}
      BY <2>10 DEF OpenRelay, CloseShell, Chooses, ShellPlace
    <3>2. PICK p \in {"menu", "relay"} : To(s, p)
      BY <2>10 DEF OpenRelay, CloseShell
    <3>3. CASE s = Local
      <4>1. SuspendedAway'
        <5>1. CASE OpenRelay(s)
          BY <1>0, <3>3, <5>1 DEF OpenRelay, To, SuspendedAway, TypeOK, Session
        <5>2. CASE CloseShell(s)
          BY <3>3, <5>2 DEF CloseShell, IInv, SuspendedAway, Here, ShellPlace
        <5>. QED
          BY <2>10, <5>1, <5>2
      <4>. QED
        BY <1>0, <3>1, <3>2, <4>1, MoveKeeps DEF Place
    <3>4. CASE s # Local
      <4>1. at'[Local] = at[Local]
        BY <1>0, <3>2, <3>4 DEF To, TypeOK, Session
      <4>2. suspended' => suspended \/ s = Fallback
        BY <2>10, <3>4 DEF OpenRelay, CloseShell, Here
      <4>3. SuspendedAway'
        BY <3>1, <4>1, <4>2 DEF IInv, OneMenu, SuspendedAway
      <4>. QED
        BY <1>0, <3>1, <3>2, <4>3, MoveKeeps DEF Place
    <3>. QED
      BY <3>3, <3>4
  <2>. QED
    BY <1>4, <2>1, <2>2, <2>3, <2>4, <2>5, <2>6, <2>7, <2>8, <2>9, <2>10, <2>11
    DEF Step
<1>. QED
  BY <1>1, <1>2, <1>3, <1>4 DEF Next
-----------------------------------------------------------------------------
(* Theorems *)

\* Everything the proofs below rest on holds in every reachable state.
THEOREM Invariant == Spec => []IInv
<1>1. IInv /\ UNCHANGED vars => IInv'
  BY NextInv
<1>. QED
  BY InitInv, NextInv, PTL DEF Spec

\* The state of the recovery runtime stays well typed.
THEOREM TypeCorrect == Spec => []TypeOK
<1>1. IInv => TypeOK
  BY DEF IInv
<1>. QED
  BY <1>1, Invariant, PTL

\* An operator who presses a key before the countdown has run out is never
\* rebooted by it (loop_driver.rs), however many remote sessions come and go
\* and also when the server dies in between, unless a relay took the key.
THEOREM KeyAlwaysStops == Spec => []KeyStopsCountdown
<1>1. IInv => KeyStopsCountdown
  BY DEF IInv
<1>. QED
  BY <1>1, Invariant, PTL

\* No remote session ever reboots the machine by leaving or by a countdown
\* (serve_session in ui/remote/mod.rs).
THEOREM RemoteChooses == Spec => []RemoteOnlyByChoice
<1>1. IInv => RemoteOnlyByChoice
  BY DEF IInv
<1>. QED
  BY <1>1, Invariant, PTL

\* Whenever the local menu is shown, NMBL holds the boot console (run_relay).
THEOREM ConsoleIsBack == Spec => []ConsoleResumed
<1>1. IInv => ConsoleResumed
  BY DEF IInv, SuspendedAway, ConsoleResumed
<1>. QED
  BY <1>1, Invariant, PTL
=============================================================================
