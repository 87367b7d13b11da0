------------------------ MODULE StatefulBoot_proofs ------------------------
(***************************************************************************)
(* Proofs about StatefulBoot and its history, for any systems and any      *)
(* bounds: an authorization boots once, recovery is bounded, known-good    *)
(* systems have booted, and instant boot starts no untested deployment.    *)
(***************************************************************************)
EXTENDS StatefulHistory, WellFoundedInduction, TLAPS

-----------------------------------------------------------------------------
(* The smallest and the largest *)

\* Sets of naturals have a smallest member.
LEMMA Smallest ==
  ASSUME NEW S \in SUBSET Nat, S # {}
  PROVE  \E m \in S : \A k \in S : m <= k
<1>. DEFINE R == {p \in Nat \X Nat : p[1] < p[2]}
<1>1. IsWellFoundedOn(R, Nat)
  BY NatLessThanWellFounded, Zenon DEF OpToRel
<1>2. PICK m \in S : \A k \in S : <<k, m>> \notin R
  <2>. HIDE DEF R
  <2>. QED
    BY <1>1, WFMin
<1>3. ASSUME NEW k \in S
      PROVE  m <= k
  <2>1. k \in Nat /\ m \in Nat /\ <<k, m>> \notin R
    BY <1>2
  <2>. QED
    BY <2>1
<1>. QED
  BY <1>3

\* Min and Max pick them.
LEMMA MinOf ==
  ASSUME NEW S \in SUBSET Nat, S # {}
  PROVE  Min(S) \in S /\ \A x \in S : Min(S) <= x
  BY Smallest DEF Min

LEMMA MaxOf ==
  ASSUME NEW n \in Nat, NEW S \in SUBSET (0..n), S # {}
  PROVE  Max(S) \in S /\ \A x \in S : x <= Max(S)
<1>. DEFINE D == {n - x : x \in S}
<1>1. PICK x \in S : TRUE
  OBVIOUS
<1>2. D \in SUBSET Nat /\ n - x \in D
  BY <1>1
<1>3. PICK d \in D : \A k \in D : d <= k
  <2>. HIDE DEF D
  <2>. QED
    BY <1>2, Smallest
<1>4. PICK m \in S : d = n - m
  BY <1>3
<1>5. \A y \in S : m >= y
  <2>1. TAKE y \in S
  <2>2. d <= n - y
    BY <1>3
  <2>. QED
    BY <1>4, <2>2
<1>. QED
  BY <1>5 DEF Max

-----------------------------------------------------------------------------
(* The decision *)

\* The newest generation is on disk.
LEMMA NewestOnDisk ==
  ASSUME active \in OnDisk
  PROVE  Newest \in OnDisk /\ \A g \in OnDisk : g <= Newest
<1>1. OnDisk \in SUBSET (0..MaxGen) /\ MaxGen \in Nat
  BY BoundAssumption DEF OnDisk, Gens
<1>. QED
  BY <1>1, MaxOf DEF Newest

\* The ring after a success holds what it held, and the generation that
\* succeeded if that is on disk.
LEMMA RotatedRing ==
  ASSUME NEW s \in States
  PROVE  /\ Rotated(s) \in [Slots -> MaybeGen]
         /\ \A i \in Slots : \/ Rotated(s)[i] \in KnownGood(s) \cup {NONE}
                             \/ Rotated(s)[i] = s.last /\ s.last \in OnDisk
<1>1. s.good \in [Slots -> MaybeGen] /\ \A i \in Slots : s.good[i] \in KnownGood(s) \cup {NONE}
  BY DEF States, KnownGood
<1>2. ASSUME NEW p, s.last \in OnDisk
      PROVE  /\ Front(s.good, s.last, p) \in [Slots -> MaybeGen]
             /\ \A i \in Slots : Front(s.good, s.last, p)[i] \in KnownGood(s) \cup {NONE, s.last}
  <2>1. s.last \in MaybeGen
    BY <1>2 DEF OnDisk, MaybeGen
  <2>2. \A i \in Slots : i # 1 => i - 1 \in Slots
    BY BoundAssumption DEF Slots
  <2>. QED
    BY <1>1, <2>1, <2>2 DEF Front
<1>3. CASE s.last \notin OnDisk
  BY <1>1, <1>3 DEF Rotated
<1>4. CASE s.last \in OnDisk
  <2>1. Rotated(s) = s.good \/ \E p : Rotated(s) = Front(s.good, s.last, p)
    BY <1>4 DEF Rotated
  <2>. QED
    BY <1>1, <1>2, <1>4, <2>1
<1>. QED
  BY <1>3, <1>4

\* A roll-back goes to a generation that is on disk.
LEMMA FallbackOnDisk ==
  ASSUME NEW s \in States
  PROVE  /\ Fallbacks(s) \subseteq OnDisk
         /\ \A i \in Usable(s) : i \in Slots /\ s.good[i] \in OnDisk
<1>1. \A i \in Usable(s) : i \in Slots /\ s.good[i] \in OnDisk
  BY DEF Usable
<1>2. Walk(s) \in SUBSET (0..MaxGen) /\ MaxGen \in Nat /\ Walk(s) \subseteq OnDisk
  BY BoundAssumption DEF Walk, OnDisk, Gens
<1>3. Walk(s) # {} => Max(Walk(s)) \in OnDisk
  BY <1>2, MaxOf
<1>. QED
  BY <1>1, <1>3 DEF Fallbacks

\* What the decision keeps of the state, and what it changes.
Keeps(s, t) ==
  /\ t \in States
  /\ t.last = s.last /\ t.ok = s.ok /\ t.armed = s.armed /\ t.retrying = s.retrying
  /\ t.unproven = s.unproven /\ t.system = s.system
  /\ \A g \in KnownGood(t) \ KnownGood(s) : s.ok /\ g = s.last /\ g \in OnDisk

\* After a success the attempts are reset, and the generation may be the newest
\* known-good one.
LEMMA HealthyDecision ==
  ASSUME NEW s \in States, s.ok
  PROVE  /\ DecideHealthy(s).do \in {"honour", "force"}
         /\ Keeps(s, DecideHealthy(s).state)
         /\ DecideHealthy(s).state.attempt = 0
         /\ DecideHealthy(s).do = "force" => DecideHealthy(s).gen \in OnDisk
<1>. DEFINE t == [s EXCEPT !.good = Rotated(s), !.attempt = 0]
<1>1. t \in States /\ t.good = Rotated(s) /\ t.attempt = 0
  <2>1. Rotated(s) \in [Slots -> MaybeGen] /\ 0 \in 0..MaxAttempts
    BY RotatedRing, BoundAssumption
  <2>. QED
    BY <2>1 DEF States
<1>2. /\ t.last = s.last /\ t.ok = s.ok /\ t.armed = s.armed /\ t.retrying = s.retrying
      /\ t.unproven = s.unproven /\ t.system = s.system
  BY DEF States
<1>3. Keeps(s, t)
  <2>1. \A g \in KnownGood(t) \ KnownGood(s) : g = s.last /\ g \in OnDisk
    BY <1>1, RotatedRing DEF KnownGood
  <2>. QED
    BY <1>1, <1>2, <2>1 DEF Keeps
<1>4. Usable(t) # {} => t.good[Min(Usable(t))] \in OnDisk
  <2>1. Usable(t) \in SUBSET Nat
    BY BoundAssumption DEF Usable, Slots
  <2>. QED
    BY <1>1, <2>1, MinOf, FallbackOnDisk
<1>. HIDE DEF t
<1>5. \/ DecideHealthy(s) = HonourTui(t)
      \/ Usable(t) # {} /\ DecideHealthy(s) = ForcePick(t, t.good[Min(Usable(t))])
  BY DEF DecideHealthy, t
<1>. QED
  BY <1>1, <1>3, <1>4, <1>5 DEF HonourTui, ForcePick

\* After a failure a roll-back is counted.
LEMMA FailedDecision ==
  ASSUME NEW s \in States, ~s.ok
  PROVE  /\ DecideFailed(s).do \in {"honour", "force", "exhausted"}
         /\ Keeps(s, DecideFailed(s).state)
         /\ DecideFailed(s).do = "honour" => s.last = NONE
         /\ DecideFailed(s).do = "force" =>
              /\ DecideFailed(s).gen \in OnDisk
              /\ DecideFailed(s).state.attempt = s.attempt + 1
<1>. DEFINE t == [s EXCEPT !.failed = @ \/ (s.unproven # NONE /\ s.unproven = s.last)]
            u == [t EXCEPT !.attempt = @ + 1]
<1>1. Keeps(s, s)
  BY DEF Keeps
<1>2. ASSUME s.attempt < MaxAttempts
      PROVE  Keeps(s, u) /\ u.attempt = s.attempt + 1
  <2>1. s.attempt + 1 \in 0..MaxAttempts
    BY <1>2, BoundAssumption DEF States
  <2>2. t \in States /\ t.attempt = s.attempt
    BY DEF States
  <2>3. u \in States /\ u.attempt = s.attempt + 1 /\ u.good = s.good
    BY <2>1, <2>2 DEF States
  <2>4. /\ u.last = s.last /\ u.ok = s.ok /\ u.armed = s.armed /\ u.retrying = s.retrying
        /\ u.unproven = s.unproven /\ u.system = s.system
    BY DEF States
  <2>. QED
    BY <2>3, <2>4 DEF Keeps, KnownGood
<1>3. Fallbacks(s) # {} => (CHOOSE g \in Fallbacks(s) : TRUE) \in OnDisk
  BY FallbackOnDisk
<1>. HIDE DEF t
<1>4. \/ DecideFailed(s) = Exhausted(s)
      \/ s.last = NONE /\ DecideFailed(s) = HonourTui(s)
      \/ /\ ~(s.attempt >= MaxAttempts) /\ Fallbacks(s) # {}
         /\ DecideFailed(s) = ForcePick(u, CHOOSE g \in Fallbacks(s) : TRUE)
  BY DEF DecideFailed, t
<1>5. s.attempt \in Nat /\ MaxAttempts \in Nat
  BY BoundAssumption DEF States
<1>. HIDE DEF u
<1>6. CASE DecideFailed(s) = Exhausted(s)
  BY <1>1, <1>6 DEF Exhausted
<1>7. CASE s.last = NONE /\ DecideFailed(s) = HonourTui(s)
  BY <1>1, <1>7 DEF HonourTui
<1>8. CASE /\ ~(s.attempt >= MaxAttempts) /\ Fallbacks(s) # {}
           /\ DecideFailed(s) = ForcePick(u, CHOOSE g \in Fallbacks(s) : TRUE)
  <2>1. Keeps(s, u) /\ u.attempt = s.attempt + 1
    BY <1>2, <1>5, <1>8
  <2>. QED
    BY <1>3, <1>8, <2>1 DEF ForcePick
<1>. QED
  BY <1>4, <1>6, <1>7, <1>8

-----------------------------------------------------------------------------
(* The writes *)

\* t differs from s in no field that the decision reads of the generations.
Same(s, t) ==
  /\ t.good = s.good /\ t.unproven = s.unproven /\ t.system = s.system
  /\ t.attempt = s.attempt

LEMMA AttemptWrite ==
  ASSUME NEW s \in States, NEW g \in Gens
  PROVE  /\ Attempted(s, g) \in States /\ Same(s, Attempted(s, g))
         /\ Attempted(s, g).last = g /\ ~Attempted(s, g).ok
         /\ Attempted(s, g).armed = s.armed
  BY DEF Attempted, States, MaybeGen, Same

LEMMA RetryWrite ==
  ASSUME NEW s \in States, NEW g \in Gens
  PROVE  /\ OperatorRetried(s, g) \in States /\ Same(s, OperatorRetried(s, g))
         /\ OperatorRetried(s, g).last = g /\ ~OperatorRetried(s, g).ok
         /\ OperatorRetried(s, g).armed = NONE
  BY DEF OperatorRetried, Attempted, States, MaybeGen, Same

LEMMA ExitWrite ==
  ASSUME NEW s \in States, NEW t, t = [s EXCEPT !.armed = NONE, !.retrying = TRUE]
                                  \/ t = [s EXCEPT !.armed = NONE]
  PROVE  t \in States /\ Same(s, t) /\ t.last = s.last /\ t.ok = s.ok /\ t.armed = NONE
  BY DEF States, MaybeGen, Same

LEMMA SuccessWrite ==
  ASSUME NEW s \in States
  PROVE  /\ Succeeded(s) \in States /\ Succeeded(s).good = s.good
         /\ Succeeded(s).last = s.last /\ Succeeded(s).ok /\ Succeeded(s).armed = NONE
         /\ \/ Succeeded(s).unproven = s.unproven /\ Succeeded(s).system = s.system
            \/ Succeeded(s).unproven = NONE /\ s.unproven = s.last
<1>1. 0 \in 0..MaxAttempts
  BY BoundAssumption
<1>. QED
  BY <1>1 DEF Succeeded, Cleared, States, MaybeGen

LEMMA MarkWrite ==
  ASSUME NEW s \in States, NEW g \in Gens, NEW y \in Systems
  PROVE  /\ Marked(s, g, y) \in States
         /\ Marked(s, g, y).good = s.good /\ Marked(s, g, y).attempt = s.attempt
         /\ Marked(s, g, y).last = s.last /\ Marked(s, g, y).ok = s.ok
         /\ Marked(s, g, y).armed = s.armed
         /\ \/ s.ok /\ s.last = g /\ Marked(s, g, y).unproven = NONE
            \/ g \in KnownGood(s) /\ Marked(s, g, y) = s
            \/ Marked(s, g, y).unproven = g /\ Marked(s, g, y).system = y
  BY DEF Marked, Cleared, States, MaybeGen

-----------------------------------------------------------------------------
(* The invariants *)

\* The boot is one that NMBL decided and recorded.
Decided == phase = "commit" \/ (phase = "system" /\ pick.by # "menu")

\* The generation that was picked can be booted until the system runs, an
\* unreadable state gets no further than the rescue, and no authorization is
\* left once a boot goes on, unless it goes on from the menu.
Picked ==
  /\ phase \in {"authorize", "commit"} => pick.gen \in OnDisk
  /\ phase = "authorize" => pick.by = "retry"
  /\ phase = "system" => pick.gen \in Gens /\ running \in Systems
  /\ phase = "select" => state # TORN
  /\ (phase = "select" \/ Decided) /\ state # TORN => state.armed = NONE

\* The mark names a system that was marked.
MarkKnown ==
  state # TORN /\ state.unproven # NONE => state.system \in marked

TInv == HTypeOK /\ Picked /\ MarkKnown

\* An authorization that is still on disk was given and was not used.
Authorized ==
  /\ request # NONE => "retry" \in credit
  /\ phase \in {"exit", "authorize", "select", "commit"} => request = NONE
  /\ phase = "authorize" => "retry" \in credit
  /\ state # TORN /\ state.armed # NONE => "exit" \in credit
  /\ OneBootPerAuthorization

\* state.bin records every boot but those from the menu.
Recorded ==
  /\ phase = "commit" => state # TORN /\ ~state.ok
  /\ Decided /\ state # TORN => state.last = pick.gen
  /\ state # TORN /\ ~state.ok => state.last # NONE

\* The boots by itself are the roll-backs that state.bin counts, and one.
Counted ==
  /\ streak <= MaxAttempts + 1
  /\ phase = "rescue" => streak = 0
  /\ state # TORN =>
       /\ state.armed # NONE => streak = 0
       /\ streak <= IF state.ok THEN 0 ELSE state.attempt + 1
  /\ phase = "commit" /\ pick.by \notin {"operator", "retry"} => streak <= state.attempt

\* The system that runs is that of the generation that was picked.
Running ==
  phase = "system" =>
    pick.gen <= Newest /\ (pick.gen \in OnDisk => links[pick.gen] = running)

\* What state.bin remembers as good has booted, unless a boot from the menu
\* misled it; it remembers no generation that is still to be installed.
Remembered ==
  state # TORN =>
    /\ \A g \in KnownGood(state) \cup {state.last} : g # NONE => g <= Newest
    /\ ~misled => \A g \in KnownGood(state) \cap OnDisk : links[g] \in proven
    /\ ~misled /\ state.last \in OnDisk /\ state.ok => links[state.last] \in proven

\* The active generation is marked until it is proven, or state.bin is misled.
ActiveMarked ==
  /\ default = NONE /\ once = NONE
  /\ state # TORN /\ ~misled /\ links[active] \in marked \ proven => state.unproven = active
  /\ InstantBootIsProven

-----------------------------------------------------------------------------
(* What the steps do to state.bin *)

LEMMA Saves ==
  ASSUME NEW s, NEW p, NEW q, Save(s, p, q)
  PROVE  \/ state' = s /\ phase' = p
         \/ "error" \in Faults /\ state' \in {state, TORN} /\ phase' = q
         \/ state' = TORN /\ phase' = "off"
  BY DEF Save, Written, Failed, Cut

LEMMA Installs ==
  ASSUME NEW g, NEW y, Install(g, y)
  PROVE  \/ state # TORN /\ state' = Marked(state, g, y) /\ phase' = phase
         \/ state' = TORN /\ phase' \in {phase, "off"}
         \/ /\ state' = state /\ phase' = phase
            /\ state = TORN \/ "install" \in Faults \/ "error" \in Faults
  BY Saves DEF Install

\* The default generation is on disk.
LEMMA DefaultOnDisk ==
  ASSUME active \in OnDisk
  PROVE  Default \in OnDisk
  BY NewestOnDisk DEF Default

\* A boot selects a generation on disk, for one of four reasons, and records
\* the attempt in the state that the decision left; or it gives up.
Selects(g, by) ==
  LET d == decide(state)
  IN /\ g \in OnDisk /\ pick' = [gen |-> g, by |-> by]
     /\ d.state \in States /\ Keeps(state, d.state)
     /\ \/ state' = Attempted(d.state, g) /\ phase' = "commit"
        \/ "error" \in Faults /\ state' \in {state, TORN} /\ phase' = "commit"
        \/ state' = TORN /\ phase' = "off"
     /\ d.do = (IF by = "forced" THEN "force" ELSE "honour")
     /\ by = "instant" => Instant(state) /\ g = Default

LEMMA SelectStep ==
  ASSUME Select, state \in States, active \in OnDisk
  PROVE  \/ phase' = "rescue" /\ UNCHANGED <<state, pick>>
         \/ \E g \in OnDisk, by \in {"instant", "timeout", "operator", "forced"} : Selects(g, by)
<1>. DEFINE d == decide(state)
<1>1. /\ Keeps(state, d.state) /\ d.state \in States
      /\ d.do = "force" => d.gen \in OnDisk
  BY HealthyDecision, FailedDecision DEF decide, Keeps
<1>2. ASSUME NEW g \in OnDisk, NEW by \in {"instant", "timeout", "operator", "forced"},
             Record(d.state, g, by),
             d.do = (IF by = "forced" THEN "force" ELSE "honour"),
             by = "instant" => Instant(state) /\ g = Default
      PROVE  \E h \in OnDisk, b \in {"instant", "timeout", "operator", "forced"} : Selects(h, b)
  <2>1. Selects(g, by)
    BY <1>1, <1>2, Saves DEF Record, Selects
  <2>. QED
    BY <2>1
<1>3. CASE d.do = "honour" /\ Instant(state) /\ Record(d.state, Default, "instant")
  BY <1>2, <1>3, DefaultOnDisk
<1>4. CASE d.do = "honour" /\ Record(d.state, Default, "timeout")
  BY <1>2, <1>4, DefaultOnDisk
<1>5. ASSUME NEW g \in OnDisk, d.do = "honour", Record(d.state, g, "operator")
      PROVE  \E h \in OnDisk, b \in {"instant", "timeout", "operator", "forced"} : Selects(h, b)
  BY <1>2, <1>5
<1>6. CASE d.do = "force" /\ Record(d.state, d.gen, "forced")
  BY <1>1, <1>2, <1>6
<1>7. CASE d.do = "exhausted" /\ phase' = "rescue" /\ UNCHANGED <<state, pick>>
  BY <1>7
<1>. HIDE DEF d
<1>. QED
  BY <1>3, <1>4, <1>5, <1>6, <1>7 DEF Select, d

\* What TakeRescueExit does.
LEMMA ExitStep ==
  ASSUME TakeRescueExit, state \in States
  PROVE  \E t \in States :
           /\ Same(state, t) /\ t.last = state.last /\ t.ok = state.ok /\ t.armed = NONE
           /\ \/ state' = t /\ phase' = "select" /\ UNCHANGED pick
              \/ /\ state' = t /\ phase' = "commit"
                 /\ pick' = [gen |-> state.armed, by |-> "exit"]
                 /\ state.armed \in OnDisk /\ ~state.ok /\ state.last = state.armed
              \/ /\ state' \in {state, TORN} /\ phase' = "rescue"
                 /\ pick' \in {pick, [gen |-> state.armed, by |-> "exit"]}
              \/ /\ state' = TORN /\ phase' = "off"
                 /\ pick' \in {pick, [gen |-> state.armed, by |-> "exit"]}
<1>1. state # TORN /\ phase = "exit"
  BY TornAssumption DEF TakeRescueExit
<1>2. CASE state.armed = NONE
  BY <1>1, <1>2 DEF TakeRescueExit, Same
<1>3. CASE state.armed # NONE /\ ~state.ok /\ state.last = state.armed /\ state.armed \in OnDisk
  <2>. DEFINE t == [state EXCEPT !.armed = NONE, !.retrying = TRUE]
  <2>1. /\ t \in States /\ Same(state, t) /\ t.last = state.last /\ t.ok = state.ok
        /\ t.armed = NONE
    BY ExitWrite
  <2>2. pick' = [gen |-> state.armed, by |-> "exit"] /\ Save(t, "commit", "rescue")
    BY <1>1, <1>3 DEF TakeRescueExit
  <2>. HIDE DEF t
  <2>. QED
    BY <1>3, <2>1, <2>2, Saves
<1>4. CASE /\ state.armed # NONE
           /\ ~(~state.ok /\ state.last = state.armed /\ state.armed \in OnDisk)
  <2>. DEFINE t == [state EXCEPT !.armed = NONE]
  <2>1. /\ t \in States /\ Same(state, t) /\ t.last = state.last /\ t.ok = state.ok
        /\ t.armed = NONE
    BY ExitWrite
  <2>2. UNCHANGED pick /\ Save(t, "select", "rescue")
    BY <1>1, <1>4 DEF TakeRescueExit
  <2>. HIDE DEF t
  <2>. QED
    BY <2>1, <2>2, Saves
<1>. QED
  BY <1>2, <1>3, <1>4

\* What RecordRetry does.
LEMMA RetryStep ==
  ASSUME RecordRetry
  PROVE  /\ phase = "authorize" /\ UNCHANGED pick
         /\ \/ /\ state # TORN /\ phase' = "commit"
               /\ state' = OperatorRetried(state, pick.gen)
            \/ state' \in {state, TORN} /\ phase' = "rescue"
            \/ state' = TORN /\ phase' = "off"
  BY Saves DEF RecordRetry

\* What RescueReady does.
LEMMA ReadyStep ==
  ASSUME RescueReady, state \in States
  PROVE  \E t \in States :
           /\ Same(state, t) /\ t.last = state.last /\ t.ok = state.ok
           /\ state' \in {state, t, TORN} /\ phase' \in {"rescue", "off"}
           /\ UNCHANGED pick /\ phase = "rescue"
<1>. DEFINE t == [state EXCEPT !.armed = IF state.ok THEN NONE ELSE state.last,
                               !.retrying = FALSE]
<1>1. t \in States /\ Same(state, t) /\ t.last = state.last /\ t.ok = state.ok
  BY DEF States, MaybeGen, Same
<1>2. UNCHANGED pick /\ phase = "rescue"
  BY DEF RescueReady
<1>3. Written(t, "rescue") \/ Written(t, "off") \/ Failed("rescue") \/ Cut
  BY DEF RescueReady
<1>. HIDE DEF t
<1>4. state' \in {state, t, TORN} /\ phase' \in {"rescue", "off"}
  BY <1>3 DEF Written, Failed, Cut
<1>. QED
  BY <1>1, <1>2, <1>4

\* What Succeed does.
LEMMA SucceedStep ==
  ASSUME Succeed
  PROVE  /\ phase = "system" /\ state # TORN
         /\ \/ state' = Succeeded(state) /\ phase' = "system"
            \/ "error" \in Faults /\ state' \in {state, TORN} /\ phase' = "system"
            \/ state' = TORN /\ phase' = "off"
  BY Saves DEF Succeed

-----------------------------------------------------------------------------
(* Types *)

\* The initial state satisfies the type invariant.
LEMMA InitType == HInit => TInv
<1>. SUFFICES ASSUME HInit PROVE TInv
  OBVIOUS
<1>1. Fresh \in States
  BY BoundAssumption DEF Fresh, States, MaybeGen
<1>2. 1 \in Gens
  BY BoundAssumption DEF Gens
<1>3. TypeOK
  <2>1. links \in [Gens -> Systems \cup {NONE}] /\ links[1] # NONE
    BY <1>2, NoneAssumption DEF HInit, Init
  <2>2. pick \in [gen : MaybeGen, by : Accounts]
    BY DEF HInit, Init, MaybeGen, Accounts
  <2>. QED
    BY <1>1, <1>2, <2>1, <2>2 DEF HInit, Init, TypeOK, Phases, MaybeGen
<1>4. HTypeOK
  <2>1. misled \in BOOLEAN
    BY Zenon DEF HInit
  <2>2. streak \in 0..MaxAttempts + 2
    BY BoundAssumption DEF HInit
  <2>. QED
    BY <1>3, <2>1, <2>2 DEF HInit, HTypeOK
<1>5. Picked /\ MarkKnown
  BY DEF HInit, Init, Picked, MarkKnown, Fresh
<1>. QED
  BY <1>4, <1>5 DEF TInv

\* The steps that do not write state.bin; Kexec and RetryFromMenu are those of
\* them that start a system.
Pauses ==
  \/ PowerOn \/ BootError \/ TakeRetry \/ Shell \/ PowerOff
  \/ \E g \in OnDisk : DeleteGeneration(g) \/ RebootInto(g) \/ RetryGeneration(g)
  \/ \E d \in OnDisk \cup {NONE, LATEST} : SetDefault(d)
  \/ RebootRescue \/ UNCHANGED vars

Retry == \E g \in OnDisk : RetryFromMenu(g)

Reads == Pauses \/ Kexec \/ Retry

LEMMA ReadsKeep == Reads => state' = state
  BY DEF Reads, Pauses, PowerOn, BootError, TakeRetry, Shell, Kexec, Retry, RetryFromMenu, PowerOff,
     DeleteGeneration, RebootInto, RetryGeneration, SetDefault, RebootRescue, vars

LEMMA PausesKeep ==
  Pauses => /\ state' = state /\ running' = running
            /\ phase' = "commit" => UNCHANGED vars
            /\ phase' = "system" => UNCHANGED <<phase, pick>>
  BY DEF Pauses, PowerOn, BootError, Refuse, TakeRetry, Shell, PowerOff,
     DeleteGeneration, RebootInto, RetryGeneration, SetDefault, RebootRescue, vars

\* The steps, by what they write.
LEMMA StepKinds ==
  ASSUME [HNext]_hvars
  PROVE  \/ Reads \/ RecordRetry \/ TakeRescueExit \/ Select \/ RescueReady \/ Succeed
         \/ HOther /\ \E y \in Systems : Deploy(y)
         \/ HOther /\ \E g \in OnDisk : Switch(g)
  BY DEF HNext, HKexec, HRetryFromMenu, HSucceed, HAuthorize, HSelect, HOther, Reads, Pauses,
     Retry, hvars

\* A system that is deployed is marked with its number.
LEMMA InstallTarget ==
  ASSUME TInv
  PROVE  /\ active \in OnDisk /\ Newest \in Nat
         /\ \A y \in Systems : Deploy(y) => /\ Newest + 1 \in Gens \ OnDisk
                                            /\ Install(Newest + 1, y)
         /\ \A g \in OnDisk : Switch(g) => links[g] \in Systems /\ Install(g, links[g])
<1>1. active \in OnDisk
  BY DEF TInv, HTypeOK, TypeOK, OnDisk
<1>2. Newest \in OnDisk /\ (\A g \in OnDisk : g <= Newest)
  BY <1>1, NewestOnDisk
<1>3. Newest \in 1..MaxGen /\ MaxGen \in Nat
  BY <1>2, BoundAssumption DEF OnDisk, Gens
<1>4. \A y \in Systems : Deploy(y) => /\ Newest + 1 \in Gens \ OnDisk
                                      /\ Install(Newest + 1, y)
  BY <1>2, <1>3 DEF Deploy, Gens
<1>5. \A g \in OnDisk : Switch(g) => links[g] \in Systems /\ Install(g, links[g])
  BY DEF Switch, OnDisk, TInv, HTypeOK, TypeOK
<1>. QED
  BY <1>1, <1>3, <1>4, <1>5

\* state.bin decodes or is torn.
LEMMA NextState ==
  ASSUME TInv, [HNext]_hvars
  PROVE  state' \in States \cup {TORN}
<1>1. state \in States \cup {TORN} /\ active \in OnDisk
  BY InstallTarget DEF TInv, HTypeOK, TypeOK
<1>2. CASE Reads
  BY <1>1, <1>2, ReadsKeep
<1>3. CASE RecordRetry
  <2>1. phase = "authorize" => pick.gen \in Gens
    BY DEF TInv, Picked, OnDisk
  <2>. QED
    BY <1>1, <1>3, <2>1, RetryStep, RetryWrite
<1>4. CASE TakeRescueExit
  BY <1>1, <1>4, ExitStep DEF TakeRescueExit
<1>5. CASE Select
  <2>1. state \in States
    BY <1>1, <1>5 DEF Select, TInv, Picked
  <2>2. ASSUME NEW g \in OnDisk, NEW by, Selects(g, by)
        PROVE  state' \in States \cup {TORN}
    BY <1>1, <2>2, AttemptWrite DEF Selects, OnDisk
  <2>. QED
    BY <1>1, <1>5, <2>1, <2>2, SelectStep
<1>6. CASE RescueReady
  BY <1>1, <1>6, ReadyStep DEF RescueReady
<1>7. CASE Succeed
  BY <1>1, <1>7, SucceedStep, SuccessWrite
<1>8. ASSUME NEW y \in Systems, Deploy(y)
      PROVE  state' \in States \cup {TORN}
  BY <1>1, <1>8, InstallTarget, Installs, MarkWrite
<1>9. ASSUME NEW g \in OnDisk, Switch(g)
      PROVE  state' \in States \cup {TORN}
  <2>1. g \in Gens
    BY DEF OnDisk
  <2>. QED
    BY <1>1, <1>9, <2>1, InstallTarget, Installs, MarkWrite
<1>. QED
  BY <1>2, <1>3, <1>4, <1>5, <1>6, <1>7, <1>8, <1>9, StepKinds

LEMMA NextProfile ==
  ASSUME TInv, [HNext]_hvars
  PROVE  /\ links' \in [Gens -> Systems \cup {NONE}]
         /\ active' \in Gens /\ links'[active'] # NONE
<1>1. /\ links \in [Gens -> Systems \cup {NONE}]
      /\ active \in Gens /\ links[active] # NONE
  BY DEF TInv, HTypeOK, TypeOK
<1>2. ASSUME NEW y \in Systems, Deploy(y)
      PROVE  /\ links' \in [Gens -> Systems \cup {NONE}]
             /\ active' \in Gens /\ links'[active'] # NONE
  BY <1>1, <1>2, InstallTarget, NoneAssumption DEF Deploy
<1>3. ASSUME NEW g \in OnDisk, Switch(g)
      PROVE  /\ links' \in [Gens -> Systems \cup {NONE}]
             /\ active' \in Gens /\ links'[active'] # NONE
  BY <1>1, <1>3 DEF Switch, OnDisk
<1>4. ASSUME NEW g \in OnDisk, DeleteGeneration(g)
      PROVE  /\ links' \in [Gens -> Systems \cup {NONE}]
             /\ active' \in Gens /\ links'[active'] # NONE
  BY <1>1, <1>4 DEF DeleteGeneration, OnDisk
<1>5. CASE UNCHANGED profile
  BY <1>1, <1>5 DEF profile
<1>6. \/ UNCHANGED profile
      \/ \E y \in Systems : Deploy(y)
      \/ \E g \in OnDisk : Switch(g) \/ DeleteGeneration(g)
  BY StepKinds DEF Reads, Pauses, PowerOn, BootError, TakeRetry, Shell, Kexec, Retry,
     RetryFromMenu, profile, PowerOff, RebootInto, RetryGeneration, SetDefault, RebootRescue,
     vars, RecordRetry, TakeRescueExit, Select, RescueReady, Succeed
<1>. QED
  BY <1>2, <1>3, <1>4, <1>5, <1>6

\* The files that nmblctl writes keep their types.
LEMMA NextFiles ==
  ASSUME TInv, [HNext]_hvars
  PROVE  /\ request' \in MaybeGen /\ once' \in MaybeGen
         /\ default' \in MaybeGen \cup {LATEST} /\ sentinel' \in BOOLEAN
<1>1. /\ request \in MaybeGen /\ once \in MaybeGen
      /\ default \in MaybeGen \cup {LATEST} /\ sentinel \in BOOLEAN
      /\ OnDisk \subseteq MaybeGen /\ NONE \in MaybeGen
  BY DEF TInv, HTypeOK, TypeOK, OnDisk, MaybeGen
<1>2. CASE UNCHANGED files
  BY <1>1, <1>2 DEF files
<1>3. CASE TakeRetry \/ Kexec \/ RescueReady \/ RebootRescue \/ BootError \/ Retry
  BY <1>1, <1>3 DEF TakeRetry, Kexec, RescueReady, RebootRescue, BootError, Retry, RetryFromMenu,
     Start, Refuse
<1>4. ASSUME NEW g \in OnDisk, RebootInto(g) \/ RetryGeneration(g)
      PROVE  /\ request' \in MaybeGen /\ once' \in MaybeGen
             /\ default' \in MaybeGen \cup {LATEST} /\ sentinel' \in BOOLEAN
  BY <1>1, <1>4 DEF RebootInto, RetryGeneration
<1>5. ASSUME NEW d \in OnDisk \cup {NONE, LATEST}, SetDefault(d)
      PROVE  /\ request' \in MaybeGen /\ once' \in MaybeGen
             /\ default' \in MaybeGen \cup {LATEST} /\ sentinel' \in BOOLEAN
  BY <1>1, <1>5 DEF SetDefault
<1>6. \/ UNCHANGED files \/ TakeRetry \/ Kexec \/ RescueReady \/ RebootRescue \/ BootError \/ Retry
      \/ \E g \in OnDisk : RebootInto(g) \/ RetryGeneration(g)
      \/ \E d \in OnDisk \cup {NONE, LATEST} : SetDefault(d)
  BY StepKinds DEF Reads, Pauses, PowerOn, Shell, PowerOff, DeleteGeneration, vars,
     RecordRetry, TakeRescueExit, Select, Succeed, Deploy, Switch
<1>. QED
  BY <1>2, <1>3, <1>4, <1>5, <1>6

\* A boot is where it is, and picks what is on disk.
PhaseOK ==
  /\ phase \in Phases /\ pick \in [gen : MaybeGen, by : Accounts]
  /\ running \in Systems \cup {NONE}

LEMMA NextPhase ==
  ASSUME TInv, [HNext]_hvars
  PROVE  PhaseOK' /\ Picked'
<1>. DEFINE Done == PhaseOK' /\ Picked'
<1>1. /\ PhaseOK /\ Picked /\ OnDisk \subseteq Gens /\ OnDisk \subseteq MaybeGen
      /\ state \in States \cup {TORN} /\ active \in OnDisk /\ request \in MaybeGen
      /\ \A g \in OnDisk : links[g] \in Systems
  BY InstallTarget DEF TInv, HTypeOK, TypeOK, PhaseOK, OnDisk, MaybeGen
<1>2. CASE PowerOn
  BY <1>1, <1>2 DEF PowerOn, PhaseOK, Picked, Decided, Phases, MaybeGen, Accounts
<1>3. CASE BootError \/ Shell \/ PowerOff
  BY <1>1, <1>3 DEF BootError, Refuse, Shell, PowerOff, PhaseOK, Picked, Decided, Phases
<1>4. CASE TakeRetry
  BY <1>1, <1>4 DEF TakeRetry, profile, PhaseOK, Picked, Decided, Phases, Accounts, OnDisk
<1>5. CASE RecordRetry
  <2>1. UNCHANGED <<pick, running, links>>
    BY <1>5 DEF RecordRetry, profile
  <2>2. \/ phase' \in {"rescue", "off"}
        \/ phase' = "commit" /\ state' # TORN /\ state'.armed = NONE
    BY <1>1, <1>5, RetryStep, RetryWrite, TornAssumption DEF Picked
  <2>. QED
    BY <1>1, <1>5, <2>1, <2>2 DEF RecordRetry, PhaseOK, Picked, Decided, Phases, OnDisk
<1>6. CASE TakeRescueExit
  <2>1. UNCHANGED <<running, links>> /\ phase = "exit"
    BY <1>6 DEF TakeRescueExit, profile
  <2>2. CASE state = TORN
    BY <1>1, <1>6, <2>1, <2>2 DEF TakeRescueExit, PhaseOK, Picked, Decided, Phases
  <2>3. CASE state \in States
    <3>1. [gen |-> state.armed, by |-> "exit"] \in [gen : MaybeGen, by : Accounts]
      BY <2>3 DEF States, Accounts
    <3>2. PICK t \in States :
            /\ t.armed = NONE
            /\ \/ state' = t /\ phase' = "select" /\ UNCHANGED pick
               \/ /\ state' = t /\ phase' = "commit"
                  /\ pick' = [gen |-> state.armed, by |-> "exit"] /\ state.armed \in OnDisk
               \/ /\ phase' \in {"rescue", "off"}
                  /\ pick' \in {pick, [gen |-> state.armed, by |-> "exit"]}
      BY <1>6, <2>3, ExitStep
    <3>. QED
      BY <1>1, <2>1, <3>1, <3>2, TornAssumption DEF PhaseOK, Picked, Decided, Phases, OnDisk
  <2>. QED
    BY <1>1, <2>2, <2>3
<1>7. CASE Select
  <2>1. UNCHANGED <<running, links>> /\ phase = "select" /\ state \in States /\ state.armed = NONE
    BY <1>1, <1>7 DEF Select, profile, Picked, Decided
  <2>2. CASE phase' = "rescue" /\ UNCHANGED <<state, pick>>
    BY <1>1, <2>1, <2>2 DEF PhaseOK, Picked, Decided, Phases
  <2>3. ASSUME NEW g \in OnDisk, NEW by \in {"instant", "timeout", "operator", "forced"},
               Selects(g, by)
        PROVE  Done
    <3>1. pick' = [gen |-> g, by |-> by] /\ pick' \in [gen : MaybeGen, by : Accounts]
      BY <1>1, <2>3 DEF Selects, Accounts
    <3>2. phase' = "off" \/ (phase' = "commit" /\ (state' # TORN => state'.armed = NONE))
      BY <1>1, <2>1, <2>3, AttemptWrite DEF Selects, Keeps
    <3>. QED
      BY <1>1, <2>1, <3>1, <3>2 DEF PhaseOK, Picked, Decided, Phases, OnDisk
  <2>. QED
    BY <1>1, <1>7, <2>1, <2>2, <2>3, SelectStep
<1>8. CASE Kexec
  BY <1>1, <1>8 DEF Kexec, Start, Refuse, profile, PhaseOK, Picked, Decided, Phases
<1>9. CASE RescueReady
  <2>1. phase' \in {"rescue", "off"} /\ UNCHANGED <<pick, running>>
    BY <1>1, <1>9, ReadyStep DEF RescueReady
  <2>. QED
    BY <1>1, <2>1 DEF PhaseOK, Picked, Decided, Phases
<1>10. CASE Succeed
  <2>1. /\ phase' \in {"system", "off"} /\ UNCHANGED <<pick, running>>
        /\ Decided /\ state' # TORN => state'.armed = NONE
    BY <1>1, <1>10, SucceedStep, SuccessWrite DEF Succeed, Picked, Decided
  <2>. QED
    BY <1>1, <1>10, <2>1 DEF Succeed, PhaseOK, Picked, Decided, Phases
<1>11. ASSUME UNCHANGED <<pick, running>>, phase = "system",
              NEW h \in Gens, NEW z \in Systems, Install(h, z)
       PROVE  Done
  <2>1. /\ phase' \in {"system", "off"}
        /\ Decided /\ state' # TORN => state'.armed = NONE
    BY <1>1, <1>11, Installs, MarkWrite DEF Picked, Decided
  <2>. QED
    BY <1>1, <1>11, <2>1 DEF PhaseOK, Picked, Decided, Phases
<1>12. ASSUME (\E y \in Systems : Deploy(y)) \/ (\E g \in OnDisk : Switch(g))
       PROVE  Done
  BY <1>1, <1>11, <1>12, InstallTarget DEF Deploy, Switch
<1>13. ASSUME NEW g \in OnDisk, DeleteGeneration(g)
       PROVE  Done
  BY <1>1, <1>13 DEF DeleteGeneration, PhaseOK, Picked, Decided, Phases
<1>14. ASSUME NEW g \in OnDisk, RebootInto(g) \/ RetryGeneration(g)
       PROVE  Done
  BY <1>1, <1>14 DEF RebootInto, RetryGeneration, PhaseOK, Picked, Decided, profile, OnDisk
<1>15. CASE RebootRescue \/ (\E d \in OnDisk \cup {NONE, LATEST} : SetDefault(d)) \/ UNCHANGED vars
  BY <1>1, <1>15 DEF RebootRescue, SetDefault, vars, PhaseOK, Picked, Decided, profile, OnDisk
<1>16. CASE Retry
  <2>1. PICK g \in OnDisk : RetryFromMenu(g)
    BY <1>16 DEF Retry
  <2>2. CASE Start(g) /\ pick' = [gen |-> g, by |-> "menu"]
    BY <1>1, <2>2 DEF Start, PhaseOK, Picked, Decided, Phases, MaybeGen, Accounts
  <2>3. CASE Refuse /\ UNCHANGED <<pick, running>>
    BY <1>1, <2>3 DEF Refuse, PhaseOK, Picked, Decided, Phases
  <2>. QED
    BY <2>1, <2>2, <2>3 DEF RetryFromMenu
<1>. QED
  BY <1>2, <1>3, <1>4, <1>5, <1>6, <1>7, <1>8, <1>9, <1>10, <1>12, <1>13, <1>14,
     <1>15, <1>16, StepKinds DEF Reads, Pauses

\* The mark in state.bin is kept, unless the marked generation succeeds or a
\* system is installed.
LEMMA MarkSteps ==
  ASSUME TInv, [HNext]_hvars, state' # TORN
  PROVE  /\ state # TORN
         /\ \/ state'.unproven = state.unproven /\ state'.system = state.system
            \/ Succeed /\ state'.unproven = NONE /\ state.unproven = state.last
            \/ /\ (\E y \in Systems : Deploy(y)) \/ (\E g \in OnDisk : Switch(g))
               /\ HOther /\ (state'.unproven = NONE \/ state'.system \in Systems)
<1>. DEFINE Done ==
       /\ state # TORN
       /\ \/ state'.unproven = state.unproven /\ state'.system = state.system
          \/ Succeed /\ state'.unproven = NONE /\ state.unproven = state.last
          \/ /\ (\E y \in Systems : Deploy(y)) \/ (\E g \in OnDisk : Switch(g))
             /\ HOther /\ (state'.unproven = NONE \/ state'.system \in Systems)
<1>1. state \in States \cup {TORN} /\ active \in OnDisk /\ OnDisk \subseteq Gens
  BY InstallTarget DEF TInv, HTypeOK, TypeOK, OnDisk
<1>2. CASE Reads
  BY <1>2, ReadsKeep
<1>3. CASE RecordRetry
  <2>1. phase = "authorize" => pick.gen \in Gens
    BY <1>1 DEF TInv, Picked
  <2>2. state # TORN
    BY <1>3 DEF RecordRetry
  <2>3. state' = state \/ state' = OperatorRetried(state, pick.gen)
    BY <1>3, RetryStep
  <2>. QED
    BY <1>1, <1>3, <2>1, <2>2, <2>3, RetryStep, RetryWrite DEF Same
<1>4. CASE TakeRescueExit
  <2>1. state \in States
    BY <1>1, <1>4 DEF TakeRescueExit
  <2>. QED
    BY <1>4, <2>1, ExitStep, TornAssumption DEF Same
<1>5. CASE Select
  <2>1. state \in States
    BY <1>1, <1>5 DEF Select, TInv, Picked
  <2>2. ASSUME NEW g \in OnDisk, NEW by, Selects(g, by)
        PROVE  Done
    <3>1. state' = state \/ state' = Attempted(decide(state).state, g)
      BY <2>2 DEF Selects
    <3>. QED
      BY <1>1, <2>1, <2>2, <3>1, AttemptWrite, TornAssumption DEF Selects, Same, Keeps
  <2>. QED
    BY <1>1, <1>5, <2>1, <2>2, SelectStep, TornAssumption
<1>6. CASE RescueReady
  BY <1>1, <1>6, ReadyStep DEF RescueReady, Same
<1>7. CASE Succeed
  BY <1>1, <1>7, SucceedStep, SuccessWrite
<1>8. ASSUME NEW h \in Gens, NEW z \in Systems, Install(h, z)
      PROVE  /\ state # TORN
             /\ \/ state'.unproven = state.unproven /\ state'.system = state.system
                \/ state'.unproven = NONE \/ state'.system \in Systems
  BY <1>1, <1>8, Installs, MarkWrite
<1>9. CASE HOther /\ ((\E y \in Systems : Deploy(y)) \/ \E g \in OnDisk : Switch(g))
  BY <1>1, <1>8, <1>9, InstallTarget
<1>. QED
  BY <1>2, <1>3, <1>4, <1>5, <1>6, <1>7, <1>9, StepKinds

\* The record of what happened keeps its type, and the mark stays known.
LEMMA NextHistory ==
  ASSUME TInv, [HNext]_hvars
  PROVE  /\ proven' \in SUBSET Systems /\ marked' \in SUBSET Systems
         /\ broken' \in SUBSET marked' /\ streak' \in 0..MaxAttempts + 2
         /\ credit' \in SUBSET {"retry", "exit"}
         /\ verdict' \in {"none", "exhausted", "retried", "unreadable"} /\ misled' \in BOOLEAN
         /\ MarkKnown'
<1>. DEFINE Done ==
         /\ proven' \in SUBSET Systems /\ marked' \in SUBSET Systems
         /\ broken' \in SUBSET marked' /\ streak' \in 0..MaxAttempts + 2
         /\ credit' \in SUBSET {"retry", "exit"}
         /\ verdict' \in {"none", "exhausted", "retried", "unreadable"} /\ misled' \in BOOLEAN
<1>1. /\ proven \in SUBSET Systems /\ marked \in SUBSET Systems /\ broken \in SUBSET marked
      /\ streak \in 0..MaxAttempts + 2 /\ credit \in SUBSET {"retry", "exit"}
      /\ verdict \in {"none", "exhausted", "retried", "unreadable"} /\ misled \in BOOLEAN
      /\ MaxAttempts \in Nat /\ NONE \notin Gens
  BY BoundAssumption, NoneAssumption DEF TInv, HTypeOK
<1>2. ASSUME HKexec
      PROVE  Done
  <2>1. Min({streak + 1, MaxAttempts + 2}) \in 0..MaxAttempts + 2
    <3>1. {streak + 1, MaxAttempts + 2} \in SUBSET Nat
      BY <1>1
    <3>2. /\ Min({streak + 1, MaxAttempts + 2}) \in Nat
          /\ Min({streak + 1, MaxAttempts + 2}) <= MaxAttempts + 2
      BY <3>1, MinOf
    <3>. QED
      BY <1>1, <3>2
  <2>2. streak' \in 0..MaxAttempts + 2
    BY <1>1, <1>2, <2>1 DEF HKexec
  <2>. QED
    BY <1>1, <1>2, <2>2 DEF HKexec
<1>3. ASSUME HSucceed
      PROVE  Done
  <2>1. running \in Systems
    BY <1>3 DEF HSucceed, Succeed, TInv, Picked
  <2>. QED
    BY <1>1, <1>3, <2>1 DEF HSucceed
<1>4. ASSUME HAuthorize
      PROVE  Done
  BY <1>1, <1>4 DEF HAuthorize
<1>5. ASSUME HSelect
      PROVE  Done
  BY <1>1, <1>5 DEF HSelect
<1>6. ASSUME HOther
      PROVE  Done
  <2>1. NowMarked \subseteq Systems
    BY <1>1, MarkSteps DEF NowMarked, TInv, MarkKnown
  <2>2. Breaks => running \in marked
    BY <1>1 DEF Breaks, TInv, MarkKnown, Picked
  <2>3. marked' = marked \cup NowMarked /\ broken' \in SUBSET marked'
    BY <1>1, <1>6, <2>2 DEF HOther
  <2>4. streak' \in 0..MaxAttempts + 2
    BY <1>1, <1>6 DEF HOther
  <2>5. verdict' \in {"none", "exhausted", "retried", "unreadable"}
    BY <1>1, <1>6 DEF HOther
  <2>6. proven' = proven /\ credit' = credit /\ misled' = misled
    BY <1>6 DEF HOther
  <2>. QED
    BY <1>1, <2>1, <2>3, <2>4, <2>5, <2>6
<1>7. ASSUME UNCHANGED hvars \/ HRetryFromMenu
      PROVE  Done
  <2>1. CASE UNCHANGED hvars
    BY <1>1, <2>1 DEF hvars, history
  <2>2. CASE HRetryFromMenu
    <3>1. streak' \in 0..MaxAttempts + 2
      BY <2>2, BoundAssumption DEF HRetryFromMenu
    <3>. QED
      BY <1>1, <2>2, <3>1 DEF HRetryFromMenu
  <2>. QED
    BY <1>7, <2>1, <2>2
<1>8. Done
  BY <1>2, <1>3, <1>4, <1>5, <1>6, <1>7 DEF HNext
<1>9. MarkKnown'
  <2>1. CASE HOther
    BY <2>1 DEF HOther, NowMarked, MarkKnown
  <2>2. CASE ~HOther
    <3>1. marked' = marked
      BY <2>2 DEF HNext, HKexec, HRetryFromMenu, HSucceed, HAuthorize, HSelect, hvars, history
    <3>. QED
      BY <2>2, <3>1, MarkSteps DEF MarkKnown, TInv
  <2>. QED
    BY <2>1, <2>2
<1>. QED
  BY <1>8, <1>9

\* Every step keeps the type invariant.
LEMMA NextType == TInv /\ [HNext]_hvars => TInv'
<1>. SUFFICES ASSUME TInv, [HNext]_hvars PROVE TInv'
  OBVIOUS
<1>1. TypeOK'
  BY NextState, NextProfile, NextFiles, NextPhase DEF TypeOK, PhaseOK
<1>2. HTypeOK'
  BY <1>1, NextHistory DEF HTypeOK
<1>. QED
  BY <1>2, NextPhase, NextHistory DEF TInv

\* The types of the state and of its history, for any systems and any bounds:
\* no step writes a state.bin that does not decode except by being cut short
\* or failing, and the generation that a boot picked is one that was on disk.
THEOREM TypeCorrect == HSpec => []HTypeOK
<1>1. TInv => HTypeOK
  BY DEF TInv
<1>. QED
  BY <1>1, InitType, NextType, PTL DEF HSpec

-----------------------------------------------------------------------------
(* An authorization is used once *)

\* Every step keeps what is known of the authorizations.
LEMMA NextAuthorized == TInv /\ Authorized /\ [HNext]_hvars => Authorized'
<1>. SUFFICES ASSUME TInv, Authorized, [HNext]_hvars PROVE Authorized'
  OBVIOUS
<1>1. /\ state \in States \cup {TORN} /\ Picked /\ credit \in SUBSET {"retry", "exit"}
      /\ NONE \notin OnDisk /\ OnDisk \subseteq Gens
  BY NoneAssumption DEF TInv, HTypeOK, TypeOK, OnDisk
<1>2. CASE HKexec
  <2>1. /\ phase = "commit" /\ phase' \in {"system", "rescue", "off"} /\ state' = state
        /\ request' = request
    BY <1>2 DEF HKexec, Kexec, Start, Refuse
  <2>2. CASE phase' # "system"
    BY <1>2, <2>1, <2>2 DEF HKexec, Authorized, OneBootPerAuthorization
  <2>3. CASE phase' = "system"
    <3>1. request = NONE /\ (state # TORN => state.armed = NONE)
      BY <1>1, <2>1 DEF Authorized, Picked, Decided
    <3>. QED
      BY <2>1, <2>3, <3>1 DEF Authorized, OneBootPerAuthorization
  <2>. QED
    BY <2>1, <2>2, <2>3
<1>3. CASE HSucceed
  <2>1. /\ phase' \in {"system", "off"}
        /\ state' # TORN => state # TORN /\ state'.armed \in {NONE, state.armed}
        /\ request' = request /\ credit' = credit
    BY <1>1, <1>3, SucceedStep, SuccessWrite DEF HSucceed, Succeed, files
  <2>. QED
    BY <2>1 DEF Authorized, OneBootPerAuthorization
<1>4. CASE RescueReady /\ credit' = credit \cup {"exit"}
  <2>1. phase' \in {"rescue", "off"} /\ request' = request
    BY <1>1, <1>4, ReadyStep DEF RescueReady
  <2>. QED
    BY <1>1, <1>4, <2>1 DEF Authorized, OneBootPerAuthorization
<1>5. ASSUME NEW g \in OnDisk, RetryGeneration(g), credit' = credit \cup {"retry"}
      PROVE  Authorized'
  BY <1>1, <1>5 DEF RetryGeneration, Authorized, OneBootPerAuthorization
<1>6. CASE HSelect
  <2>1. request' = request /\ credit' = credit /\ phase = "select" /\ state # TORN
    BY <1>1, <1>6 DEF HSelect, Select, Shell, files, Picked
  <2>2. CASE Shell
    BY <2>1, <2>2 DEF Shell, Authorized, OneBootPerAuthorization
  <2>3. CASE Select
    <3>1. state \in States /\ active \in OnDisk
      BY <1>1, <2>1, InstallTarget
    <3>2. CASE phase' = "rescue" /\ UNCHANGED <<state, pick>>
      BY <2>1, <3>2 DEF Authorized, OneBootPerAuthorization
    <3>3. ASSUME NEW g \in OnDisk, NEW by \in {"instant", "timeout", "operator", "forced"},
                 Selects(g, by)
          PROVE  Authorized'
      <4>1. phase' \in {"off", "commit"} /\ pick'.by \notin {"retry", "exit"}
        BY <3>3 DEF Selects
      <4>2. state' # TORN => state'.armed = NONE
        BY <1>1, <2>1, <3>3, AttemptWrite DEF Selects, Keeps, Picked, Decided
      <4>. QED
        BY <2>1, <4>1, <4>2 DEF Authorized, OneBootPerAuthorization
    <3>. QED
      BY <2>3, <3>1, <3>2, <3>3, SelectStep
  <2>. QED
    BY <1>6, <2>2, <2>3 DEF HSelect
<1>7. ASSUME credit' = credit, PowerOn \/ BootError \/ PowerOff
      PROVE  Authorized'
  BY <1>7 DEF PowerOn, BootError, Refuse, PowerOff, files, Authorized, OneBootPerAuthorization
<1>8. ASSUME credit' = credit, TakeRetry
      PROVE  Authorized'
  BY <1>8 DEF TakeRetry, Authorized, OneBootPerAuthorization
<1>9. ASSUME credit' = credit, RecordRetry
      PROVE  Authorized'
  <2>1. /\ phase = "authorize" /\ request' = request /\ pick' = pick
        /\ phase' \in {"rescue", "commit", "off"}
    BY <1>9, RetryStep DEF RecordRetry, files
  <2>2. state' # TORN => state' = state \/ state'.armed = NONE
    BY <1>1, <1>9, <2>1, RetryStep, RetryWrite DEF Picked
  <2>3. "retry" \in credit /\ pick.by = "retry" /\ request = NONE
    BY <1>1, <2>1 DEF Authorized, Picked
  <2>. QED
    BY <1>9, <2>1, <2>2, <2>3 DEF Authorized, OneBootPerAuthorization
<1>10. ASSUME credit' = credit, TakeRescueExit
       PROVE  Authorized'
  <2>1. phase = "exit" /\ request' = request /\ request = NONE
    BY <1>10 DEF TakeRescueExit, files, Authorized
  <2>2. CASE state = TORN
    BY <1>10, <2>1, <2>2 DEF TakeRescueExit, Authorized, OneBootPerAuthorization
  <2>3. CASE state \in States
    <3>1. /\ state' # TORN => state' = state \/ state'.armed = NONE
          /\ phase' \in {"select", "commit", "rescue", "off"}
          /\ phase' = "commit" => pick'.by = "exit" /\ state.armed \in OnDisk
      BY <1>10, <2>3, ExitStep
    <3>2. state # TORN
      BY <2>3, TornAssumption
    <3>. QED
      BY <1>1, <1>10, <2>1, <3>1, <3>2 DEF Authorized, OneBootPerAuthorization
  <2>. QED
    BY <1>1, <2>2, <2>3
<1>11. ASSUME credit' = credit, UNCHANGED request,
              NEW h \in Gens, NEW z \in Systems, Install(h, z), phase = "system"
       PROVE  Authorized'
  <2>1. /\ phase' \in {"system", "off"}
        /\ state' # TORN => state # TORN /\ state'.armed = state.armed
    BY <1>1, <1>11, Installs, MarkWrite
  <2>. QED
    BY <1>11, <2>1 DEF Authorized, OneBootPerAuthorization
<1>12. ASSUME credit' = credit, (\E y \in Systems : Deploy(y)) \/ \E g \in OnDisk : Switch(g)
       PROVE  Authorized'
  BY <1>1, <1>11, <1>12, InstallTarget DEF Deploy, Switch, files
<1>13. ASSUME credit' = credit,
              \/ \E g \in OnDisk : DeleteGeneration(g) \/ RebootInto(g)
              \/ \E d \in OnDisk \cup {NONE, LATEST} : SetDefault(d)
              \/ RebootRescue \/ UNCHANGED vars
       PROVE  Authorized'
  BY <1>13 DEF DeleteGeneration, RebootInto, SetDefault, RebootRescue, vars, files,
     Authorized, OneBootPerAuthorization
<1>14. CASE HOther
  BY <1>7, <1>8, <1>9, <1>10, <1>12, <1>13, <1>14 DEF HOther
<1>15. CASE UNCHANGED hvars
  BY <1>13, <1>15 DEF hvars, history
<1>16. CASE HRetryFromMenu
  BY <1>16 DEF HRetryFromMenu, RetryFromMenu, Start, Refuse, Authorized, OneBootPerAuthorization
<1>. QED
  BY <1>2, <1>3, <1>4, <1>5, <1>6, <1>14, <1>15, <1>16 DEF HNext, HAuthorize

\* docs/nmblctl.md: a retry that the operator requested, or that reaching the
\* rescue authorized, boots one generation once, whatever fails or loses power
\* in between: the authorization is off the disk before the boot goes on.
THEOREM OneBoot == HSpec => []OneBootPerAuthorization
<1>1. HInit => Authorized
  BY DEF HInit, Init, Fresh, Authorized, OneBootPerAuthorization
<1>2. Authorized => OneBootPerAuthorization
  BY DEF Authorized
<1>. QED
  BY <1>1, <1>2, InitType, NextType, NextAuthorized, PTL DEF HSpec

-----------------------------------------------------------------------------
(* Recovery is bounded *)

\* If no write of state.bin fails, it records every boot but those from the
\* menu: what is booted is what it names.
LEMMA NextRecorded ==
  "error" \notin Faults => (TInv /\ Recorded /\ [HNext]_hvars => Recorded')
<1>. SUFFICES ASSUME "error" \notin Faults, TInv, Recorded, [HNext]_hvars PROVE Recorded'
  OBVIOUS
<1>1. /\ state \in States \cup {TORN} /\ Picked /\ NONE \notin Gens /\ active \in OnDisk
      /\ OnDisk \subseteq Gens
  BY NoneAssumption, InstallTarget DEF TInv, HTypeOK, TypeOK, OnDisk
<1>2. CASE Pauses
  <2>1. CASE phase' \in {"commit", "system"}
    BY <1>2, <2>1, PausesKeep DEF Recorded, Decided, vars
  <2>2. CASE phase' \notin {"commit", "system"}
    BY <1>2, <2>2, PausesKeep DEF Recorded, Decided
  <2>. QED
    BY <2>1, <2>2
<1>3. CASE Kexec
  BY <1>3 DEF Kexec, Start, Refuse, Recorded, Decided
<1>4. CASE RecordRetry
  <2>1. phase = "authorize" /\ pick' = pick /\ pick.gen \in Gens
    BY <1>1, <1>4, RetryStep DEF Picked
  <2>2. CASE phase' = "commit"
    BY <1>1, <1>4, <2>1, <2>2, RetryStep, RetryWrite, TornAssumption DEF Recorded, Decided
  <2>3. CASE phase' # "commit"
    BY <1>4, <2>1, <2>3, RetryStep DEF Recorded, Decided
  <2>. QED
    BY <2>2, <2>3
<1>5. CASE TakeRescueExit
  <2>1. CASE state = TORN
    BY <1>5, <2>1 DEF TakeRescueExit, Recorded
  <2>2. CASE state \in States
    BY <1>1, <1>5, <2>2, ExitStep, TornAssumption DEF Recorded, Decided
  <2>. QED
    BY <1>1, <2>1, <2>2
<1>6. CASE Select
  <2>1. state \in States
    BY <1>1, <1>6 DEF Select, Picked
  <2>2. ASSUME NEW g \in OnDisk, NEW by, Selects(g, by)
        PROVE  Recorded'
    <3>1. CASE phase' = "off"
      BY <2>2, <3>1 DEF Selects, Recorded, Decided
    <3>2. CASE phase' = "commit"
      <4>1. state' = Attempted(decide(state).state, g) /\ pick'.gen = g
        BY <2>2, <3>2 DEF Selects
      <4>2. state'.last = g /\ ~state'.ok /\ state' # TORN /\ g # NONE
        BY <1>1, <2>2, <4>1, AttemptWrite, TornAssumption DEF Selects
      <4>. QED
        BY <4>1, <4>2 DEF Recorded, Decided
    <3>. QED
      BY <2>2, <3>1, <3>2 DEF Selects
  <2>3. CASE phase' = "rescue" /\ UNCHANGED <<state, pick>>
    BY <2>3 DEF Recorded, Decided
  <2>. QED
    BY <1>1, <1>6, <2>1, <2>2, <2>3, SelectStep
<1>7. CASE RescueReady
  BY <1>1, <1>7, ReadyStep DEF RescueReady, Recorded, Decided
<1>8. CASE Succeed
  <2>1. state \in States /\ phase = "system" /\ pick' = pick
    BY <1>1, <1>8 DEF Succeed
  <2>. QED
    BY <1>8, <2>1, SucceedStep, SuccessWrite DEF Recorded, Decided
<1>9. ASSUME NEW h \in Gens, NEW z \in Systems, Install(h, z), phase = "system", pick' = pick
      PROVE  Recorded'
  BY <1>1, <1>9, Installs, MarkWrite DEF Recorded, Decided
<1>10. CASE (\E y \in Systems : Deploy(y)) \/ (\E g \in OnDisk : Switch(g))
  BY <1>1, <1>9, <1>10, InstallTarget DEF Deploy, Switch
<1>11. CASE Retry
  <2>1. PICK g \in OnDisk : RetryFromMenu(g)
    BY <1>11 DEF Retry
  <2>2. state' = state /\ ~Decided' /\ phase' # "commit"
    <3>1. CASE Start(g) /\ pick' = [gen |-> g, by |-> "menu"]
      BY <2>1, <3>1 DEF RetryFromMenu, Start, Decided
    <3>2. CASE Refuse
      BY <2>1, <3>2 DEF RetryFromMenu, Refuse, Decided
    <3>. QED
      BY <2>1, <3>1, <3>2 DEF RetryFromMenu
  <2>. QED
    BY <2>2 DEF Recorded
<1>. QED
  BY <1>2, <1>3, <1>4, <1>5, <1>6, <1>7, <1>8, <1>10, <1>11, StepKinds DEF Reads

\* What the steps do to the count of the boots.
LEMMA StreakSteps ==
  ASSUME Counted, [HNext]_hvars, state \in States \cup {TORN}
  PROVE  \/ HKexec \/ HRetryFromMenu \/ HSucceed
         \/ /\ streak' = IF phase' = "rescue" THEN 0 ELSE streak
            /\ \/ Pauses \/ RecordRetry \/ TakeRescueExit \/ Select \/ RescueReady
               \/ \E y \in Systems : Deploy(y)
               \/ \E g \in OnDisk : Switch(g)
<1>1. phase = "rescue" => streak = 0
  BY DEF Counted
<1>2. CASE HAuthorize
  <2>1. RescueReady => phase = "rescue"
    BY DEF RescueReady
  <2>2. \A g \in OnDisk : RetryGeneration(g) => phase' = phase
    BY DEF RetryGeneration
  <2>. QED
    BY <1>1, <1>2, <2>1, <2>2 DEF HAuthorize, Pauses
<1>3. CASE HSelect
  BY <1>3 DEF HSelect, Pauses
<1>4. CASE HOther
  BY <1>4 DEF HOther, Pauses
<1>5. CASE UNCHANGED hvars
  <2>1. streak' = streak /\ phase' = phase /\ UNCHANGED vars
    BY <1>5 DEF hvars, history, vars
  <2>. QED
    BY <1>1, <2>1 DEF Pauses
<1>. QED
  BY <1>2, <1>3, <1>4, <1>5 DEF HNext

\* Every step keeps the count within the roll-backs that state.bin counts.
LEMMA NextCounted ==
  "error" \notin Faults =>
    (TInv /\ Recorded /\ Counted /\ [HNext]_hvars => Counted')
<1>. SUFFICES ASSUME "error" \notin Faults, TInv, Recorded, Counted, [HNext]_hvars
              PROVE  Counted'
  OBVIOUS
<1>1. /\ state \in States \cup {TORN} /\ Picked /\ active \in OnDisk /\ OnDisk \subseteq Gens
      /\ streak \in Nat /\ MaxAttempts \in Nat
      /\ state # TORN => state.attempt \in 0..MaxAttempts
  BY InstallTarget, BoundAssumption DEF TInv, HTypeOK, TypeOK, OnDisk, States
<1>2. CASE HKexec
  <2>1. /\ phase = "commit" /\ phase' \in {"system", "off", "rescue"} /\ state' = state
        /\ state # TORN /\ ~state.ok /\ state.armed = NONE
    BY <1>1, <1>2 DEF HKexec, Kexec, Start, Refuse, Recorded, Picked, Decided
  <2>2. CASE phase' \in {"rescue", "off"}
    BY <1>1, <1>2, <2>1, <2>2 DEF HKexec, Counted
  <2>3. CASE phase' = "system" /\ pick.by \in {"operator", "retry"}
    BY <1>1, <1>2, <2>1, <2>3 DEF HKexec, Counted
  <2>4. CASE phase' = "system" /\ pick.by \notin {"operator", "retry"}
    <3>1. streak' = Min({streak + 1, MaxAttempts + 2}) /\ streak <= state.attempt
      BY <1>2, <2>1, <2>4 DEF HKexec, Counted
    <3>2. {streak + 1, MaxAttempts + 2} \in SUBSET Nat
      BY <1>1
    <3>3. streak' \in Nat /\ streak' <= streak + 1
      BY <3>1, <3>2, MinOf
    <3>. QED
      BY <1>1, <2>1, <2>4, <3>1, <3>3 DEF Counted
  <2>. QED
    BY <2>1, <2>2, <2>3, <2>4
<1>3. CASE HSucceed
  <2>1. /\ state \in States /\ streak' = 0 /\ phase' \in {"system", "off"}
        /\ state' # TORN => state'.armed = NONE /\ state'.ok
    BY <1>1, <1>3, SucceedStep, SuccessWrite DEF HSucceed
  <2>. QED
    BY <1>1, <2>1 DEF Counted
<1>11. CASE HRetryFromMenu
  <2>1. streak' = 0 /\ state' = state /\ phase' \in {"system", "off"}
    BY <1>11 DEF HRetryFromMenu, RetryFromMenu, Start, Refuse
  <2>2. state' # TORN => state'.attempt \in Nat
    BY <1>1, <2>1
  <2>. QED
    BY <1>1, <2>1, <2>2 DEF Counted
<1>. DEFINE Lasts == streak' = IF phase' = "rescue" THEN 0 ELSE streak
<1>4. ASSUME Lasts, Pauses
      PROVE  Counted'
  <2>1. CASE phase' = "commit"
    BY <1>1, <1>4, <2>1, PausesKeep DEF Counted, vars
  <2>2. CASE phase' # "commit"
    BY <1>1, <1>4, <2>2, PausesKeep DEF Counted
  <2>. QED
    BY <2>1, <2>2
<1>5. ASSUME Lasts, RecordRetry
      PROVE  Counted'
  <2>1. /\ phase = "authorize" /\ pick' = pick /\ pick.gen \in Gens /\ pick.by = "retry"
    BY <1>1, <1>5, RetryStep DEF Picked
  <2>2. CASE phase' = "commit"
    <3>1. /\ state \in States /\ state' = OperatorRetried(state, pick.gen)
      BY <1>1, <1>5, <2>2, RetryStep
    <3>2. state'.armed = NONE /\ ~state'.ok /\ state'.attempt = state.attempt
      BY <2>1, <3>1, RetryWrite DEF Same
    <3>. QED
      BY <1>1, <1>5, <2>1, <2>2, <3>1, <3>2, TornAssumption DEF Counted
  <2>3. CASE phase' # "commit"
    BY <1>1, <1>5, <2>1, <2>3, RetryStep DEF Counted
  <2>. QED
    BY <2>2, <2>3
<1>6. ASSUME Lasts, TakeRescueExit
      PROVE  Counted'
  <2>1. CASE state = TORN
    BY <1>1, <1>6, <2>1 DEF TakeRescueExit, Counted
  <2>2. CASE state \in States
    <3>1. PICK t \in States :
            /\ t.attempt = state.attempt /\ t.ok = state.ok /\ t.armed = NONE
            /\ \/ state' = t /\ phase' = "select"
               \/ state' = t /\ phase' = "commit" /\ state.armed \in OnDisk
               \/ state' \in {state, TORN} /\ phase' = "rescue"
               \/ state' = TORN /\ phase' = "off"
      BY <1>6, <2>2, ExitStep DEF Same
    <3>2. state # TORN /\ NONE \notin OnDisk
      BY <1>1, <2>2, TornAssumption, NoneAssumption
    <3>. QED
      BY <1>1, <1>6, <3>1, <3>2 DEF Counted
  <2>. QED
    BY <1>1, <2>1, <2>2
<1>7. ASSUME Lasts, Select
      PROVE  Counted'
  <2>1. state \in States /\ state # TORN /\ phase = "select" /\ state.armed = NONE
    BY <1>1, <1>7 DEF Select, Picked
  <2>2. ASSUME NEW g \in OnDisk, NEW by, Selects(g, by)
        PROVE  Counted'
    <3>1. CASE phase' = "off"
      BY <1>1, <1>7, <2>2, <3>1 DEF Selects, Counted
    <3>2. CASE phase' = "commit"
      <4>1. state' = Attempted(decide(state).state, g) /\ g \in Gens
        BY <1>1, <2>2, <3>2 DEF Selects
      <4>2. /\ ~state'.ok /\ state'.armed = NONE
            /\ state'.attempt = decide(state).state.attempt
            /\ state'.attempt \in 0..MaxAttempts
        BY <2>1, <2>2, <4>1, AttemptWrite DEF Selects, Keeps, Same, States
      <4>3. streak <= state'.attempt
        <5>1. CASE state.ok
          BY <1>1, <2>1, <4>2, <5>1 DEF Counted
        <5>2. CASE ~state.ok
          <6>1. state.last # NONE /\ decide(state) = DecideFailed(state)
            BY <2>1, <5>2 DEF Recorded, decide
          <6>2. DecideFailed(state).do = "force"
            BY <2>1, <2>2, <5>2, <6>1, FailedDecision DEF Selects
          <6>3. state'.attempt = state.attempt + 1
            BY <2>1, <4>2, <5>2, <6>1, <6>2, FailedDecision
          <6>. QED
            BY <2>1, <5>2, <6>3 DEF Counted
        <5>. QED
          BY <5>1, <5>2
      <4>. QED
        BY <1>1, <1>7, <3>2, <4>2, <4>3 DEF Counted
    <3>. QED
      BY <2>2, <3>1, <3>2 DEF Selects
  <2>3. CASE phase' = "rescue" /\ UNCHANGED <<state, pick>>
    BY <1>1, <1>7, <2>1, <2>3 DEF Counted
  <2>. QED
    BY <1>1, <1>7, <2>1, <2>2, <2>3, SelectStep
<1>8. ASSUME Lasts, RescueReady
      PROVE  Counted'
  <2>1. phase' \in {"rescue", "off"} /\ streak = 0 /\ streak' = 0
    BY <1>1, <1>8, ReadyStep DEF RescueReady, Counted
  <2>2. state' # TORN => state'.attempt \in Nat
    BY <1>1, NextState, TornAssumption DEF States
  <2>. QED
    BY <1>1, <2>1, <2>2 DEF Counted
<1>9. ASSUME Lasts, NEW h \in Gens, NEW z \in Systems, Install(h, z), phase = "system"
      PROVE  Counted'
  <2>1. /\ phase' \in {"system", "off"}
        /\ state' # TORN => /\ state # TORN /\ state'.armed = state.armed
                            /\ state'.ok = state.ok /\ state'.attempt = state.attempt
    BY <1>1, <1>9, Installs, MarkWrite
  <2>. QED
    BY <1>1, <1>9, <2>1 DEF Counted
<1>10. ASSUME Lasts, (\E y \in Systems : Deploy(y)) \/ (\E g \in OnDisk : Switch(g))
       PROVE  Counted'
  BY <1>1, <1>9, <1>10, InstallTarget DEF Deploy, Switch
<1>. QED
  BY <1>1, <1>2, <1>3, <1>4, <1>5, <1>6, <1>7, <1>8, <1>10, <1>11, StreakSteps

\* README.md: "After `maxRecoveryAttempts` failed rollbacks the failure is
\* final".  If no write of state.bin fails, the machine boots at most once more
\* than it may roll back before a boot succeeds, the operator chooses or it
\* stops in the rescue, whatever is installed, switched to, deleted or cut off.
THEOREM Recovery ==
  ASSUME "error" \notin Faults
  PROVE  HSpec => []RecoveryBounded
<1>1. HInit => Recorded /\ Counted
  BY BoundAssumption DEF HInit, Init, Fresh, Recorded, Counted
<1>2. Counted => RecoveryBounded
  BY DEF Counted, RecoveryBounded
<1>3. TInv /\ Recorded /\ Counted /\ [HNext]_hvars => Recorded' /\ Counted'
  BY NextRecorded, NextCounted
<1>. QED
  BY <1>1, <1>2, <1>3, InitType, NextType, PTL DEF HSpec

-----------------------------------------------------------------------------
(* Known-good generations have booted *)

\* Only a success adds to the systems that have booted, and misleads state.bin.
LEMMA ProvenSteps ==
  ASSUME [HNext]_hvars
  PROVE  \/ HSucceed
         \/ /\ UNCHANGED <<proven, misled>>
            /\ \/ Reads \/ RecordRetry \/ TakeRescueExit \/ Select \/ RescueReady
               \/ HOther /\ \E y \in Systems : Deploy(y)
               \/ HOther /\ \E g \in OnDisk : Switch(g)
<1>1. HOther => UNCHANGED <<proven, misled>>
  BY DEF HOther
<1>2. HAuthorize => UNCHANGED <<proven, misled>>
  BY DEF HAuthorize
<1>3. HSucceed \/ UNCHANGED <<proven, misled>>
  BY <1>1, <1>2 DEF HNext, HKexec, HRetryFromMenu, HSelect, hvars, history
<1>. QED
  BY <1>1, <1>2, <1>3 DEF HNext, HKexec, HRetryFromMenu, HAuthorize, HSelect, HOther, Reads,
     Pauses, Retry, hvars, history

\* The newest generation after a step.
LEMMA NewestAfter ==
  ASSUME TInv, [HNext]_hvars
  PROVE  /\ Newest \in OnDisk /\ \A g \in OnDisk : g <= Newest
         /\ Newest' \in OnDisk' /\ \A g \in OnDisk' : g <= Newest'
<1>1. active' \in OnDisk'
  BY NextProfile DEF OnDisk
<1>2. OnDisk' \in SUBSET (0..MaxGen) /\ MaxGen \in Nat
  BY BoundAssumption DEF OnDisk, Gens
<1>3. Newest' \in OnDisk' /\ \A g \in OnDisk' : g <= Newest'
  BY <1>1, <1>2, MaxOf DEF Newest
<1>. QED
  BY <1>3, InstallTarget, NewestOnDisk

\* The generations change in a deployment and a deletion only.
LEMMA LinkSteps ==
  ASSUME [HNext]_hvars
  PROVE  \/ UNCHANGED links
         \/ \E y \in Systems : Deploy(y)
         \/ \E h \in OnDisk : DeleteGeneration(h)
  BY StepKinds DEF Reads, Pauses, PowerOn, BootError, TakeRetry, Shell, Kexec, Retry,
     RetryFromMenu, profile, PowerOff, RebootInto, RetryGeneration, SetDefault, RebootRescue,
     vars, RecordRetry, TakeRescueExit, Select, RescueReady, Succeed, Switch

\* If numbers are not given out again, no step changes the system of a
\* generation that there is, unless it deletes it.
LEMMA OlderKept ==
  ASSUME ~Reuse, TInv, [HNext]_hvars, NEW g \in Gens, g <= Newest
  PROVE  /\ g <= Newest'
         /\ g \in OnDisk' => g \in OnDisk /\ links'[g] = links[g]
<1>1. /\ Newest \in Nat /\ Newest' \in Nat /\ g \in Nat /\ OnDisk \subseteq Nat
      /\ Newest \in OnDisk /\ \A h \in OnDisk' : h <= Newest'
      /\ links \in [Gens -> Systems \cup {NONE}]
  BY NewestAfter DEF OnDisk, Gens, TInv, HTypeOK, TypeOK
<1>2. CASE UNCHANGED links
  BY <1>2 DEF OnDisk, Newest
<1>3. ASSUME NEW h \in OnDisk, DeleteGeneration(h)
      PROVE  /\ g <= Newest'
             /\ g \in OnDisk' => g \in OnDisk /\ links'[g] = links[g]
  <2>1. h # Newest /\ links' = [links EXCEPT ![h] = NONE]
    BY <1>3 DEF DeleteGeneration
  <2>2. /\ Newest \in OnDisk'
        /\ g \in OnDisk' => g \in OnDisk /\ links'[g] = links[g]
    BY <1>1, <2>1 DEF OnDisk
  <2>3. Newest <= Newest'
    BY <1>1, <2>2
  <2>. QED
    BY <1>1, <2>2, <2>3
<1>4. ASSUME NEW y \in Systems, Deploy(y)
      PROVE  /\ g <= Newest'
             /\ g \in OnDisk' => g \in OnDisk /\ links'[g] = links[g]
  <2>1. Newest + 1 \in Gens /\ links' = [links EXCEPT ![Newest + 1] = y] /\ active' = Newest + 1
    BY <1>4, InstallTarget DEF Deploy
  <2>2. Newest + 1 <= Newest'
    BY <1>1, <2>1, NextProfile DEF OnDisk
  <2>3. g # Newest + 1 /\ g <= Newest'
    BY <1>1, <2>2
  <2>. QED
    BY <1>1, <2>1, <2>3 DEF OnDisk
<1>. QED
  BY <1>2, <1>3, <1>4, LinkSteps

\* Only NMBL starts a system, that of a generation on disk.
LEMMA SystemSteps ==
  ASSUME TInv, [HNext]_hvars, phase' = "system"
  PROVE  \/ phase = "system" /\ UNCHANGED <<pick, running>>
         \/ /\ UNCHANGED links /\ pick'.gen \in OnDisk /\ running' = links[pick'.gen]
<1>1. state \in States \cup {TORN} /\ active \in OnDisk /\ Picked
  BY InstallTarget DEF TInv, HTypeOK, TypeOK
<1>2. CASE Kexec
  BY <1>1, <1>2 DEF Kexec, Start, Refuse, profile, Picked
<1>3. CASE Retry
  BY <1>3 DEF Retry, RetryFromMenu, Start, Refuse, profile
<1>4. CASE Pauses
  BY <1>4, PausesKeep
<1>5. CASE RecordRetry
  BY <1>5, RetryStep
<1>6. CASE TakeRescueExit
  <2>1. CASE state = TORN
    BY <1>6, <2>1 DEF TakeRescueExit
  <2>. QED
    BY <1>1, <1>6, <2>1, ExitStep
<1>7. CASE Select
  BY <1>1, <1>7, SelectStep DEF Selects, Select, Picked
<1>8. CASE RescueReady
  BY <1>1, <1>8, ReadyStep DEF RescueReady
<1>9. CASE Succeed
  BY <1>9 DEF Succeed
<1>10. CASE (\E y \in Systems : Deploy(y)) \/ (\E g \in OnDisk : Switch(g))
  BY <1>10 DEF Deploy, Switch
<1>. QED
  BY <1>2, <1>3, <1>4, <1>5, <1>6, <1>7, <1>8, <1>9, <1>10, StepKinds DEF Reads

\* The system that runs stays that of the generation that was picked.
LEMMA NextRunning ==
  ASSUME ~Reuse, TInv, Running, [HNext]_hvars
  PROVE  Running'
<1>. SUFFICES ASSUME phase' = "system"
              PROVE  /\ pick'.gen <= Newest'
                     /\ pick'.gen \in OnDisk' => links'[pick'.gen] = running'
  BY DEF Running
<1>1. CASE phase = "system" /\ UNCHANGED <<pick, running>>
  <2>1. pick.gen \in Gens /\ pick.gen <= Newest
    BY <1>1 DEF Running, TInv, Picked
  <2>. QED
    BY <1>1, <2>1, OlderKept DEF Running
<1>2. CASE UNCHANGED links /\ pick'.gen \in OnDisk /\ running' = links[pick'.gen]
  <2>1. OnDisk' = OnDisk
    BY <1>2 DEF OnDisk
  <2>. QED
    BY <1>2, <2>1, NewestAfter
<1>. QED
  BY <1>1, <1>2, SystemSteps

\* What state.bin remembers stays true of the generations on disk.
LEMMA NextRemembered ==
  "error" \notin Faults /\ ~Reuse =>
    (TInv /\ Recorded /\ Running /\ Remembered /\ [HNext]_hvars => Remembered')
<1>. SUFFICES ASSUME "error" \notin Faults, ~Reuse, TInv, Recorded, Running, Remembered,
                     [HNext]_hvars
              PROVE  Remembered'
  OBVIOUS
<1>1. /\ state \in States \cup {TORN} /\ Picked /\ active \in OnDisk /\ OnDisk \subseteq Gens
      /\ (\A g \in OnDisk : g <= Newest) /\ NONE \notin Gens /\ OnDisk' \subseteq Gens
      /\ state # TORN => state.last \in MaybeGen /\ KnownGood(state) \subseteq Gens
  BY InstallTarget, NewestAfter, NoneAssumption
     DEF TInv, HTypeOK, TypeOK, OnDisk, States, KnownGood, MaybeGen
<1>. DEFINE Goods == \A g \in KnownGood(state') \ KnownGood(state) : state.ok /\ g = state.last
            Lasts == \/ state'.last = state.last /\ state'.ok = state.ok
                     \/ state'.last \in OnDisk /\ ~state'.ok
<1>2. ASSUME UNCHANGED <<proven, misled>>, state' # TORN => state # TORN /\ Goods /\ Lasts
      PROVE  Remembered'
  <2>. SUFFICES ASSUME state' # TORN
                PROVE  /\ \A g \in KnownGood(state') \cup {state'.last} : g # NONE => g <= Newest'
                       /\ ~misled => \A g \in KnownGood(state') \cap OnDisk' : links'[g] \in proven
                       /\ ~misled /\ state'.last \in OnDisk' /\ state'.ok
                            => links'[state'.last] \in proven
    BY <1>2 DEF Remembered
  <2>1. state # TORN /\ Goods /\ Lasts
    BY <1>2
  <2>2. ASSUME NEW g \in KnownGood(state') \cup {state'.last}, g # NONE
        PROVE  g \in Gens /\ g <= Newest
    BY <1>1, <2>1, <2>2 DEF Remembered, MaybeGen
  <2>3. ASSUME NEW g \in KnownGood(state') \cap OnDisk', ~misled
        PROVE  links'[g] \in proven
    <3>1. g # NONE /\ g \in OnDisk /\ links'[g] = links[g]
      BY <1>1, <2>2, <2>3, OlderKept
    <3>. QED
      BY <2>1, <2>3, <3>1 DEF Remembered
  <2>4. ASSUME state'.last \in OnDisk', state'.ok, ~misled
        PROVE  links'[state'.last] \in proven
    <3>1. state'.last # NONE /\ state'.last \in OnDisk /\ links'[state'.last] = links[state'.last]
      BY <1>1, <2>2, <2>4, OlderKept
    <3>. QED
      BY <2>1, <2>4, <3>1 DEF Remembered
  <2>. QED
    BY <2>2, <2>3, <2>4, OlderKept
<1>3. ASSUME UNCHANGED <<proven, misled>>, state' = state
      PROVE  Remembered'
  BY <1>2, <1>3
<1>4. ASSUME UNCHANGED <<proven, misled>>, RecordRetry
      PROVE  Remembered'
  <2>1. phase = "authorize" /\ pick.gen \in OnDisk
    BY <1>1, <1>4, RetryStep DEF Picked
  <2>2. CASE state' \in {state, TORN}
    BY <1>2, <1>4, <2>2
  <2>3. CASE state # TORN /\ state' = OperatorRetried(state, pick.gen)
    <3>1. KnownGood(state') = KnownGood(state) /\ state'.last \in OnDisk /\ ~state'.ok
      BY <1>1, <2>1, <2>3, RetryWrite DEF Same, KnownGood
    <3>. QED
      BY <1>2, <1>4, <2>3, <3>1
  <2>. QED
    BY <1>4, <2>2, <2>3, RetryStep
<1>5. ASSUME UNCHANGED <<proven, misled>>, TakeRescueExit
      PROVE  Remembered'
  <2>1. CASE state = TORN
    BY <1>3, <1>5, <2>1 DEF TakeRescueExit
  <2>2. CASE state \in States
    <3>1. /\ state # TORN
          /\ state' # TORN => /\ KnownGood(state') = KnownGood(state)
                              /\ state'.last = state.last /\ state'.ok = state.ok
      BY <1>5, <2>2, ExitStep, TornAssumption DEF Same, KnownGood
    <3>. QED
      BY <1>2, <1>5, <3>1
  <2>. QED
    BY <1>1, <2>1, <2>2
<1>6. ASSUME UNCHANGED <<proven, misled>>, Select
      PROVE  Remembered'
  <2>1. state \in States /\ state # TORN
    BY <1>1, <1>6 DEF Select, Picked
  <2>2. ASSUME NEW g \in OnDisk, NEW by, Selects(g, by)
        PROVE  Remembered'
    <3>1. CASE state' = TORN
      BY <1>2, <1>6, <3>1
    <3>2. CASE state' = Attempted(decide(state).state, g)
      <4>1. /\ state'.last = g /\ ~state'.ok
            /\ KnownGood(state') = KnownGood(decide(state).state)
        BY <1>1, <2>2, <3>2, AttemptWrite DEF Selects, Same, KnownGood
      <4>2. \A h \in KnownGood(state') \ KnownGood(state) : state.ok /\ h = state.last
        BY <2>2, <4>1 DEF Selects, Keeps
      <4>. QED
        BY <1>2, <1>6, <2>1, <4>1, <4>2
    <3>. QED
      BY <2>2, <3>1, <3>2 DEF Selects
  <2>3. CASE UNCHANGED state
    BY <1>3, <1>6, <2>3
  <2>. QED
    BY <1>1, <1>6, <2>1, <2>2, <2>3, SelectStep
<1>7. ASSUME UNCHANGED <<proven, misled>>, RescueReady
      PROVE  Remembered'
  <2>1. state \in States /\ state # TORN
    BY <1>1, <1>7 DEF RescueReady
  <2>2. state' # TORN => /\ KnownGood(state') = KnownGood(state)
                         /\ state'.last = state.last /\ state'.ok = state.ok
    BY <1>7, <2>1, ReadyStep DEF Same, KnownGood
  <2>. QED
    BY <1>2, <1>7, <2>1, <2>2
<1>8. CASE HSucceed
  <2>1. /\ phase = "system" /\ UNCHANGED <<links, running>> /\ proven' = proven \cup {running}
        /\ state \in States /\ state # TORN
        /\ ~misled' => ~misled /\ (pick.by = "menu" /\ ~state.ok => state.last = pick.gen)
    BY <1>1, <1>8 DEF HSucceed, Succeed, profile
  <2>2. state' # TORN => KnownGood(state') = KnownGood(state) /\ state'.last = state.last
    BY <1>8, <2>1, SucceedStep, SuccessWrite DEF HSucceed, KnownGood
  <2>3. OnDisk' = OnDisk /\ Newest' = Newest
    BY <2>1 DEF OnDisk, Newest
  <2>4. ~misled' /\ state.last \in OnDisk => links[state.last] \in proven'
    <3>1. ~misled' /\ ~state.ok => state.last = pick.gen
      BY <2>1 DEF Recorded, Decided
    <3>2. state.last = pick.gen /\ state.last \in OnDisk => links[state.last] = running
      BY <2>1 DEF Running
    <3>3. ~misled' /\ state.ok /\ state.last \in OnDisk => links[state.last] \in proven
      BY <2>1 DEF Remembered
    <3>. QED
      BY <2>1, <3>1, <3>2, <3>3
  <2>. QED
    BY <2>1, <2>2, <2>3, <2>4 DEF Remembered
<1>9. ASSUME UNCHANGED <<proven, misled>>, NEW h \in Gens, NEW z \in Systems, Install(h, z)
      PROVE  Remembered'
  <2>1. state' # TORN => /\ state # TORN /\ KnownGood(state') = KnownGood(state)
                         /\ state'.last = state.last /\ state'.ok = state.ok
    BY <1>1, <1>9, Installs, MarkWrite DEF KnownGood
  <2>. QED
    BY <1>2, <1>9, <2>1
<1>10. ASSUME UNCHANGED <<proven, misled>>,
              (\E y \in Systems : Deploy(y)) \/ (\E g \in OnDisk : Switch(g))
       PROVE  Remembered'
  BY <1>1, <1>9, <1>10, InstallTarget
<1>. QED
  BY <1>3, <1>4, <1>5, <1>6, <1>7, <1>8, <1>10, ProvenSteps, ReadsKeep

\* state/io.rs: "a generation in the known-good ring has booted successfully".
\* It has, if no write of state.bin fails, the number of a deleted generation is
\* not given out again, and no success of a boot from the emergency menu, which
\* records no attempt, was recorded as that of another generation: StatefulReuse
\* refutes it without the second, StatefulMenu without the third.
THEOREM GoodHaveBooted ==
  ASSUME "error" \notin Faults, ~Reuse
  PROVE  HSpec => []KnownGoodHasBooted
<1>1. HInit => Recorded /\ Running /\ Remembered
  <2>. SUFFICES ASSUME HInit PROVE Recorded /\ Running /\ Remembered
    OBVIOUS
  <2>1. /\ phase = "off" /\ state.last = NONE /\ state.ok
        /\ KnownGood(state) = {} /\ NONE \notin OnDisk
    BY NoneAssumption DEF HInit, Init, Fresh, KnownGood, OnDisk
  <2>. QED
    BY <2>1 DEF Recorded, Decided, Running, Remembered
<1>2. Remembered => KnownGoodHasBooted
  BY DEF Remembered, KnownGoodHasBooted, RingHasBooted
<1>3. TInv /\ Recorded /\ Running /\ Remembered /\ [HNext]_hvars
        => Recorded' /\ Running' /\ Remembered'
  BY NextRecorded, NextRunning, NextRemembered
<1>. QED
  BY <1>1, <1>2, <1>3, InitType, NextType, PTL DEF HSpec

-----------------------------------------------------------------------------
(* Instant boot starts what was proven *)

\* A default and a one-shot boot are set by the operator only.
LEMMA DefaultsKept ==
  ASSUME "default" \notin Commands, "once" \notin Commands, [HNext]_hvars,
         default = NONE, once = NONE
  PROVE  default' = NONE /\ once' = NONE
<1>1. CASE HKexec \/ HRetryFromMenu
  BY <1>1 DEF HKexec, Kexec, HRetryFromMenu, RetryFromMenu
<1>2. CASE HSucceed \/ HSelect
  BY <1>2 DEF HSucceed, HSelect, Succeed, Select, Shell, files
<1>3. CASE HAuthorize
  BY <1>3 DEF HAuthorize, RescueReady, RetryGeneration
<1>4. CASE HOther
  BY <1>4 DEF HOther, PowerOn, BootError, TakeRetry, RecordRetry, TakeRescueExit, PowerOff,
     Deploy, Switch, DeleteGeneration, RebootRescue, files
<1>5. CASE UNCHANGED hvars
  BY <1>5 DEF hvars, vars, files
<1>. QED
  BY <1>1, <1>2, <1>3, <1>4, <1>5 DEF HNext

\* Until the system runs, and in a step that does not write state.bin, no mark
\* changes.
LEMMA MarkKept ==
  ASSUME TInv, [HNext]_hvars, phase # "system" \/ state' = state
  PROVE  /\ state' # TORN => state # TORN /\ state'.unproven = state.unproven
         /\ marked' = marked
<1>1. ASSUME state' # TORN
      PROVE  /\ state # TORN /\ state'.unproven = state.unproven
             /\ state'.system = state.system
  BY <1>1, MarkSteps DEF Succeed, Deploy, Switch
<1>2. ASSUME HOther PROVE marked' = marked
  <2>1. NowMarked \subseteq marked
    BY <1>1 DEF NowMarked, TInv, MarkKnown
  <2>. QED
    BY <1>2, <2>1 DEF HOther
<1>3. ASSUME ~HOther PROVE marked' = marked
  BY <1>3 DEF HNext, HKexec, HRetryFromMenu, HSucceed, HAuthorize, HSelect, hvars, history
<1>. QED
  BY <1>1, <1>2, <1>3

\* A system that is installed is marked unless it has booted.
LEMMA InstalledMarked ==
  ASSUME "error" \notin Faults, "install" \notin Faults, state \in States \cup {TORN},
         NEW h \in Gens, NEW z \in Systems, Install(h, z),
         state # TORN => /\ state.ok /\ state.last = h => z \in proven
                         /\ h \in KnownGood(state) => z \in proven
  PROVE  /\ state' # TORN => z \in proven \/ state'.unproven = h
         /\ phase' \in {phase, "off"}
<1>1. ASSUME state' # TORN
      PROVE  state \in States /\ state' = Marked(state, h, z)
  BY <1>1, Installs
<1>2. phase' \in {phase, "off"}
  BY Installs
<1>. QED
  BY <1>1, <1>2, MarkWrite, TornAssumption

\* Every step keeps the active generation marked until it is proven.
LEMMA NextActiveMarked ==
  ASSUME Faults \cap {"error", "install"} = {}, Commands \cap {"default", "once"} = {}
  PROVE  TInv /\ Recorded /\ Running /\ Remembered /\ ActiveMarked /\ [HNext]_hvars
           => ActiveMarked'
<1>. SUFFICES ASSUME TInv, Recorded, Running, Remembered, ActiveMarked, [HNext]_hvars
              PROVE  ActiveMarked'
  OBVIOUS
<1>1. /\ "error" \notin Faults /\ "install" \notin Faults
      /\ default = NONE /\ once = NONE /\ default' = NONE /\ once' = NONE
  BY DefaultsKept DEF ActiveMarked
<1>2. /\ state \in States \cup {TORN} /\ Picked /\ active \in OnDisk /\ OnDisk \subseteq Gens
      /\ NONE \notin Gens /\ LATEST # NONE /\ \A g \in OnDisk : links[g] \in Systems
  BY InstallTarget, NoneAssumption DEF TInv, HTypeOK, TypeOK, OnDisk
<1>3. ASSUME phase # "system" \/ state' = state, active' = active,
             links'[active] = links[active], UNCHANGED <<proven, misled>>,
             phase' = "commit" /\ pick'.by = "instant" /\ ~misled =>
               links'[pick'.gen] \notin marked \ proven
      PROVE  ActiveMarked'
  <2>1. /\ state' # TORN => state # TORN /\ state'.unproven = state.unproven
        /\ marked' = marked
    BY <1>3, MarkKept
  <2>. QED
    BY <1>1, <1>3, <2>1 DEF ActiveMarked, InstantBootIsProven
<1>4. ASSUME UNCHANGED <<proven, misled>>, Pauses
      PROVE  ActiveMarked'
  <2>1. active' = active /\ links'[active] = links[active]
    BY <1>2, <1>4 DEF Pauses, PowerOn, BootError, TakeRetry, Shell,
       PowerOff, DeleteGeneration, RebootInto, RetryGeneration, SetDefault, RebootRescue, profile,
       vars, TInv, HTypeOK, TypeOK
  <2>2. phase' = "commit" => UNCHANGED <<phase, pick, links>>
    BY <1>4, PausesKeep DEF vars, profile
  <2>3. InstantBootIsProven
    BY DEF ActiveMarked
  <2>. QED
    BY <1>3, <1>4, <2>1, <2>2, <2>3, PausesKeep DEF InstantBootIsProven
<1>5. ASSUME UNCHANGED <<proven, misled>>, Kexec
      PROVE  ActiveMarked'
  BY <1>3, <1>5 DEF Kexec, Start, Refuse, profile
<1>6. ASSUME UNCHANGED <<proven, misled>>, RecordRetry
      PROVE  ActiveMarked'
  <2>1. phase = "authorize" /\ pick.by = "retry" /\ UNCHANGED <<links, active, pick>>
    BY <1>2, <1>6 DEF RecordRetry, profile, Picked
  <2>. QED
    BY <1>3, <1>6, <2>1
<1>7. ASSUME UNCHANGED <<proven, misled>>, TakeRescueExit
      PROVE  ActiveMarked'
  <2>1. phase = "exit" /\ UNCHANGED <<links, active>>
    BY <1>7 DEF TakeRescueExit, profile
  <2>2. phase' = "commit" => pick'.by = "exit"
    <3>1. CASE state = TORN
      BY <1>7, <3>1 DEF TakeRescueExit
    <3>2. CASE state \in States
      BY <1>7, <3>2, ExitStep
    <3>. QED
      BY <1>2, <3>1, <3>2
  <2>. QED
    BY <1>3, <1>7, <2>1, <2>2
<1>8. ASSUME UNCHANGED <<proven, misled>>, Select
      PROVE  ActiveMarked'
  <2>1. /\ phase = "select" /\ UNCHANGED <<links, active>> /\ state \in States /\ state # TORN
    BY <1>2, <1>8 DEF Select, profile, Picked
  <2>2. Default = active
    BY <1>1, <1>2 DEF Default
  <2>3. phase' = "commit" /\ pick'.by = "instant" => pick'.gen = active /\ Instant(state)
    BY <1>2, <1>8, <2>1, <2>2, SelectStep DEF Selects
  <2>4. ~misled /\ Instant(state) => links[active] \notin marked \ proven
    BY <2>1 DEF Instant, ActiveMarked
  <2>. QED
    BY <1>3, <1>8, <2>1, <2>3, <2>4
<1>9. ASSUME UNCHANGED <<proven, misled>>, RescueReady
      PROVE  ActiveMarked'
  <2>1. phase = "rescue" /\ UNCHANGED <<links, active>> /\ state \in States
    BY <1>2, <1>9 DEF RescueReady, profile
  <2>2. phase' # "commit"
    BY <1>9, <2>1, ReadyStep
  <2>. QED
    BY <1>3, <1>9, <2>1, <2>2
<1>10. CASE HSucceed
  <2>1. /\ phase = "system" /\ UNCHANGED <<links, active, marked>>
        /\ proven' = proven \cup {running} /\ state \in States /\ state # TORN
        /\ ~misled' => ~misled /\ (pick.by = "menu" /\ ~state.ok => state.last = pick.gen)
    BY <1>2, <1>10 DEF HSucceed, Succeed, profile
  <2>2. phase' # "commit"
    BY <1>10, <2>1, SucceedStep DEF HSucceed
  <2>3. state' # TORN => state'.unproven = state.unproven \/ state.unproven = state.last
    BY <1>1, <1>10, <2>1, SucceedStep, SuccessWrite DEF HSucceed
  <2>4. ~misled' /\ state.last = active => links[active] \in proven'
    <3>1. ~misled' /\ ~state.ok => state.last = pick.gen
      BY <2>1 DEF Recorded, Decided
    <3>2. state.last = pick.gen /\ state.last = active => links[active] = running
      BY <1>2, <2>1 DEF Running
    <3>3. ~misled' /\ state.ok /\ state.last = active => links[active] \in proven
      BY <1>2, <2>1 DEF Remembered
    <3>. QED
      BY <2>1, <3>1, <3>2, <3>3
  <2>. QED
    BY <1>1, <2>1, <2>2, <2>3, <2>4 DEF ActiveMarked, InstantBootIsProven
<1>11. ASSUME UNCHANGED <<proven, misled>>, NEW h \in OnDisk, Switch(h)
       PROVE  ActiveMarked'
  <2>1. active' = h /\ links' = links /\ Install(h, links[h]) /\ phase = "system"
    BY <1>11 DEF Switch
  <2>2. ~misled /\ state # TORN => /\ state.ok /\ state.last = h => links[h] \in proven
                                   /\ h \in KnownGood(state) => links[h] \in proven
    BY DEF Remembered
  <2>3. /\ ~misled /\ state' # TORN => links[h] \in proven \/ state'.unproven = h
        /\ phase' # "commit"
    BY <1>1, <1>2, <2>1, <2>2, InstalledMarked, Installs
  <2>. QED
    BY <1>1, <1>11, <2>1, <2>3 DEF ActiveMarked, InstantBootIsProven
<1>12. ASSUME UNCHANGED <<proven, misled>>, NEW y \in Systems, Deploy(y)
       PROVE  ActiveMarked'
  <2>1. /\ Newest + 1 \in Gens /\ Newest \in Nat /\ Install(Newest + 1, y) /\ phase = "system"
        /\ active' = Newest + 1 /\ links'[active'] = y
    BY <1>12, InstallTarget DEF Deploy, TInv, HTypeOK, TypeOK
  <2>2. state # TORN => state.last # Newest + 1 /\ Newest + 1 \notin KnownGood(state)
    <3>1. ~(Newest + 1 <= Newest) /\ Newest + 1 # NONE
      BY <1>2, <2>1
    <3>. QED
      BY <3>1 DEF Remembered
  <2>3. /\ state' # TORN => y \in proven \/ state'.unproven = Newest + 1
        /\ phase' # "commit"
    BY <1>1, <1>2, <2>1, <2>2, InstalledMarked
  <2>. QED
    BY <1>1, <1>12, <2>1, <2>3 DEF ActiveMarked, InstantBootIsProven
<1>13. ASSUME UNCHANGED <<proven, misled>>, Retry
       PROVE  ActiveMarked'
  BY <1>3, <1>13 DEF Retry, RetryFromMenu, Start, Refuse, profile
<1>. QED
  BY <1>4, <1>5, <1>6, <1>7, <1>8, <1>9, <1>10, <1>11, <1>12, <1>13, ProvenSteps DEF Reads

\* lib/install-bootloader.nix: "until a boot of it succeeds, NMBL neither
\* instant-boots it nor treats it as known-good".  It does not, if the installer
\* marks what is installed, no write of state.bin fails, no number is given out
\* twice, the operator sets no default, and no success of a boot from the
\* emergency menu was recorded as that of another generation: StatefulInstant
\* refutes it with a default, StatefulMenu the last.
THEOREM InstantBoot ==
  ASSUME Faults \cap {"error", "install"} = {}, Commands \cap {"default", "once"} = {},
         ~Reuse
  PROVE  HSpec => []InstantBootIsProven
<1>1. HInit => Recorded /\ Running /\ Remembered /\ ActiveMarked
  <2>. SUFFICES ASSUME HInit PROVE Recorded /\ Running /\ Remembered /\ ActiveMarked
    OBVIOUS
  <2>1. /\ phase = "off" /\ state.last = NONE /\ state.ok /\ marked = {}
        /\ default = NONE /\ once = NONE
        /\ KnownGood(state) = {} /\ NONE \notin OnDisk
    BY NoneAssumption DEF HInit, Init, Fresh, KnownGood, OnDisk
  <2>. QED
    BY <2>1 DEF Recorded, Decided, Running, Remembered, ActiveMarked, InstantBootIsProven
<1>2. ActiveMarked => InstantBootIsProven
  BY DEF ActiveMarked
<1>3. TInv /\ Recorded /\ Running /\ Remembered /\ ActiveMarked /\ [HNext]_hvars
        => Recorded' /\ Running' /\ Remembered' /\ ActiveMarked'
  BY NextRecorded, NextRunning, NextRemembered, NextActiveMarked
<1>. QED
  BY <1>1, <1>2, <1>3, InitType, NextType, PTL DEF HSpec

=============================================================================
