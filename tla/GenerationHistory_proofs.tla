---------------------- MODULE GenerationHistory_proofs ----------------------
(***************************************************************************)
(* Proofs about GenerationHistory, for every set of generations, with      *)
(* automatic roll-back on or off: the boot loop is bounded, and what the   *)
(* docs say of first attempts, failures and roll-backs holds as long as    *)
(* nothing is cut short and no rescue is requested.                        *)
(***************************************************************************)
EXTENDS GenerationHistory, GenerationState_proofs

HNext == Orderly \/ Disturbed \/ Diverted

\* What prepare_boot still has to write of a roll-back; once the attempt names
\* the tested generation there is nothing left to roll back to.
FallingBack ==
  /\ link["tested"] \in Gens
  /\ \E f \in Gens :
       \/ todo = Rollback(f, link["tested"])
       \/ todo = Tail(Rollback(f, link["tested"]))
       \/ /\ todo \in {<< Remove({"pending"}), Write("event", f) >>,
                       << Write("event", f) >>, <<>>}
          /\ link["attempted"] = link["tested"]

\* What the number of boots since the last intervention says of the selectors:
\* after one boot the attempt is open, and only a roll-back can lead to the
\* next; after two no boot can follow.
Counted ==
  /\ tries \in 0..2
  /\ tries > 0 => op \in {"idle", "gc", "prepare"} /\ link["attempted"] # NONE
  /\ tries > 0 /\ op = "prepare" => FallingBack
  /\ tries > 0 /\ (op = "prepare" \/ boot = "prepared") => AutomaticRollback
  /\ tries > 0 /\ boot = "prepared" => ~CanRollBack
  /\ tries = 2 => AutomaticRollback /\ ~CanRollBack /\ op # "prepare" /\ boot # "prepared"

-----------------------------------------------------------------------------
(* Kinds of steps *)

\* A step that neither boots nor decides, and leaves an open attempt open.
LEMMA QuietStep ==
  ASSUME Counted, tries' = tries, boot' # "prepared",
         tries > 0 => op' \in {"idle", "gc"} /\ link'["attempted"] # NONE,
         tries = 2 => link' = link
  PROVE  Counted'
  BY DEF Counted, CanRollBack

\* Whatever an operator or mark-success begins, the count starts again.
LEMMA Intervention ==
  ASSUME tries' = 0
  PROVE  Counted'
  BY DEF Counted

\* With a boot counted only gc and PID 1 can hold the flock, and gc plans no write.
LEMMA NothingPlanned ==
  ASSUME IInv, Counted, tries > 0, todo # <<>>
  PROVE  op = "prepare" /\ boot = "init" /\ tries = 1
  BY DEF IInv, Holding, Counted

\* The boot itself: the second one comes after a roll-back only.
LEMMA KexecCounted ==
  ASSUME IInv, Counted, Kexec, Record
  PROVE  Counted'
<1>1. /\ boot = "prepared" /\ boot' = "up" /\ UNCHANGED <<link, op, todo>>
      /\ tries' = tries + 1
  BY DEF Kexec, Record, Booted, disk, lock
<1>2. op = "idle" /\ link["attempted"] # NONE
  BY <1>1 DEF IInv, Holding, PreparedAttempt
<1>3. tries \in 0..1
  BY <1>1 DEF Counted
<1>4. (tries > 0 => AutomaticRollback /\ ~CanRollBack) /\ (CanRollBack' <=> CanRollBack)
  BY <1>1, <1>3 DEF Counted, CanRollBack
<1> QED
  BY <1>1, <1>2, <1>3, <1>4 DEF Counted

\* The decision: with an attempt open it is a roll-back or none.
LEMMA PrepareCounted ==
  ASSUME IInv, Counted, PrepareRollback \/ PrepareProceed, Record
  PROVE  Counted'
<1>1. /\ boot = "init" /\ boot' = "init" /\ op = "idle" /\ op' = "prepare"
      /\ UNCHANGED link
  BY DEF PrepareRollback, PrepareProceed, Take, disk
<1>2. tries' = tries
  BY <1>1 DEF Record, Booted, Intervened
<1>3. CASE tries = 0
  BY <1>2, <1>3 DEF Counted
<1>4. CASE tries > 0
  <2>1. CanRollBack /\ todo' = Rollback(link["attempted"], link["tested"])
    BY <1>4 DEF Counted, PrepareRollback, PrepareProceed, Take
  <2>2. tries = 1 /\ AutomaticRollback /\ link["attempted"] # NONE
    BY <1>4, <2>1 DEF Counted, CanRollBack
  <2>3. link["attempted"] \in Gens /\ link["tested"] \in Gens
    BY <2>1, <2>2 DEF CanRollBack, IInv, TypeOK, Names, Slot
  <2>4. FallingBack'
    BY <1>1, <2>1, <2>3 DEF FallingBack
  <2> QED
    BY <1>1, <1>2, <2>2, <2>4 DEF Counted
<1> QED
  BY <1>3, <1>4 DEF Counted

\* Each write of a roll-back leaves a roll-back, with the attempt open.
LEMMA DoWriteCounted ==
  ASSUME IInv, Counted, DoWrite, Record
  PROVE  Counted'
<1> DEFINE b == Head(todo)
<1>1. todo # <<>> /\ todo' = Tail(todo) /\ UNCHANGED <<boot, op>>
  BY DEF DoWrite
<1>2. tries' = tries
  BY <1>1 DEF Record, Booted, Intervened
<1>3. CASE tries = 0
  BY <1>2, <1>3 DEF Counted
<1>4. CASE tries > 0
  <2>1. op = "prepare" /\ boot = "init" /\ tries = 1
    BY <1>1, <1>4, NothingPlanned
  <2>2. \A n \in Names : link'[n] = IF n \in DOMAIN b THEN b[n] ELSE link[n]
    BY WholeWritten
  <2>3. FallingBack /\ link["attempted"] # NONE /\ AutomaticRollback
    BY <1>4, <2>1 DEF Counted
  <2> DEFINE t == link["tested"]
  <2>4. PICK f \in Gens :
          \/ todo = Rollback(f, t)
          \/ todo = Tail(Rollback(f, t))
          \/ /\ todo \in {<< Remove({"pending"}), Write("event", f) >>,
                          << Write("event", f) >>, <<>>}
             /\ link["attempted"] = t
    BY <2>3 DEF FallingBack
  <2>5. t \in Gens /\ t # NONE
    BY <2>3, NoneAssumption DEF FallingBack
  <2>6. FallingBack' /\ link'["attempted"] # NONE
    <3>1. CASE todo = Rollback(f, t)
      <4>1. b = Write("active", t) /\ todo' = Tail(Rollback(f, t))
        BY <1>1, <3>1 DEF Rollback
      <4>2. link'["tested"] = t /\ link'["attempted"] = link["attempted"]
        BY <2>2, <4>1 DEF Write, Names
      <4> QED
        BY <2>3, <2>5, <4>1, <4>2 DEF FallingBack
    <3>2. CASE todo = Tail(Rollback(f, t))
      <4>1. b = Write("attempted", t)
            /\ todo' = << Remove({"pending"}), Write("event", f) >>
        BY <1>1, <3>2, RollbackTail
      <4>2. link'["tested"] = t /\ link'["attempted"] = t
        BY <2>2, <4>1 DEF Write, Names
      <4> QED
        BY <2>5, <4>1, <4>2 DEF FallingBack
    <3>3. CASE todo = << Remove({"pending"}), Write("event", f) >> /\ link["attempted"] = t
      <4>1. b = Remove({"pending"}) /\ todo' = << Write("event", f) >>
        BY <1>1, <3>3
      <4>2. link'["tested"] = t /\ link'["attempted"] = t
        BY <2>2, <3>3, <4>1 DEF Remove, Names
      <4> QED
        BY <2>5, <4>1, <4>2 DEF FallingBack
    <3>4. CASE todo = << Write("event", f) >> /\ link["attempted"] = t
      <4>1. b = Write("event", f) /\ todo' = <<>>
        BY <1>1, <3>4
      <4>2. link'["tested"] = t /\ link'["attempted"] = t
        BY <2>2, <3>4, <4>1 DEF Write, Names
      <4> QED
        BY <2>5, <4>1, <4>2 DEF FallingBack
    <3> QED
      BY <1>1, <2>4, <3>1, <3>2, <3>3, <3>4
  <2> QED
    BY <1>1, <1>2, <2>1, <2>3, <2>6 DEF Counted
<1> QED
  BY <1>3, <1>4 DEF Counted

\* A roll-back that is complete names the tested generation as the attempt.
LEMMA FinishCounted ==
  ASSUME IInv, Counted, Finish, Record
  PROVE  Counted'
<1>1. /\ op # "idle" /\ todo = <<>> /\ op' = "idle" /\ UNCHANGED link
      /\ boot' = IF op = "prepare" THEN "prepared" ELSE boot
  BY DEF Finish, Release, disk
<1>2. tries' = tries
  BY <1>1 DEF Record, Booted, Intervened, IInv, Holding
<1>3. CASE tries > 0 /\ op = "prepare"
  <2>1. FallingBack /\ tries = 1 /\ AutomaticRollback /\ link["attempted"] # NONE
    BY <1>3 DEF Counted
  <2>2. link["attempted"] = link["tested"]
    <3>1. ASSUME NEW f, NEW t
          PROVE  Rollback(f, t) # <<>> /\ Tail(Rollback(f, t)) # <<>>
      BY DEF Rollback
    <3> QED
      BY <1>1, <2>1, <3>1 DEF FallingBack
  <2>3. ~CanRollBack'
    BY <1>1, <2>2 DEF CanRollBack
  <2> QED
    BY <1>1, <1>2, <1>3, <2>1, <2>3 DEF Counted
<1>4. CASE tries = 0
  BY <1>2, <1>4 DEF Counted
<1>5. CASE tries > 0 /\ op # "prepare"
  <2>1. boot' # "prepared"
    BY <1>1, <1>5 DEF IInv, Holding
  <2>2. link["attempted"] # NONE
    BY <1>5 DEF Counted
  <2> QED
    BY <1>1, <1>2, <1>5, <2>1, <2>2, QuietStep
<1> QED
  BY <1>3, <1>4, <1>5 DEF Counted

\* A crash, an error or a boot from the menu leaves any part of the current
\* write behind; no part of a roll-back's writes closes the attempt.
LEMMA CrashCounted ==
  ASSUME IInv, Counted, PowerLoss \/ Fail \/ RetryBoot, Record
  PROVE  Counted'
<1>1. /\ Interrupted /\ op' = "idle"
      /\ boot' = "prepared" => op # "idle" /\ boot = "prepared"
      /\ boot' = "up" => boot # "prepared"
  BY DEF PowerLoss, Fail, RetryBoot, Release
<1>2. boot' # "prepared"
  BY <1>1 DEF IInv, Holding
<1>3. boot' # "up" \/ boot # "prepared"
  BY <1>1
<1>4. tries' = tries
  BY <1>1, <1>3 DEF Record, Booted, Intervened
<1>5. CASE todo = <<>>
  <2>1. link' = link
    BY <1>1, <1>5 DEF Interrupted
  <2> QED
    BY <1>1, <1>2, <1>4, <2>1, QuietStep DEF Counted
<1>6. CASE todo # <<>> /\ tries > 0
  <2>1. op = "prepare" /\ tries = 1 /\ FallingBack /\ link["attempted"] # NONE
    BY <1>6, NothingPlanned DEF Counted
  <2> DEFINE b == Head(todo)
  <2>2. PICK S \in SUBSET DOMAIN b : link' = Apply(link, PartOf(b, S))
    BY <1>1, <1>6 DEF Interrupted
  <2>3. link'["attempted"] \in {link["attempted"], b["attempted"]}
        /\ (link'["attempted"] # link["attempted"] => "attempted" \in DOMAIN b)
    BY <2>2 DEF Apply, PartOf, Names
  <2>4. "attempted" \in DOMAIN b => b["attempted"] # NONE
    <3> DEFINE t == link["tested"]
    <3>1. PICK f \in Gens :
            \/ todo = Rollback(f, t)
            \/ todo = Tail(Rollback(f, t))
            \/ todo \in {<< Remove({"pending"}), Write("event", f) >>, << Write("event", f) >>}
      BY <1>6, <2>1 DEF FallingBack
    <3>2. t # NONE
      BY <2>1, NoneAssumption DEF FallingBack
    <3>3. b \in {Write("active", t), Write("attempted", t), Remove({"pending"}), Write("event", f)}
      BY <3>1, RollbackTail DEF Rollback
    <3> QED
      BY <3>2, <3>3 DEF Write, Remove
  <2> QED
    BY <1>1, <1>2, <1>4, <2>1, <2>3, <2>4, QuietStep
<1>7. CASE tries = 0
  BY <1>4, <1>7 DEF Counted
<1> QED
  BY <1>5, <1>6, <1>7 DEF Counted

\* Steps of operators, of gc and of the receiver.
LEMMA OperatorCounted ==
  ASSUME IInv, Counted, OperatorStep \/ MarkSuccess, Record
  PROVE  Counted'
<1>1. /\ UNCHANGED <<link, boot>> /\ boot \in {"up", "rescue"}
      /\ op' = op \/ (op = "idle" /\ op' \in {"gc", "mark", "activate", "rollback"})
  BY DEF OperatorStep, MarkSuccess, Install, Activate, Receive, ReceiveActivate,
         RollbackByHand, Gc, Take, Operable, disk, lock
<1>2. op # "prepare"
  BY <1>1 DEF IInv, Holding
<1>3. CASE op = "idle" /\ op' \in {"mark", "activate", "rollback"}
  <2>1. tries' = 0
    BY <1>1, <1>3 DEF Record, Booted, Intervened
  <2> QED
    BY <2>1, Intervention
<1>4. CASE ~(op = "idle" /\ op' \in {"mark", "activate", "rollback"})
  <2>1. tries' = tries
    BY <1>1, <1>4 DEF Record, Booted, Intervened
  <2> QED
    BY <1>1, <1>2, <1>4, <2>1, QuietStep DEF Counted
<1> QED
  BY <1>3, <1>4

\* Steps of the machine that write nothing.
LEMMA MachineCounted ==
  ASSUME IInv, Counted, tries' = tries,
         PowerOn \/ PrepareFail \/ ForceRescue \/ BootError \/ HealthCheck \/ Reboot
         \/ \E g \in Gens : Delete(g)
  PROVE  Counted'
<1>1. UNCHANGED <<link, op>>
  BY DEF PowerOn, PrepareFail, ForceRescue, BootError, HealthCheck, Reboot, Delete, disk, lock
<1>2. boot' # "prepared" /\ op # "prepare"
  <2>1. CASE \E g \in Gens : Delete(g)
    BY <2>1 DEF Delete, IInv, Holding
  <2>2. CASE PowerOn \/ PrepareFail \/ ForceRescue \/ BootError \/ HealthCheck \/ Reboot
    BY <2>2 DEF PowerOn, PrepareFail, ForceRescue, BootError, HealthCheck, Reboot, Operable,
       IInv, Holding
  <2> QED
    BY <2>1, <2>2
<1> QED
  BY <1>1, <1>2, QuietStep DEF Counted

-----------------------------------------------------------------------------
(* The invariant *)

LEMMA HistoryStep == IInv /\ Counted /\ [HNext]_hvars => Counted'
<1> SUFFICES ASSUME IInv, Counted, [HNext]_hvars PROVE Counted'
  OBVIOUS
<1>1. CASE UNCHANGED hvars
  BY <1>1 DEF hvars, vars, Counted, CanRollBack, FallingBack
<1>2. CASE Orderly
  <2>1. CalmStep /\ Record
    BY <1>2 DEF Orderly
  <2>2. ASSUME PowerOn \/ PrepareFail \/ HealthCheck \/ Reboot \/ \E g \in Gens : Delete(g)
        PROVE  tries' = tries
    <3>1. op' = op /\ ~Booted
      BY <2>2 DEF PowerOn, PrepareFail, HealthCheck, Reboot, Delete, lock, Booted
    <3> QED
      BY <2>1, <3>1 DEF Record, Intervened
  <2>3. CASE BootStep
    BY <2>1, <2>2, <2>3, MachineCounted, PrepareCounted, KexecCounted DEF BootStep
  <2>4. CASE HolderStep
    BY <2>1, <2>2, <2>4, MachineCounted, DoWriteCounted, FinishCounted DEF HolderStep
  <2>5. CASE OperatorStep \/ MarkSuccess
    BY <2>1, <2>5, OperatorCounted
  <2>6. CASE HealthCheck \/ Reboot
    BY <2>2, <2>6, MachineCounted
  <2>7. CASE RetryBoot
    BY <2>1, <2>7, CrashCounted
  <2> QED
    BY <2>1, <2>3, <2>4, <2>5, <2>6, <2>7 DEF CalmStep
<1>3. CASE Disturbed
  <2>1. CASE BootError
    <3>1. tries' = tries
      BY <1>3, <2>1 DEF Disturbed, Record, Booted, Intervened, BootError, lock
    <3> QED
      BY <2>1, <3>1, MachineCounted
  <2> QED
    BY <1>3, <2>1, CrashCounted DEF Disturbed
<1>4. CASE Diverted
  BY <1>4, MachineCounted DEF Diverted
<1> QED
  BY <1>1, <1>2, <1>3, <1>4 DEF HNext

\* The record changes nothing of what the machine does.
LEMMA HistoryIsSpec == HSpec => Spec
<1>1. HInit => Init
  BY DEF HInit
<1>2. [HNext]_hvars => [Next]_vars
  BY DEF HNext, hvars, Orderly, Disturbed, Diverted, Next, Mishap
<1> QED
  BY <1>1, <1>2, PTL DEF HSpec, Spec, HNext

\* Without an operator or a recorded success a target is booted at most twice,
\* at most once without automatic roll-back, wherever and however often the
\* power fails, a write is cut short or rescue is requested (prepare_boot in
\* generation_state.rs records the attempt before it boots).
THEOREM BootLoopEnds == HSpec => []BootLoopBounded
<1>1. HInit => Counted
  BY DEF HInit, Counted
<1>2. Counted => BootLoopBounded
  BY DEF Counted, BootLoopBounded
<1>3. HSpec => []IInv
  BY HistoryIsSpec, Invariance, PTL
<1> QED
  BY <1>1, <1>2, <1>3, HistoryStep, PTL DEF HSpec, HNext

-----------------------------------------------------------------------------
(* While nothing is cut short *)

\* No program holds the flock but gc: an attempt is open for the active
\* generation and is not confirmed, and the active generation is a pending or
\* the tested one.
Settled ==
  /\ link["attempted"] # NONE => link["attempted"] = link["active"] /\ last = "failed"
  /\ link["active"] # NONE => link["active"] \in {link["pending"], link["tested"]}

\* What prepare_boot still has to write, and what it wrote.
Preparing ==
  /\ last = "failed"
  /\ \/ /\ todo \in {<< Write("attempted", link["active"]) >>, <<>>}
        /\ link["active"] \in {link["pending"], link["tested"]}
     \/ \E f \in Gens : todo = Rollback(f, link["tested"])
     \/ /\ link["active"] = link["tested"]
        /\ \E f \in Gens :
             todo \in {Tail(Rollback(f, link["tested"])),
                       << Remove({"pending"}), Write("event", f) >>, << Write("event", f) >>}

\* What mark-success still has to write.
Confirmation(g) ==
  << Write("tested", g), Remove({"pending"}), Remove({"event"}), Remove({"attempted"}) >>

Confirming ==
  \/ todo = Confirmation(link["active"])
  \/ /\ link["tested"] = link["active"]
     /\ \/ todo \in {<< Remove({"pending"}), Remove({"event"}), Remove({"attempted"}) >>,
                     << Remove({"event"}), Remove({"attempted"}) >>,
                     << Remove({"attempted"}) >>}
        \/ todo = <<>> /\ link["attempted"] = NONE

\* What an activation still has to write.
Untake(known) == Remove({"attempted", "event"} \cup (IF known THEN {"pending"} ELSE {}))

Activating ==
  \E g \in Gens, old \in Slot, moved \in BOOLEAN, known \in BOOLEAN :
    /\ known => link["tested"] = g
    /\ \/ /\ link["attempted"] \in {NONE, link["active"]}
          /\ todo \in {<< When(moved, Write("previous", old)), Write("active", g),
                          When(~known, Write("pending", g)), Untake(known) >>,
                       << Write("active", g), When(~known, Write("pending", g)), Untake(known) >>}
       \/ link["active"] = g /\ todo = << When(~known, Write("pending", g)), Untake(known) >>
       \/ /\ link["active"] = g /\ (~known => link["pending"] = g)
          /\ todo = << Untake(known) >> \/ (todo = <<>> /\ link["attempted"] = NONE)

\* What a roll-back by hand still has to write.
Returning ==
  /\ link["attempted"] = NONE
  /\ \E g \in Gens, old \in Slot, moved \in BOOLEAN, known \in BOOLEAN :
       LET choice == IF known THEN Remove({"pending"}) ELSE Write("pending", g)
       IN /\ known => link["tested"] = g
          /\ \/ todo \in {<< When(moved, Write("previous", old)), Write("active", g), choice >>,
                          << Write("active", g), choice >>}
             \/ link["active"] = g /\ todo = << choice >>
             \/ link["active"] = g /\ todo = <<>> /\ (~known => link["pending"] = g)

\* A generation whose attempt is open has been booted.
Tried ==
  link["attempted"] # NONE /\ op # "prepare" /\ boot # "prepared"
    => link["attempted"] \notin untried

CalmInv ==
  calm => /\ op \in {"idle", "gc"} => Settled
          /\ op = "prepare" => Preparing
          /\ op = "mark" => Confirming
          /\ op = "activate" => Activating
          /\ op = "rollback" => Returning
          /\ Tried

\* The next write sets one selector, or removes some.
LEMMA NextSets ==
  ASSUME IInv, DoWrite, NEW n \in Names, NEW g, Head(todo) = Write(n, g)
  PROVE  link'[n] = g /\ \A m \in Names \ {n} : link'[m] = link[m]
  BY WholeWritten DEF Write

LEMMA NextRemoves ==
  ASSUME IInv, DoWrite, NEW S, Head(todo) = Remove(S)
  PROVE  \A m \in Names : link'[m] = IF m \in S THEN NONE ELSE link[m]
  BY WholeWritten DEF Remove

\* The first write of a plan, and the rest.
LEMMA FirstOfFour ==
  ASSUME NEW a, NEW b, NEW c, NEW d
  PROVE  /\ Head(<<a, b, c, d>>) = a /\ Tail(<<a, b, c, d>>) = <<b, c, d>>
         /\ Len(<<a, b, c, d>>) = 4
  OBVIOUS

LEMMA FirstOfThree ==
  ASSUME NEW a, NEW b, NEW c
  PROVE  /\ Head(<<a, b, c>>) = a /\ Tail(<<a, b, c>>) = <<b, c>> /\ Len(<<a, b, c>>) = 3
  OBVIOUS

LEMMA FirstOfTwo ==
  ASSUME NEW a, NEW b
  PROVE  /\ Head(<<a, b>>) = a /\ Tail(<<a, b>>) = <<b>>
         /\ Head(<<a>>) = a /\ Tail(<<a>>) = <<>>
  OBVIOUS

\* A step that writes no selector, and ends no boot that is prepared.
LEMMA QuietCalm ==
  ASSUME CalmInv, calm, UNCHANGED <<link, op, todo, last, untried>>,
         boot = "prepared" => boot' = "prepared"
  PROVE  CalmInv'
<1>1. UNCHANGED <<Settled, Preparing, Confirming, Activating, Returning>>
  BY DEF Settled, Preparing, Confirming, Activating, Returning
<1>2. Tried'
  BY DEF CalmInv, Tried
<1>. QED
  BY <1>1, <1>2 DEF CalmInv

\* A boot clears the attempt's generation of the untried ones.
LEMMA KexecCalm ==
  ASSUME IInv, CalmInv, calm, Kexec, Record
  PROVE  CalmInv'
<1>1. /\ boot = "prepared" /\ boot' = "up" /\ UNCHANGED <<link, op, todo>>
      /\ running' = link["active"]
  BY DEF Kexec, disk, lock
<1>2. op = "idle" /\ link["attempted"] = link["active"]
  BY <1>1 DEF IInv, Holding, PreparedAttempt
<1>3. last' = last /\ untried' = untried \ {link["active"]}
  BY <1>1, <1>2 DEF Record, Booted, Retried, Attempt, Confirmed
<1>4. Settled'
  BY <1>1, <1>2, <1>3 DEF CalmInv, Settled
<1>. QED
  BY <1>1, <1>2, <1>3, <1>4 DEF CalmInv, Tried

\* prepare_boot decides on what the programs before it left.
LEMMA PrepareCalm ==
  ASSUME IInv, CalmInv, calm, PrepareRollback \/ PrepareProceed, Record
  PROVE  CalmInv'
<1>1. /\ op = "idle" /\ op' = "prepare" /\ UNCHANGED link /\ last' = "failed"
  BY DEF PrepareRollback, PrepareProceed, Take, disk, Record, Attempt
<1>2. CASE PrepareProceed
  <2>1. /\ todo' = << Write("attempted", link["active"]) >>
        /\ link["active"] \in {link["pending"], link["tested"]}
    BY <1>1, <1>2 DEF PrepareProceed, Take, Legible, CalmInv, Settled
  <2>. QED
    BY <1>1, <2>1 DEF CalmInv, Preparing, Tried
<1>3. CASE PrepareRollback
  <2>1. /\ todo' = Rollback(link["attempted"], link["tested"])
        /\ link["attempted"] \in Gens
    BY <1>3 DEF PrepareRollback, Take, CanRollBack, IInv, TypeOK, Names, Slot
  <2>. QED
    BY <1>1, <2>1 DEF CalmInv, Preparing, Tried
<1>. QED
  BY <1>2, <1>3

\* prepare_boot's writes.
LEMMA PreparingWrites ==
  ASSUME IInv, DoWrite, Preparing, last' = last
  PROVE  Preparing'
<1>1. todo # <<>> /\ todo' = Tail(todo) /\ last' = "failed"
  BY DEF DoWrite, Preparing
<1>. DEFINE t == link["tested"]
<1>2. CASE /\ todo = << Write("attempted", link["active"]) >>
           /\ link["active"] \in {link["pending"], t}
  <2>1. Head(todo) = Write("attempted", link["active"]) /\ todo' = <<>>
    BY <1>1, <1>2, FirstOfTwo
  <2>2. /\ link'["active"] = link["active"] /\ link'["pending"] = link["pending"]
        /\ link'["tested"] = t
    BY <2>1, NextSets DEF Names
  <2>. QED
    BY <1>1, <1>2, <2>1, <2>2 DEF Preparing
<1>3. ASSUME NEW f \in Gens, todo = Rollback(f, t)
      PROVE  Preparing'
  <2>1. Head(todo) = Write("active", t) /\ todo' = Tail(Rollback(f, t))
    BY <1>1, <1>3 DEF Rollback
  <2>2. link'["active"] = t /\ link'["tested"] = t
    BY <2>1, NextSets DEF Names
  <2>. QED
    BY <1>1, <2>1, <2>2 DEF Preparing
<1>4. ASSUME NEW f \in Gens, link["active"] = t, todo = Tail(Rollback(f, t))
      PROVE  Preparing'
  <2>1. /\ Head(todo) = Write("attempted", t)
        /\ todo' = << Remove({"pending"}), Write("event", f) >>
    BY <1>1, <1>4, RollbackTail
  <2>2. link'["active"] = t /\ link'["tested"] = t
    BY <1>4, <2>1, NextSets DEF Names
  <2>. QED
    BY <1>1, <2>1, <2>2 DEF Preparing
<1>5. ASSUME NEW f \in Gens, link["active"] = t,
             todo = << Remove({"pending"}), Write("event", f) >>
      PROVE  Preparing'
  <2>1. Head(todo) = Remove({"pending"}) /\ todo' = << Write("event", f) >>
    BY <1>1, <1>5, FirstOfTwo
  <2>2. link'["active"] = t /\ link'["tested"] = t
    BY <1>5, <2>1, NextRemoves DEF Names
  <2>. QED
    BY <1>1, <2>1, <2>2 DEF Preparing
<1>6. ASSUME NEW f \in Gens, link["active"] = t, todo = << Write("event", f) >>
      PROVE  Preparing'
  <2>1. Head(todo) = Write("event", f) /\ todo' = <<>>
    BY <1>1, <1>6, FirstOfTwo
  <2>2. link'["active"] = t /\ link'["tested"] = t
    BY <1>6, <2>1, NextSets DEF Names
  <2>. QED
    BY <1>1, <2>1, <2>2 DEF Preparing
<1>. QED
  BY <1>1, <1>2, <1>3, <1>4, <1>5, <1>6 DEF Preparing

\* mark-success's writes: the running generation is tested, and its attempt is
\* closed last.
LEMMA ConfirmingWrites ==
  ASSUME IInv, DoWrite, Confirming
  PROVE  Confirming'
<1>1. todo # <<>> /\ todo' = Tail(todo)
  BY DEF DoWrite
<1>. DEFINE a == link["active"]
<1>2. CASE todo = Confirmation(a)
  <2>1. /\ Head(todo) = Write("tested", a)
        /\ todo' = << Remove({"pending"}), Remove({"event"}), Remove({"attempted"}) >>
    BY <1>1, <1>2, FirstOfFour DEF Confirmation
  <2>2. link'["tested"] = a /\ link'["active"] = a
    BY <2>1, NextSets DEF Names
  <2>. QED
    BY <2>1, <2>2 DEF Confirming
<1>3. CASE link["tested"] = a /\ todo = << Remove({"pending"}), Remove({"event"}), Remove({"attempted"}) >>
  <2>1. /\ Head(todo) = Remove({"pending"})
        /\ todo' = << Remove({"event"}), Remove({"attempted"}) >>
    BY <1>1, <1>3, FirstOfThree
  <2>2. link'["tested"] = a /\ link'["active"] = a
    BY <1>3, <2>1, NextRemoves DEF Names
  <2>. QED
    BY <2>1, <2>2 DEF Confirming
<1>4. CASE link["tested"] = a /\ todo = << Remove({"event"}), Remove({"attempted"}) >>
  <2>1. Head(todo) = Remove({"event"}) /\ todo' = << Remove({"attempted"}) >>
    BY <1>1, <1>4, FirstOfTwo
  <2>2. link'["tested"] = a /\ link'["active"] = a
    BY <1>4, <2>1, NextRemoves DEF Names
  <2>. QED
    BY <2>1, <2>2 DEF Confirming
<1>5. CASE link["tested"] = a /\ todo = << Remove({"attempted"}) >>
  <2>1. Head(todo) = Remove({"attempted"}) /\ todo' = <<>>
    BY <1>1, <1>5, FirstOfTwo
  <2>2. link'["tested"] = a /\ link'["active"] = a /\ link'["attempted"] = NONE
    BY <1>5, <2>1, NextRemoves DEF Names
  <2>. QED
    BY <2>1, <2>2 DEF Confirming
<1>. QED
  BY <1>1, <1>2, <1>3, <1>4, <1>5 DEF Confirming

\* An activation's writes: the attempt of the generation that was active is
\* closed last, and is the attempt of no other generation.
LEMMA ActivatingWrites ==
  ASSUME IInv, DoWrite, Activating
  PROVE  /\ Activating'
         /\ link'["attempted"] \in {link["attempted"], NONE}
         /\ link'["active"] # link["active"] => link["attempted"] \in {NONE, link["active"]}
<1>1. todo # <<>> /\ todo' = Tail(todo)
  BY DEF DoWrite
<1>2. PICK g \in Gens, old \in Slot, moved \in BOOLEAN, known \in BOOLEAN :
        /\ known => link["tested"] = g
        /\ \/ /\ link["attempted"] \in {NONE, link["active"]}
              /\ todo \in {<< When(moved, Write("previous", old)), Write("active", g),
                              When(~known, Write("pending", g)), Untake(known) >>,
                           << Write("active", g), When(~known, Write("pending", g)), Untake(known) >>}
           \/ link["active"] = g /\ todo = << When(~known, Write("pending", g)), Untake(known) >>
           \/ /\ link["active"] = g /\ (~known => link["pending"] = g)
              /\ todo = << Untake(known) >> \/ (todo = <<>> /\ link["attempted"] = NONE)
  BY DEF Activating
<1>. DEFINE first == When(moved, Write("previous", old))
            third == When(~known, Write("pending", g))
            fourth == Untake(known)
<1>3. ASSUME Head(todo) = first
      PROVE  \A n \in Names \ {"previous"} : link'[n] = link[n]
  BY <1>3, NextSets, NextRemoves DEF When, Names
<1>4. ASSUME Head(todo) = third
      PROVE  /\ \A n \in Names \ {"pending"} : link'[n] = link[n]
             /\ ~known => link'["pending"] = g
  BY <1>4, NextSets, NextRemoves DEF When, Names
<1>5. ASSUME Head(todo) = fourth
      PROVE  /\ link'["active"] = link["active"] /\ link'["tested"] = link["tested"]
             /\ link'["attempted"] = NONE /\ (~known => link'["pending"] = link["pending"])
  BY <1>5, NextRemoves DEF Untake, Names
<1>. HIDE DEF first, third, fourth
<1>6. CASE /\ link["attempted"] \in {NONE, link["active"]}
           /\ todo = << first, Write("active", g), third, fourth >>
  <2>1. Head(todo) = first /\ todo' = << Write("active", g), third, fourth >>
    BY <1>1, <1>6, FirstOfFour
  <2>. QED
    BY <1>2, <1>3, <1>6, <2>1 DEF Activating, Names, third, fourth
<1>7. CASE /\ link["attempted"] \in {NONE, link["active"]}
           /\ todo = << Write("active", g), third, fourth >>
  <2>1. Head(todo) = Write("active", g) /\ todo' = << third, fourth >>
    BY <1>1, <1>7, FirstOfThree
  <2>2. /\ link'["active"] = g /\ link'["attempted"] = link["attempted"]
        /\ link'["tested"] = link["tested"]
    BY <2>1, NextSets DEF Names
  <2>. QED
    BY <1>2, <1>7, <2>1, <2>2 DEF Activating, third, fourth
<1>8. CASE link["active"] = g /\ todo = << third, fourth >>
  <2>1. Head(todo) = third /\ todo' = << fourth >>
    BY <1>1, <1>8, FirstOfTwo
  <2>. QED
    BY <1>2, <1>4, <1>8, <2>1 DEF Activating, Names, third, fourth
<1>9. CASE link["active"] = g /\ (~known => link["pending"] = g) /\ todo = << fourth >>
  <2>1. Head(todo) = fourth /\ todo' = <<>>
    BY <1>1, <1>9, FirstOfTwo
  <2>. QED
    BY <1>2, <1>5, <1>9, <2>1 DEF Activating
<1>. QED
  BY <1>1, <1>2, <1>6, <1>7, <1>8, <1>9 DEF first, third, fourth

\* The writes of a roll-back by hand: no attempt is open.
LEMMA ReturningWrites ==
  ASSUME IInv, DoWrite, Returning
  PROVE  Returning'
<1>1. todo # <<>> /\ todo' = Tail(todo)
  BY DEF DoWrite
<1>. DEFINE Choice(g, known) == IF known THEN Remove({"pending"}) ELSE Write("pending", g)
<1>2. PICK g \in Gens, old \in Slot, moved \in BOOLEAN, known \in BOOLEAN :
        /\ known => link["tested"] = g
        /\ \/ todo \in {<< When(moved, Write("previous", old)), Write("active", g), Choice(g, known) >>,
                        << Write("active", g), Choice(g, known) >>}
           \/ link["active"] = g /\ todo = << Choice(g, known) >>
  BY <1>1 DEF Returning
<1>3. link["attempted"] = NONE
  BY DEF Returning
<1>. DEFINE first == When(moved, Write("previous", old))
            choice == Choice(g, known)
<1>4. ASSUME Head(todo) = first
      PROVE  \A n \in Names \ {"previous"} : link'[n] = link[n]
  BY <1>4, NextSets, NextRemoves DEF When, Names
<1>5. ASSUME Head(todo) = choice
      PROVE  /\ \A n \in Names \ {"pending"} : link'[n] = link[n]
             /\ ~known => link'["pending"] = g
  BY <1>5, NextSets, NextRemoves DEF Names
<1>. HIDE DEF first, choice
<1>6. CASE todo = << first, Write("active", g), choice >>
  <2>1. Head(todo) = first /\ todo' = << Write("active", g), choice >>
    BY <1>1, <1>6, FirstOfThree
  <2>. QED
    BY <1>2, <1>3, <1>4, <2>1 DEF Returning, Names, choice
<1>7. CASE todo = << Write("active", g), choice >>
  <2>1. Head(todo) = Write("active", g) /\ todo' = << choice >>
    BY <1>1, <1>7, FirstOfTwo
  <2>2. /\ link'["active"] = g /\ link'["attempted"] = NONE
        /\ link'["tested"] = link["tested"]
    BY <1>3, <2>1, NextSets DEF Names
  <2>. QED
    BY <1>2, <2>1, <2>2 DEF Returning, choice
<1>8. CASE link["active"] = g /\ todo = << choice >>
  <2>1. Head(todo) = choice /\ todo' = <<>>
    BY <1>1, <1>8, FirstOfTwo
  <2>. QED
    BY <1>2, <1>3, <1>5, <1>8, <2>1 DEF Returning, Names
<1>. QED
  BY <1>2, <1>6, <1>7, <1>8 DEF first, choice

\* Each write keeps the plan of the program that makes it, and an open attempt
\* stays that of a generation that was booted.
LEMMA DoWriteCalm ==
  ASSUME IInv, CalmInv, calm, DoWrite, Record
  PROVE  CalmInv'
<1>1. /\ todo # <<>> /\ UNCHANGED <<boot, op>> /\ op \notin {"idle", "gc"} /\ op \in Ops
      /\ op # "prepare" => boot # "init"
  BY DEF DoWrite, IInv, Holding, TypeOK
<1>2. /\ untried' = IF Activated THEN untried \cup {link'["active"]} ELSE untried
      /\ op # "mark" => last' = last
  BY <1>1 DEF Record, Booted, Retried, Attempt, Confirmed
<1>3. CASE op = "prepare"
  <2>1. Preparing'
    BY <1>2, <1>3, PreparingWrites DEF CalmInv
  <2>. QED
    BY <1>1, <1>3, <2>1 DEF CalmInv, Tried
<1>4. CASE op = "mark"
  <2>1. Confirming /\ Confirming' /\ untried' = untried
    BY <1>2, <1>4, ConfirmingWrites DEF CalmInv, Activated
  <2>2. link'["attempted"] \in {link["attempted"], NONE}
    <3>1. "attempted" \in DOMAIN Head(todo) => Head(todo)["attempted"] = NONE
      BY <1>4, WholeWritten DEF IInv, Plan, OtherPlan
    <3>. QED
      BY <3>1, WholeWritten DEF Names
  <2>. QED
    BY <1>1, <1>4, <2>1, <2>2 DEF CalmInv, Tried
<1>5. CASE op = "activate"
  <2>1. /\ Activating' /\ link'["attempted"] \in {link["attempted"], NONE}
        /\ link'["active"] # link["active"] => link["attempted"] \in {NONE, link["active"]}
    BY <1>5, ActivatingWrites DEF CalmInv
  <2>2. Tried'
    BY <1>1, <1>2, <1>5, <2>1 DEF CalmInv, Tried, Activated
  <2>. QED
    BY <1>1, <1>5, <2>1, <2>2 DEF CalmInv
<1>6. CASE op = "rollback"
  <2>1. Returning'
    BY <1>6, ReturningWrites DEF CalmInv
  <2>2. link'["attempted"] = NONE
    BY <2>1 DEF Returning
  <2>. QED
    BY <1>1, <1>6, <2>1, <2>2 DEF CalmInv, Tried
<1>. QED
  BY <1>1, <1>3, <1>4, <1>5, <1>6 DEF Ops

\* A program that is done leaves the selectors settled.
LEMMA FinishCalm ==
  ASSUME IInv, CalmInv, calm, Finish, Record
  PROVE  CalmInv'
<1>1. /\ op # "idle" /\ todo = <<>> /\ op' = "idle" /\ UNCHANGED link /\ op \in Ops
      /\ boot' = IF op = "prepare" THEN "prepared" ELSE boot
  BY DEF Finish, Release, disk, IInv, TypeOK
<1>2. op # "prepare" => boot' # "prepared" /\ boot # "prepared"
  BY <1>1 DEF IInv, Holding
<1>3. last' = last /\ untried' = untried
  BY <1>1 DEF Record, Booted, Retried, Activated, Attempt, Confirmed
<1>4. Settled'
  <2>1. CASE op = "prepare"
    <3>1. ASSUME NEW f, NEW t
          PROVE  Rollback(f, t) # <<>> /\ Tail(Rollback(f, t)) # <<>>
      BY DEF Rollback
    <3>2. link["active"] \in {link["pending"], link["tested"]} /\ last = "failed"
      BY <1>1, <2>1, <3>1 DEF CalmInv, Preparing
    <3>3. link["attempted"] = link["active"]
      BY <1>1, <2>1, <3>1 DEF IInv, Plan, PreparePlan
    <3>. QED
      BY <1>1, <1>3, <3>2, <3>3 DEF Settled
  <2>2. CASE op = "mark"
    <3>1. link["tested"] = link["active"] /\ link["attempted"] = NONE
      BY <1>1, <2>2 DEF CalmInv, Confirming, Confirmation
    <3>. QED
      BY <1>1, <3>1 DEF Settled
  <2>3. CASE op = "activate"
    <3>1. /\ link["attempted"] = NONE
          /\ link["active"] \in {link["pending"], link["tested"]}
      BY <1>1, <2>3 DEF CalmInv, Activating
    <3>. QED
      BY <1>1, <3>1 DEF Settled
  <2>4. CASE op = "rollback"
    <3>1. /\ link["attempted"] = NONE
          /\ link["active"] \in {link["pending"], link["tested"]}
      BY <1>1, <2>4 DEF CalmInv, Returning
    <3>. QED
      BY <1>1, <3>1 DEF Settled
  <2>5. CASE op = "gc"
    BY <1>1, <1>3, <2>5 DEF CalmInv, Settled
  <2>. QED
    BY <1>1, <2>1, <2>2, <2>3, <2>4, <2>5 DEF Ops
<1>5. Tried'
  BY <1>1, <1>2, <1>3 DEF CalmInv, Tried
<1>. QED
  BY <1>1, <1>4, <1>5 DEF CalmInv

\* An operator, the receiver, gc or mark-success begins on settled selectors.
LEMMA OperatorCalm ==
  ASSUME IInv, CalmInv, calm, OperatorStep \/ MarkSuccess, Record
  PROVE  CalmInv'
<1>1. /\ UNCHANGED <<link, boot>> /\ boot \in {"up", "rescue"} /\ op # "prepare"
      /\ link \in [Names -> Slot] /\ NONE \notin Gens
  BY NoneAssumption DEF OperatorStep, MarkSuccess, Install, Activate, Receive, ReceiveActivate,
         RollbackByHand, Gc, Take, Operable, disk, lock, IInv, Holding, TypeOK
<1>2. untried' = untried
  BY <1>1 DEF Record, Booted, Retried, Activated
<1>3. ASSUME UNCHANGED lock
      PROVE  CalmInv'
  <2>1. last' = last
    BY <1>1, <1>3 DEF Record, Retried, Attempt, Confirmed, lock
  <2>. QED
    BY <1>1, <1>2, <1>3, <2>1, QuietCalm DEF lock
<1>4. op' # "prepare" => Tried'
  BY <1>1, <1>2 DEF CalmInv, Tried
<1>5. op = "idle" => Settled
  BY DEF CalmInv
<1>6. ASSUME NEW g \in Gens, Take("activate", Activation(g))
      PROVE  CalmInv'
  <2>. DEFINE known == Target("tested") = g
              moved == Target("active") \notin {NONE, g}
  <2>1. known => link["tested"] = g
    BY <1>1 DEF Target
  <2>2. Target("active") \in Slot /\ moved \in BOOLEAN /\ known \in BOOLEAN
    BY <1>1 DEF Target, Slot, Names
  <2>3. link["attempted"] \in {NONE, link["active"]}
    BY <1>5, <1>6 DEF Take, Settled
  <2>4. todo' = << When(moved, Write("previous", Target("active"))), Write("active", g),
                   When(~known, Write("pending", g)), Untake(known) >>
    BY <1>6 DEF Take, Activation, Untake
  <2>. HIDE DEF known, moved
  <2>5. Activating'
    BY <1>1, <2>1, <2>2, <2>3, <2>4 DEF Activating
  <2>. QED
    BY <1>4, <1>6, <2>5 DEF Take, CalmInv
<1>7. CASE \E g \in Gens : Activate(g)
  BY <1>6, <1>7 DEF Activate
<1>8. CASE ReceiveActivate
  <2>1. recv \in Gens
    BY <1>8 DEF ReceiveActivate, IInv, TypeOK, Slot
  <2>. QED
    BY <1>3, <1>6, <1>8, <2>1 DEF ReceiveActivate
<1>9. CASE RollbackByHand
  <2>. DEFINE g == Target("previous")
              known == Target("tested") = g
              moved == Target("active") # NONE
  <2>1. g \in Gens /\ Target("active") \in Slot /\ known \in BOOLEAN /\ moved \in BOOLEAN
    BY <1>1, <1>9 DEF RollbackByHand, Target, Slot, Names
  <2>2. known => link["tested"] = g
    BY <1>1, <2>1 DEF Target
  <2>3. /\ link["attempted"] = NONE /\ op' = "rollback"
        /\ todo' = << When(moved, Write("previous", Target("active"))), Write("active", g),
                      IF known THEN Remove({"pending"}) ELSE Write("pending", g) >>
    BY <1>9 DEF RollbackByHand, Take
  <2>. HIDE DEF g, known, moved
  <2>4. Returning'
    BY <1>1, <2>1, <2>2, <2>3 DEF Returning
  <2>. QED
    BY <1>4, <2>3, <2>4 DEF CalmInv
<1>10. CASE \E kept \in SUBSET Gens : Gc(kept)
  <2>1. op = "idle" /\ op' = "gc"
    BY <1>10 DEF Gc
  <2>2. last' = last
    BY <1>1, <2>1 DEF Record, Retried, Attempt, Confirmed
  <2>3. Settled'
    BY <1>1, <1>5, <2>1, <2>2 DEF Settled
  <2>. QED
    BY <1>4, <2>1, <2>3 DEF CalmInv
<1>11. CASE MarkSuccess
  <2>1. CASE UNCHANGED lock
    BY <1>3, <2>1
  <2>2. CASE op' = "mark" /\ todo' = Confirmation(link["active"])
    <3>1. Confirming'
      BY <1>1, <2>2 DEF Confirming
    <3>. QED
      BY <1>4, <2>2, <3>1 DEF CalmInv
  <2>. QED
    BY <1>11, <2>1, <2>2 DEF MarkSuccess, Take, Confirmation
<1>12. CASE \E g \in Gens : Install(g) \/ Receive(g)
  BY <1>3, <1>12 DEF Install, Receive
<1>. QED
  BY <1>7, <1>8, <1>9, <1>10, <1>11, <1>12 DEF OperatorStep

\* Steps of the machine that write nothing.
LEMMA MachineCalm ==
  ASSUME IInv, CalmInv, calm, Record,
         PowerOn \/ PrepareFail \/ HealthCheck \/ Reboot \/ \E g \in Gens : Delete(g)
  PROVE  CalmInv'
<1>1. UNCHANGED <<link, op, todo>> /\ (boot = "prepared" => boot' = "prepared")
  BY DEF PowerOn, PrepareFail, HealthCheck, Reboot, Delete, disk, lock, Operable
<1>2. ~Booted /\ ~Retried
  BY DEF PowerOn, PrepareFail, HealthCheck, Reboot, Delete, Operable, Booted, Retried
<1>3. last' = last /\ untried' = untried
  BY <1>1, <1>2 DEF Record, Attempt, Confirmed, Activated
<1>. QED
  BY <1>1, <1>3, QuietCalm

\* A boot from the menu, when no program is cut short: a boot that failed.
LEMMA RetryCalm ==
  ASSUME IInv, CalmInv, calm, RetryBoot, op = "idle", Record
  PROVE  CalmInv'
<1>1. /\ boot = "rescue" /\ boot' = "up" /\ op' = "idle" /\ todo = <<>>
      /\ Interrupted
  BY DEF RetryBoot, Release, IInv, Holding
<1>2. UNCHANGED link
  BY <1>1 DEF Interrupted
<1>3. last' = "failed" /\ untried' \subseteq untried
  BY <1>1 DEF Record, Retried
<1>4. Settled'
  BY <1>2, <1>3 DEF CalmInv, Settled
<1>. QED
  BY <1>1, <1>2, <1>3, <1>4 DEF CalmInv, Tried

\* Every step keeps the plans while nothing is cut short.
LEMMA NextCalm == IInv /\ CalmInv /\ [HNext]_hvars => CalmInv'
<1>. SUFFICES ASSUME IInv, CalmInv, [HNext]_hvars, calm' PROVE CalmInv'
  BY DEF CalmInv
<1>1. CASE UNCHANGED hvars
  <2>1. calm /\ UNCHANGED <<link, op, todo, last, untried, boot>>
    BY <1>1 DEF hvars, vars, disk, lock
  <2>. QED
    BY <2>1, QuietCalm
<1>2. CASE Orderly
  <2>1. calm /\ CalmStep /\ Record
    BY <1>2 DEF Orderly
  <2>. QED
    BY <2>1, KexecCalm, PrepareCalm, DoWriteCalm, FinishCalm, OperatorCalm, MachineCalm,
       RetryCalm
       DEF CalmStep, BootStep, HolderStep
<1>3. ~Disturbed /\ ~Diverted
  BY DEF Disturbed, Diverted
<1>. QED
  BY <1>1, <1>2, <1>3 DEF HNext

\* What prepare_boot finds while nothing is cut short: an open attempt is of the
\* active generation, which was booted, is not confirmed, and is a pending or
\* the tested one.
LEMMA AttemptFound ==
  ASSUME CalmInv, calm, boot = "init", op = "idle", link["attempted"] # NONE
  PROVE  /\ last = "failed" /\ link["attempted"] \notin untried
         /\ link["attempted"] \in {link["pending"], link["tested"]}
  BY DEF CalmInv, Settled, Tried

\* A boot that is declared failed found an attempt that it cannot roll back.
LEMMA DeclaredFailures ==
  ASSUME [HNext]_hvars, boot = "init", op = "idle", boot' = "rescue", Legible
  PROVE  link["attempted"] # NONE /\ ~CanRollBack
<1>1. PrepareFail \/ Fail
  BY DEF HNext, Orderly, Disturbed, Diverted, CalmStep, BootStep, HolderStep,
     OperatorStep, PowerOn, PrepareRollback, PrepareProceed, Kexec, DoWrite,
     Finish, Delete, Install, Activate, Receive, ReceiveActivate, RollbackByHand, Gc,
     HealthCheck, MarkSuccess, Reboot, RetryBoot, BootError, PowerLoss, ForceRescue, hvars, vars
<1>. QED
  BY <1>1 DEF PrepareFail, Fail

\* The plans are kept by every step.
LEMMA CalmInvariance == HSpec => [](IInv /\ CalmInv)
<1>1. HInit => CalmInv
  BY DEF HInit, Init, CalmInv, Settled, Tried, Names
<1>2. HSpec => []IInv
  BY HistoryIsSpec, Invariance, PTL
<1>. QED
  BY <1>1, <1>2, NextCalm, PTL DEF HSpec, HNext

\* docs/erofs-generations.md: an activated generation "gets its own first
\* attempt on the next boot": while nothing is cut short and no rescue is
\* requested, no boot rolls back a generation that was not booted since it was
\* activated, however installs, activations, roll-backs, gc and boots interleave.
THEOREM FirstAttempt == HSpec => CalmFirstAttempt
<1>1. ASSUME CalmInv, [HNext]_hvars, calm
      PROVE  ~RollsBackUntried
  <2>. SUFFICES ASSUME RollsBackUntried PROVE FALSE
    OBVIOUS
  <2>1. op = "idle" /\ op' = "prepare" /\ CanRollBack /\ link["attempted"] \in untried
    BY DEF RollsBackUntried
  <2>2. boot # "prepared"
    BY <1>1, <2>1 DEF HNext, Orderly, Disturbed, Diverted, CalmStep, BootStep, HolderStep,
       OperatorStep, PowerOn, PrepareRollback, PrepareProceed, PrepareFail, Kexec, DoWrite,
       Finish, Delete, Install, Activate, Receive, ReceiveActivate, RollbackByHand, Gc,
       HealthCheck, MarkSuccess, Reboot, RetryBoot, BootError, PowerLoss, Fail, ForceRescue, Take,
       Release, lock, hvars, vars
  <2>. QED
    BY <1>1, <2>1, <2>2 DEF CanRollBack, CalmInv, Tried
<1>2. CalmInv /\ [HNext]_hvars => [calm => ~RollsBackUntried]_hvars
  BY <1>1
<1>. QED
  BY <1>2, CalmInvariance, PTL DEF HSpec, HNext, CalmFirstAttempt

\* docs/erofs-generations.md: an `attempted` selector that leads to no roll-back
\* "means the previous boot failed": while nothing is cut short and no rescue is
\* requested, the boot that is declared failed was never confirmed.
THEOREM FailureWasFailure == HSpec => CalmFailure
<1>1. ASSUME CalmInv, [HNext]_hvars, calm, DeclaresFailure
      PROVE  last = "failed"
  <2>1. boot = "init" /\ op = "idle" /\ boot' = "rescue" /\ Legible
    BY <1>1 DEF DeclaresFailure
  <2>2. link["attempted"] # NONE
    BY <1>1, <2>1, DeclaredFailures
  <2>. QED
    BY <1>1, <2>1, <2>2, AttemptFound
<1>2. CalmInv /\ [HNext]_hvars => [calm /\ DeclaresFailure => last = "failed"]_hvars
  BY <1>1
<1>. QED
  BY <1>2, CalmInvariance, PTL DEF HSpec, HNext, CalmFailure

\* rescue/automatic.rs: a failed untested generation is rolled back "whenever a
\* rollback target exists": while nothing is cut short and no rescue is
\* requested, a failure is declared only if no other generation was tested.
THEOREM RollbackComesFirst == HSpec => CalmRollback
<1>1. ASSUME CalmInv, [HNext]_hvars, calm, DeclaresFailure, AutomaticRollback
      PROVE  link["tested"] \in {NONE, link["attempted"]}
  <2>1. boot = "init" /\ op = "idle" /\ boot' = "rescue" /\ Legible
    BY <1>1 DEF DeclaresFailure
  <2>2. link["attempted"] # NONE /\ ~CanRollBack
    BY <1>1, <2>1, DeclaredFailures
  <2>3. link["attempted"] \in {link["pending"], link["tested"]}
    BY <1>1, <2>1, <2>2, AttemptFound
  <2>. QED
    BY <1>1, <2>2, <2>3 DEF CanRollBack
<1>2. CalmInv /\ [HNext]_hvars =>
        [calm /\ DeclaresFailure /\ AutomaticRollback =>
           link["tested"] \in {NONE, link["attempted"]}]_hvars
  BY <1>1
<1>. QED
  BY <1>2, CalmInvariance, PTL DEF HSpec, HNext, CalmRollback
=============================================================================
