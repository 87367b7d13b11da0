----------------------- MODULE GenerationState_proofs -----------------------
(***************************************************************************)
(* Proofs about GenerationState, for every set of generations and with     *)
(* automatic roll-back on or off.                                          *)
(***************************************************************************)
EXTENDS GenerationState, TLAPS

Selectors == Names \ {"event"}

\* Every generation a program is about to select has its bundle.
PlannedHaveBundles ==
  \A i \in 1..Len(todo) : \A n \in DOMAIN todo[i] \ {"event"} :
    todo[i][n] # NONE => Bundle(todo[i][n])

\* Who holds the flock, and what it may hold.
Holding ==
  /\ op = "idle" => todo = <<>>
  /\ op # "gc" => victims = {}
  /\ op = "gc" => todo = <<>>
  /\ boot = "init" => op \in {"idle", "prepare"}
  /\ op = "prepare" => boot = "init"
  /\ boot \in {"off", "prepared"} => op = "idle"
  /\ IF boot = "up" THEN running # NONE ELSE running = NONE /\ ~astray
  /\ op = "mark" => boot = "up"
  /\ op = "prepare" \/ boot = "prepared" => link["active"] # NONE

\* gc deletes nothing that a selector names.
VictimsUnselected == \A n \in Selectors : link[n] \notin victims

\* A directory loses its members before it goes.
DirectoryLast == \A g \in Gens : Bundle(g) => "dir" \in members[g]

\* The writes prepare_boot still has to make, and how far it got.
PreparePlan ==
  \/ todo = <<>> /\ link["attempted"] = link["active"]
  \/ todo = << Write("attempted", link["active"]) >>
  \/ \E f, t \in Gens : t = link["tested"] /\
       \/ todo = Rollback(f, t)
       \/ todo = Tail(Rollback(f, t)) /\ link["active"] = t
       \/ todo = << Remove({"pending"}), Write("event", f) >>
          /\ link["attempted"] = link["active"]
       \/ todo = << Write("event", f) >> /\ link["attempted"] = link["active"]

\* Of the other programs only mark-success writes `tested`, with the active
\* generation, which runs unless the boot went astray; none sets `attempted`.
OtherPlan ==
  \A i \in 1..Len(todo) : \A n \in DOMAIN todo[i] :
    /\ n = "tested" => op = "mark" /\ todo[i][n] = link["active"]
                        /\ (running = link["active"] \/ astray) /\ running # NONE
    /\ n = "active" => op \in {"activate", "rollback"} /\ todo[i][n] # NONE
    /\ n = "attempted" => todo[i][n] = NONE

Plan == IF op = "prepare" THEN PreparePlan ELSE OtherPlan

\* After prepare_boot the attempt is recorded for the generation that is booted.
PreparedAttempt == boot = "prepared" => link["attempted"] = link["active"]

\* The inductive invariant.
IInv ==
  /\ TypeOK
  /\ Holding
  /\ SelectedHaveBundles
  /\ PlannedHaveBundles
  /\ VictimsUnselected
  /\ DirectoryLast
  /\ Plan
  /\ PreparedAttempt
  /\ AttemptIsRunning

-----------------------------------------------------------------------------
(* Batches of writes *)

LEMMA Triple ==
  ASSUME NEW x, NEW y, NEW z
  PROVE  Head(<<x, y, z>>) = x /\ Tail(<<x, y, z>>) = <<y, z>>
  OBVIOUS

\* What is left of a roll-back after its first write, and after its second.
LEMMA RollbackTail ==
  ASSUME NEW f, NEW t
  PROVE  /\ Head(Tail(Rollback(f, t))) = Write("attempted", t)
         /\ Tail(Tail(Rollback(f, t))) = << Remove({"pending"}), Write("event", f) >>
<1> DEFINE x == Write("attempted", t)
           y == Remove({"pending"})
           z == Write("event", f)
<1>1. Tail(Rollback(f, t)) = <<x, y, z>>
  BY DEF Rollback
<1> HIDE DEF x, y, z
<1>2. Head(<<x, y, z>>) = x /\ Tail(<<x, y, z>>) = <<y, z>>
  BY Triple
<1> QED
  BY <1>1, <1>2 DEF x, y, z

LEMMA BatchIntro ==
  ASSUME NEW S \in SUBSET Names, NEW b \in [S -> Slot]
  PROVE  b \in Batch
<1>1. [S -> Slot] \in {[T -> Slot] : T \in SUBSET Names}
  OBVIOUS
<1> QED
  BY <1>1, Zenon DEF Batch

LEMMA BatchElim ==
  ASSUME NEW b \in Batch
  PROVE  /\ DOMAIN b \in SUBSET Names
         /\ \A x \in DOMAIN b : b[x] \in Slot
<1>1. PICK S \in SUBSET Names : b \in [S -> Slot]
  BY Zenon DEF Batch
<1> QED
  BY <1>1

LEMMA BatchConstructors ==
  ASSUME NEW n \in Names, NEW g \in Slot, NEW S \in SUBSET Names
  PROVE  /\ Write(n, g) \in Batch
         /\ DOMAIN Write(n, g) = {n} /\ Write(n, g)[n] = g
         /\ Remove(S) \in Batch
         /\ DOMAIN Remove(S) = S /\ \A x \in S : Remove(S)[x] = NONE
<1>1. Write(n, g) \in [{n} -> Slot] /\ {n} \in SUBSET Names
  BY DEF Write
<1>2. Remove(S) \in [S -> Slot]
  BY DEF Remove, Slot
<1>3. Write(n, g) \in Batch
  BY <1>1, BatchIntro
<1>4. Remove(S) \in Batch
  BY <1>2, BatchIntro
<1> QED
  BY <1>1, <1>2, <1>3, <1>4 DEF Write, Remove

LEMMA PartIsBatch ==
  ASSUME NEW b \in Batch, NEW S \in SUBSET DOMAIN b
  PROVE  /\ PartOf(b, S) \in Batch
         /\ DOMAIN PartOf(b, S) = S
         /\ \A x \in S : PartOf(b, S)[x] = b[x]
<1>1. S \in SUBSET Names /\ PartOf(b, S) \in [S -> Slot]
  BY BatchElim DEF PartOf
<1>2. PartOf(b, S) \in Batch
  BY <1>1, BatchIntro
<1> QED
  BY <1>2 DEF PartOf

LEMMA ApplyType ==
  ASSUME NEW l \in [Names -> Slot], NEW b \in Batch
  PROVE  Apply(l, b) \in [Names -> Slot]
  BY BatchElim DEF Apply

LEMMA WholeIsPart ==
  ASSUME NEW l, NEW b \in Batch
  PROVE  Apply(l, b) = Apply(l, PartOf(b, DOMAIN b))
<1>1. DOMAIN PartOf(b, DOMAIN b) = DOMAIN b
      /\ \A x \in DOMAIN b : PartOf(b, DOMAIN b)[x] = b[x]
  BY PartIsBatch
<1> QED
  BY <1>1 DEF Apply

-----------------------------------------------------------------------------
(* The invariant *)

LEMMA InitIInv == Init => IInv
<1> SUFFICES ASSUME Init PROVE IInv
  OBVIOUS
<1>1. TypeOK
  <2>1. todo \in Seq(Batch)
    BY DEF Init
  <2>2. members \in [Gens -> SUBSET Members]
    BY DEF Init
  <2>3. link \in [Names -> Slot] /\ running \in Slot /\ recv \in Slot
    BY DEF Init, Slot
  <2> QED
    BY <2>1, <2>2, <2>3 DEF Init, TypeOK, Phases, Ops
<1>2. Holding /\ SelectedHaveBundles /\ PlannedHaveBundles
  BY DEF Init, Holding, SelectedHaveBundles, PlannedHaveBundles, Names
<1>3. VictimsUnselected /\ DirectoryLast /\ Plan
  BY DEF Init, VictimsUnselected, DirectoryLast, Plan, OtherPlan, Bundle
<1>4. PreparedAttempt /\ AttemptIsRunning
  BY DEF Init, PreparedAttempt, AttemptIsRunning
<1> QED
  BY <1>1, <1>2, <1>3, <1>4 DEF IInv

\* An interrupted or a finished write of the next batch: any part b of it.
LEMMA PartWritten ==
  ASSUME IInv, todo # <<>>, NEW S \in SUBSET DOMAIN Head(todo),
         link' = Apply(link, PartOf(Head(todo), S))
  PROVE  /\ Head(todo) \in Batch
         /\ link' \in [Names -> Slot]
         /\ \A n \in Names : link'[n] = IF n \in S THEN Head(todo)[n] ELSE link[n]
         /\ \A n \in Selectors : link'[n] # NONE => Bundle(link'[n])
<1> DEFINE b == Head(todo)
<1>1. Len(todo) >= 1 /\ b = todo[1] /\ b \in Batch
  BY DEF IInv, TypeOK
<1>2. /\ PartOf(b, S) \in Batch
      /\ DOMAIN PartOf(b, S) = S
      /\ \A x \in S : PartOf(b, S)[x] = b[x]
  BY <1>1, PartIsBatch
<1>3. link' \in [Names -> Slot]
  BY <1>2, ApplyType DEF IInv, TypeOK
<1>4. \A n \in Names : link'[n] = IF n \in S THEN b[n] ELSE link[n]
  BY <1>2 DEF Apply
<1>5. \A n \in S \ {"event"} : b[n] # NONE => Bundle(b[n])
  BY <1>1 DEF IInv, PlannedHaveBundles
<1>6. \A n \in Selectors : link'[n] # NONE => Bundle(link'[n])
  BY <1>4, <1>5 DEF IInv, SelectedHaveBundles, Selectors
<1> QED
  BY <1>1, <1>3, <1>4, <1>6

LEMMA MachineSteps ==
  ASSUME IInv,
         PowerOn \/ PrepareFail \/ ForceRescue \/ BootError \/ Kexec \/ Reboot \/ HealthCheck
  PROVE  IInv'
<1>1. UNCHANGED <<disk, lock>>
  BY DEF PowerOn, PrepareFail, ForceRescue, BootError, Kexec, Reboot, HealthCheck
<1>2. TypeOK'
  BY DEF IInv, TypeOK, PowerOn, PrepareFail, ForceRescue, BootError, Kexec, Reboot,
     HealthCheck, disk, lock, Phases, Slot, Names
<1>3. Holding'
  BY <1>1 DEF IInv, Holding, PowerOn, PrepareFail, ForceRescue, BootError, Kexec,
     Reboot, HealthCheck, disk, lock, Operable
<1>4. SelectedHaveBundles' /\ PlannedHaveBundles' /\ VictimsUnselected' /\ DirectoryLast'
  BY <1>1 DEF IInv, SelectedHaveBundles, PlannedHaveBundles, VictimsUnselected,
     DirectoryLast, disk, lock, Bundle
<1>5. UNCHANGED <<running, astray>> \/ todo = <<>> \/ op = "prepare"
  BY DEF IInv, Holding, PowerOn, PrepareFail, ForceRescue, BootError, Kexec, Reboot,
     HealthCheck
<1>6. Plan'
  BY <1>1, <1>5 DEF IInv, Plan, PreparePlan, OtherPlan, disk, lock
<1>7. PreparedAttempt' /\ AttemptIsRunning'
  BY <1>1 DEF IInv, PreparedAttempt, AttemptIsRunning, Holding, PowerOn, PrepareFail,
     ForceRescue, BootError, Kexec, Reboot, HealthCheck, disk
<1> QED
  BY <1>2, <1>3, <1>4, <1>6, <1>7 DEF IInv

LEMMA Installations ==
  ASSUME IInv, NEW g \in Gens, Install(g) \/ Receive(g)
  PROVE  IInv'
<1>1. UNCHANGED <<link, boot, running, astray, lock, marking>> /\ recv' \in Slot
  BY DEF IInv, TypeOK, Install, Receive, Slot
<1>2. \A h \in Gens : members'[h] = members[h] \/ members'[h] = Members
  BY DEF IInv, TypeOK, Install, Receive
<1>3. members' \in [Gens -> SUBSET Members]
  BY DEF IInv, TypeOK, Install, Receive
<1>4. \A h \in Gens : Bundle(h) => Bundle(h)'
  BY <1>2 DEF Bundle, Members
<1>5. TypeOK'
  BY <1>1, <1>3 DEF IInv, TypeOK, lock
<1>6. SelectedHaveBundles' /\ PlannedHaveBundles'
  <2>1. \A n \in Selectors : link[n] # NONE => link[n] \in Gens
    BY DEF IInv, TypeOK, Slot, Selectors
  <2>2. \A i \in 1..Len(todo) : todo[i] \in Batch
    BY DEF IInv, TypeOK
  <2>3. \A i \in 1..Len(todo) : \A n \in DOMAIN todo[i] : todo[i][n] \in Slot
    BY <2>2, BatchElim
  <2>4. SelectedHaveBundles'
    BY <1>1, <1>4, <2>1 DEF IInv, SelectedHaveBundles, Selectors
  <2>5. PlannedHaveBundles'
    BY <1>1, <1>4, <2>3 DEF IInv, PlannedHaveBundles, lock, Slot
  <2> QED
    BY <2>4, <2>5
<1>7. DirectoryLast'
  BY <1>2 DEF IInv, DirectoryLast, Bundle, Members
<1>8. Holding' /\ VictimsUnselected' /\ Plan' /\ PreparedAttempt' /\ AttemptIsRunning'
  BY <1>1 DEF IInv, Holding, VictimsUnselected, Plan, PreparePlan, OtherPlan,
     PreparedAttempt, AttemptIsRunning, lock
<1> QED
  BY <1>5, <1>6, <1>7, <1>8 DEF IInv

LEMMA FinishStep ==
  ASSUME IInv, Finish
  PROVE  IInv'
<1>1. UNCHANGED disk /\ op' = "idle" /\ todo' = <<>> /\ victims' = {} /\ todo = <<>>
  BY DEF Finish, Release
<1>2. op = "prepare" => link["attempted"] = link["active"]
  BY <1>1 DEF IInv, Plan, PreparePlan, Rollback
<1>3. TypeOK'
  BY <1>1 DEF IInv, TypeOK, Finish, disk, Phases, Ops
<1>4. Holding'
  BY <1>1 DEF IInv, Holding, Finish, disk
<1>5. SelectedHaveBundles' /\ PlannedHaveBundles' /\ VictimsUnselected' /\ DirectoryLast'
  BY <1>1 DEF IInv, SelectedHaveBundles, PlannedHaveBundles, VictimsUnselected,
     DirectoryLast, disk, Bundle
<1>6. Plan'
  BY <1>1 DEF Plan, OtherPlan
<1>7. PreparedAttempt' /\ AttemptIsRunning'
  BY <1>1, <1>2 DEF IInv, PreparedAttempt, AttemptIsRunning, Holding, Finish, disk
<1> QED
  BY <1>3, <1>4, <1>5, <1>6, <1>7 DEF IInv

LEMMA DeleteStep ==
  ASSUME IInv, NEW g \in Gens, Delete(g)
  PROVE  IInv'
<1>1. g \in victims /\ op = "gc" /\ todo = <<>> /\ \A n \in Selectors : link[n] # g
  BY DEF Delete, IInv, Holding, VictimsUnselected
<1>2. UNCHANGED <<link, boot, running, astray, op, todo, marking, recv>>
      /\ victims' \subseteq victims
  BY DEF Delete
<1>3. PICK m \in members[g] :
        /\ m = "dir" => members[g] = {"dir"}
        /\ members' = [members EXCEPT ![g] = @ \ {m}]
  BY DEF Delete
<1>4. /\ members' \in [Gens -> SUBSET Members]
      /\ \A h \in Gens \ {g} : members'[h] = members[h]
      /\ members'[g] = members[g] \ {m}
  BY <1>3 DEF IInv, TypeOK
<1>5. TypeOK'
  BY <1>2, <1>4 DEF IInv, TypeOK
<1>6. SelectedHaveBundles'
  <2> SUFFICES ASSUME NEW n \in Selectors, link[n] # NONE PROVE Bundle(link[n])'
    BY <1>2 DEF SelectedHaveBundles, Selectors
  <2>1. link[n] \in Gens \ {g} /\ Bundle(link[n])
    BY <1>1 DEF IInv, TypeOK, Slot, SelectedHaveBundles, Selectors
  <2> QED
    BY <2>1, <1>2, <1>4 DEF Bundle
<1>7. DirectoryLast'
  BY <1>3, <1>4 DEF IInv, TypeOK, DirectoryLast, Bundle
<1>8. Holding' /\ PlannedHaveBundles' /\ VictimsUnselected' /\ Plan'
      /\ PreparedAttempt' /\ AttemptIsRunning'
  BY <1>1, <1>2 DEF IInv, Holding, PlannedHaveBundles, VictimsUnselected, Plan, OtherPlan,
     PreparedAttempt, AttemptIsRunning
<1> QED
  BY <1>5, <1>6, <1>7, <1>8 DEF IInv

\* What an interrupted write leaves of the selectors: a part of one batch.
LEMMA PartLeft ==
  ASSUME IInv, Interrupted
  PROVE  /\ link' \in [Names -> Slot]
         /\ \A n \in Selectors : link'[n] # NONE => Bundle(link'[n])
         /\ op # "prepare" => link'["attempted"] \in {link["attempted"], NONE}
<1>1. CASE todo = <<>>
  BY <1>1 DEF Interrupted, IInv, TypeOK, SelectedHaveBundles, Selectors
<1>2. CASE todo # <<>>
  <2>1. PICK S \in SUBSET DOMAIN Head(todo) : link' = Apply(link, PartOf(Head(todo), S))
    BY <1>2 DEF Interrupted
  <2>2. /\ link' \in [Names -> Slot]
        /\ \A n \in Names : link'[n] = IF n \in S THEN Head(todo)[n] ELSE link[n]
        /\ \A n \in Selectors : link'[n] # NONE => Bundle(link'[n])
    BY <1>2, <2>1, PartWritten
  <2>3. Head(todo) = todo[1] /\ 1 \in 1..Len(todo)
    BY <1>2 DEF IInv, TypeOK
  <2>4. op # "prepare" /\ "attempted" \in S => Head(todo)["attempted"] = NONE
    BY <2>3 DEF IInv, Plan, OtherPlan
  <2> QED
    BY <2>2, <2>4 DEF Names
<1> QED
  BY <1>1, <1>2

\* A crash, an error or a boot from the menu drops the plan.
LEMMA MishapSteps ==
  ASSUME IInv, PowerLoss \/ Fail \/ RetryBoot
  PROVE  IInv'
<1>1. UNCHANGED members /\ op' = "idle" /\ todo' = <<>> /\ victims' = {} /\ Interrupted
  BY DEF PowerLoss, Fail, RetryBoot, Release
<1>2. /\ link' \in [Names -> Slot]
      /\ \A n \in Selectors : link'[n] # NONE => Bundle(link'[n])
      /\ op # "prepare" => link'["attempted"] \in {link["attempted"], NONE}
  BY <1>1, PartLeft
<1>3. TypeOK'
  <2>1. todo' \in Seq(Batch) /\ victims' \in SUBSET Gens
    BY <1>1
  <2>2. boot' \in Phases /\ op' \in Ops
    BY <1>1 DEF IInv, TypeOK, PowerLoss, Fail, RetryBoot, Phases, Ops
  <2>3. /\ running' \in Slot /\ astray' \in BOOLEAN
        /\ marking' \in BOOLEAN /\ recv' \in Slot
    BY <1>2 DEF IInv, TypeOK, PowerLoss, Fail, RetryBoot, Slot, Names
  <2>4. members' \in [Gens -> SUBSET Members]
    BY <1>1 DEF IInv, TypeOK
  <2> QED
    BY <1>2, <2>1, <2>2, <2>3, <2>4 DEF TypeOK
<1>4. Holding'
  BY <1>1 DEF IInv, Holding, PowerLoss, Fail, RetryBoot
<1>5. SelectedHaveBundles' /\ PlannedHaveBundles' /\ VictimsUnselected' /\ DirectoryLast'
  BY <1>1, <1>2 DEF IInv, SelectedHaveBundles, PlannedHaveBundles, VictimsUnselected,
     DirectoryLast, Bundle, Selectors
<1>6. Plan'
  BY <1>1 DEF Plan, OtherPlan
<1>7. /\ boot' # "prepared"
      /\ boot' = "up" =>
           \/ boot = "up" /\ UNCHANGED <<running, astray>>
           \/ ~astray' => link'["attempted"] \in {NONE, running'}
  BY DEF PowerLoss, Fail, RetryBoot, IInv, Holding
<1>8. PreparedAttempt' /\ AttemptIsRunning'
  BY <1>1, <1>2, <1>7 DEF IInv, PreparedAttempt, AttemptIsRunning, Holding
<1> QED
  BY <1>3, <1>4, <1>5, <1>6, <1>8 DEF IInv

\* What a whole write does to the selectors.
LEMMA WholeWritten ==
  ASSUME IInv, DoWrite
  PROVE  /\ Head(todo) \in Batch /\ Head(todo) = todo[1] /\ 1 \in 1..Len(todo)
         /\ link' \in [Names -> Slot]
         /\ \A n \in Names :
              link'[n] = IF n \in DOMAIN Head(todo) THEN Head(todo)[n] ELSE link[n]
         /\ \A n \in Selectors : link'[n] # NONE => Bundle(link'[n])
<1> DEFINE S == DOMAIN Head(todo)
<1>1. todo # <<>> /\ Head(todo) \in Batch /\ Head(todo) = todo[1] /\ 1 \in 1..Len(todo)
  BY DEF DoWrite, IInv, TypeOK
<1>2. link' = Apply(link, PartOf(Head(todo), S))
  BY <1>1, WholeIsPart DEF DoWrite
<1>3. S \in SUBSET DOMAIN Head(todo)
  OBVIOUS
<1> HIDE DEF S
<1>4. /\ link' \in [Names -> Slot]
      /\ \A n \in Names : link'[n] = IF n \in S THEN Head(todo)[n] ELSE link[n]
      /\ \A n \in Selectors : link'[n] # NONE => Bundle(link'[n])
  BY <1>1, <1>2, <1>3, PartWritten
<1> QED
  BY <1>1, <1>4 DEF S

\* prepare_boot's own writes: each leaves it at the next stage of its plan.
LEMMA PrepareWrites ==
  ASSUME IInv, DoWrite, op = "prepare"
  PROVE  PreparePlan' /\ link'["active"] # NONE
<1> DEFINE b == Head(todo)
<1>1. todo' = Tail(todo) /\ todo # <<>>
  BY DEF DoWrite
<1>2. \A n \in Names : link'[n] = IF n \in DOMAIN b THEN b[n] ELSE link[n]
  BY WholeWritten
<1>3. PreparePlan /\ link["active"] # NONE
  BY DEF IInv, Plan, Holding
<1>4. CASE todo = << Write("attempted", link["active"]) >>
  <2>1. b = Write("attempted", link["active"]) /\ todo' = <<>>
    BY <1>1, <1>4
  <2>2. link'["active"] = link["active"] /\ link'["attempted"] = link["active"]
    BY <1>2, <2>1 DEF Write, Names
  <2> QED
    BY <1>3, <2>1, <2>2 DEF PreparePlan
<1>5. ASSUME NEW f \in Gens, NEW t \in Gens, t = link["tested"],
             \/ todo = Rollback(f, t)
             \/ todo = Tail(Rollback(f, t)) /\ link["active"] = t
             \/ todo = << Remove({"pending"}), Write("event", f) >>
                /\ link["attempted"] = link["active"]
             \/ todo = << Write("event", f) >> /\ link["attempted"] = link["active"]
      PROVE  PreparePlan' /\ link'["active"] # NONE
  <2>1. CASE todo = Rollback(f, t)
    <3>1. b = Write("active", t)
      BY <2>1 DEF Rollback
    <3>a. todo' = Tail(Rollback(f, t))
      BY <1>1, <2>1
    <3>2. link'["active"] = t /\ link'["tested"] = t
      BY <1>2, <1>5, <3>1 DEF Write, Names
    <3> QED
      BY <3>a, <3>2, NoneAssumption DEF PreparePlan
  <2>2. CASE todo = Tail(Rollback(f, t)) /\ link["active"] = t
    <3>2. b = Write("attempted", t)
          /\ todo' = << Remove({"pending"}), Write("event", f) >>
      BY <1>1, <2>2, RollbackTail
    <3>3. link'["active"] = t /\ link'["attempted"] = t /\ link'["tested"] = t
      BY <1>2, <1>5, <2>2, <3>2 DEF Write, Names
    <3> QED
      BY <3>2, <3>3, NoneAssumption DEF PreparePlan
  <2>3. CASE todo = << Remove({"pending"}), Write("event", f) >>
             /\ link["attempted"] = link["active"]
    <3>1. b = Remove({"pending"}) /\ todo' = << Write("event", f) >>
      BY <1>1, <2>3
    <3>2. link'["active"] = link["active"] /\ link'["attempted"] = link["active"]
          /\ link'["tested"] = t
      BY <1>2, <1>5, <2>3, <3>1 DEF Remove, Names
    <3> QED
      BY <1>3, <3>1, <3>2 DEF PreparePlan
  <2>4. CASE todo = << Write("event", f) >> /\ link["attempted"] = link["active"]
    <3>1. b = Write("event", f) /\ todo' = <<>>
      BY <1>1, <2>4
    <3>2. link'["active"] = link["active"] /\ link'["attempted"] = link["active"]
      BY <1>2, <2>4, <3>1 DEF Write, Names
    <3> QED
      BY <1>3, <3>1, <3>2 DEF PreparePlan
  <2> QED
    BY <1>5, <2>1, <2>2, <2>3, <2>4
<1> QED
  BY <1>1, <1>3, <1>4, <1>5 DEF PreparePlan

LEMMA DoWriteStep ==
  ASSUME IInv, DoWrite
  PROVE  IInv'
<1> DEFINE b == Head(todo)
<1>1. /\ UNCHANGED <<members, boot, running, astray, op, victims, marking, recv>>
      /\ todo # <<>> /\ todo' = Tail(todo)
  BY DEF DoWrite
<1>2. /\ b \in Batch /\ b = todo[1] /\ 1 \in 1..Len(todo)
      /\ link' \in [Names -> Slot]
      /\ \A n \in Names : link'[n] = IF n \in DOMAIN b THEN b[n] ELSE link[n]
      /\ \A n \in Selectors : link'[n] # NONE => Bundle(link'[n])
  BY WholeWritten
<1>3. /\ todo' \in Seq(Batch)
      /\ \A i \in 1..Len(todo') : i + 1 \in 1..Len(todo) /\ todo'[i] = todo[i + 1]
  BY <1>1 DEF IInv, TypeOK
<1>4. op \notin {"idle", "gc"} /\ victims = {}
  BY <1>1 DEF IInv, Holding
<1>5. TypeOK'
  BY <1>1, <1>2, <1>3 DEF IInv, TypeOK
<1>6. SelectedHaveBundles' /\ VictimsUnselected' /\ DirectoryLast'
  BY <1>1, <1>2, <1>4 DEF IInv, SelectedHaveBundles, VictimsUnselected, DirectoryLast,
     Bundle, Selectors
<1>7. PlannedHaveBundles'
  BY <1>1, <1>3 DEF IInv, PlannedHaveBundles, Bundle
<1>8. CASE op = "prepare"
  <2>1. PreparePlan' /\ link'["active"] # NONE
    BY <1>8, PrepareWrites
  <2>2. boot = "init"
    BY <1>8 DEF IInv, Holding
  <2>3. Holding' /\ Plan' /\ PreparedAttempt' /\ AttemptIsRunning'
    BY <1>1, <1>4, <1>8, <2>1, <2>2 DEF IInv, Holding, Plan, PreparedAttempt, AttemptIsRunning
  <2> QED
    BY <1>5, <1>6, <1>7, <2>3 DEF IInv
<1>9. CASE op # "prepare"
  <2>1. OtherPlan
    BY <1>9 DEF IInv, Plan
  <2>2. "attempted" \in DOMAIN b => b["attempted"] = NONE
    BY <1>2, <2>1 DEF OtherPlan
  <2>3. link'["attempted"] \in {link["attempted"], NONE}
    BY <1>2, <2>2 DEF Names
  <2>4. op = "mark" => link'["active"] = link["active"]
    BY <1>2, <2>1 DEF OtherPlan, Names
  <2>5. OtherPlan'
    BY <1>1, <1>3, <2>1, <2>4 DEF OtherPlan
  <2>6. Holding' /\ Plan'
    BY <1>1, <1>4, <1>9, <2>5 DEF IInv, Holding, Plan
  <2>7. PreparedAttempt' /\ AttemptIsRunning'
    BY <1>1, <1>4, <2>3 DEF IInv, Holding, PreparedAttempt, AttemptIsRunning
  <2> QED
    BY <1>5, <1>6, <1>7, <2>6, <2>7 DEF IInv
<1> QED
  BY <1>8, <1>9

-----------------------------------------------------------------------------
(* A program takes the flock *)

\* A batch an operator's program may plan.
SoundBatch(b) ==
  /\ b \in Batch
  /\ \A n \in DOMAIN b :
       /\ n # "tested"
       /\ n = "active" => b[n] # NONE
       /\ n = "attempted" => b[n] = NONE
       /\ n # "event" /\ b[n] # NONE => Bundle(b[n])

LEMMA OperatorPlan ==
  ASSUME IInv, Operable, NEW s \in Seq(Batch), \A i \in 1..Len(s) : SoundBatch(s[i]),
         NEW o \in {"activate", "rollback"}, Take(o, s),
         UNCHANGED <<disk, boot, running, astray, marking>>, recv' \in Slot
  PROVE  IInv'
<1>1. op = "idle" /\ op' = o /\ todo' = s /\ victims' = {}
  BY DEF Take
<1>2. boot \in {"up", "rescue"} /\ UNCHANGED <<link, members, boot, running, astray, marking>>
  BY DEF Operable, disk
<1>3. TypeOK'
  BY <1>1, <1>2 DEF IInv, TypeOK, Ops
<1>4. Holding'
  BY <1>1, <1>2 DEF IInv, Holding
<1>5. SelectedHaveBundles' /\ VictimsUnselected' /\ DirectoryLast'
  BY <1>1, <1>2 DEF IInv, SelectedHaveBundles, VictimsUnselected, DirectoryLast, Bundle
<1>6. PlannedHaveBundles' /\ Plan'
  BY <1>1, <1>2 DEF PlannedHaveBundles, Plan, OtherPlan, SoundBatch, Bundle
<1>7. PreparedAttempt' /\ AttemptIsRunning'
  BY <1>2 DEF IInv, PreparedAttempt, AttemptIsRunning
<1> QED
  BY <1>3, <1>4, <1>5, <1>6, <1>7 DEF IInv

LEMMA SoundWrites ==
  ASSUME NEW n \in {"previous", "active", "pending"}, NEW g \in Gens, Bundle(g),
         NEW S \in SUBSET {"attempted", "pending", "event"}
  PROVE  SoundBatch(Write(n, g)) /\ SoundBatch(Remove(S))
<1>1. n \in Names /\ g \in Slot /\ S \in SUBSET Names
  BY DEF Names, Slot
<1>2. /\ Write(n, g) \in Batch
      /\ DOMAIN Write(n, g) = {n} /\ Write(n, g)[n] = g
      /\ Remove(S) \in Batch
      /\ DOMAIN Remove(S) = S /\ \A x \in S : Remove(S)[x] = NONE
  BY <1>1, BatchConstructors
<1> QED
  BY <1>2, NoneAssumption DEF SoundBatch

\* What target_id returns has its bundle.
LEMMA TargetHasBundle ==
  ASSUME IInv, NEW n \in Selectors
  PROVE  Target(n) # NONE => Target(n) \in Gens /\ Bundle(Target(n))
  BY DEF IInv, TypeOK, Target, Slot, SelectedHaveBundles, Selectors

LEMMA ActivationPlan ==
  ASSUME IInv, NEW g \in Gens, Bundle(g)
  PROVE  /\ Activation(g) \in Seq(Batch)
         /\ \A i \in 1..Len(Activation(g)) : SoundBatch(Activation(g)[i])
<1> DEFINE old == Target("active")
           known == Target("tested") = g
           a == When(old \notin {NONE, g}, Write("previous", old))
           b == Write("active", g)
           c == When(~known, Write("pending", g))
           d == Remove({"attempted", "event"} \cup (IF known THEN {"pending"} ELSE {}))
<1>1. SoundBatch(a)
  <2>1. old # NONE => old \in Gens /\ Bundle(old)
    BY TargetHasBundle DEF Selectors, Names
  <2>2. SoundBatch(Remove({}))
    BY SoundWrites
  <2>3. old # NONE => SoundBatch(Write("previous", old))
    BY <2>1, SoundWrites
  <2> QED
    BY <2>2, <2>3 DEF When
<1>2. SoundBatch(b)
  BY SoundWrites
<1>3. SoundBatch(c)
  BY SoundWrites DEF When
<1>4. SoundBatch(d)
  <2>1. {"attempted", "event"} \cup (IF known THEN {"pending"} ELSE {})
          \in SUBSET {"attempted", "pending", "event"}
    OBVIOUS
  <2> QED
    BY <2>1, SoundWrites
<1>5. Activation(g) = <<a, b, c, d>>
  BY DEF Activation
<1> HIDE DEF a, b, c, d
<1> QED
  BY <1>1, <1>2, <1>3, <1>4, <1>5 DEF SoundBatch

LEMMA ActivateSteps ==
  ASSUME IInv, (\E g \in Gens : Activate(g)) \/ ReceiveActivate
  PROVE  IInv'
<1>1. ASSUME NEW g \in Gens, Activate(g) PROVE IInv'
  <2>1. /\ Operable /\ Bundle(g) /\ Take("activate", Activation(g))
        /\ UNCHANGED <<disk, boot, running, astray, marking, recv>>
    BY <1>1 DEF Activate
  <2>2. recv' \in Slot
    BY <2>1 DEF IInv, TypeOK
  <2> QED
    BY <2>1, <2>2, ActivationPlan, OperatorPlan
<1>2. CASE ReceiveActivate /\ Bundle(recv)
  <2>1. /\ Operable /\ recv \in Gens /\ Take("activate", Activation(recv))
        /\ UNCHANGED <<disk, boot, running, astray, marking>> /\ recv' \in Slot
    BY <1>2 DEF ReceiveActivate, IInv, TypeOK, Slot
  <2> QED
    BY <1>2, <2>1, ActivationPlan, OperatorPlan
<1>3. CASE ReceiveActivate /\ ~Bundle(recv)
  <2>1. UNCHANGED <<link, members, boot, running, astray, op, todo, victims, marking>>
        /\ recv' \in Slot
    BY <1>3 DEF ReceiveActivate, disk, lock, Slot
  <2> QED
    BY <2>1 DEF IInv, TypeOK, Holding, SelectedHaveBundles, PlannedHaveBundles,
       VictimsUnselected, DirectoryLast, Plan, PreparePlan, OtherPlan, PreparedAttempt,
       AttemptIsRunning, Bundle
<1> QED
  BY <1>1, <1>2, <1>3

LEMMA RollbackByHandStep ==
  ASSUME IInv, RollbackByHand
  PROVE  IInv'
<1> DEFINE old == Target("active")
           prior == Target("previous")
           a == When(old # NONE, Write("previous", old))
           b == Write("active", prior)
           c == IF Target("tested") = prior THEN Remove({"pending"})
                ELSE Write("pending", prior)
<1>1. prior \in Gens /\ Bundle(prior)
  BY TargetHasBundle DEF RollbackByHand, Selectors, Names
<1>2. old # NONE => old \in Gens /\ Bundle(old)
  BY TargetHasBundle DEF Selectors, Names
<1>3. SoundBatch(a)
  <2>1. SoundBatch(Remove({}))
    BY <1>1, SoundWrites
  <2>2. old # NONE => SoundBatch(Write("previous", old))
    BY <1>2, SoundWrites
  <2> QED
    BY <2>1, <2>2 DEF When
<1>4. SoundBatch(b) /\ SoundBatch(c)
  BY <1>1, SoundWrites
<1>5. /\ Operable /\ Take("rollback", <<a, b, c>>)
      /\ UNCHANGED <<disk, boot, running, astray, marking, recv>>
  BY DEF RollbackByHand
<1>6. recv' \in Slot
  BY <1>5 DEF IInv, TypeOK
<1> HIDE DEF a, b, c
<1>7. <<a, b, c>> \in Seq(Batch) /\ \A i \in 1..Len(<<a, b, c>>) : SoundBatch(<<a, b, c>>[i])
  BY <1>3, <1>4 DEF SoundBatch
<1> QED
  BY <1>5, <1>6, <1>7, OperatorPlan

LEMMA PrepareSteps ==
  ASSUME IInv, PrepareProceed \/ PrepareRollback
  PROVE  IInv'
<1>1. /\ boot = "init" /\ op = "idle" /\ op' = "prepare" /\ victims' = {}
      /\ Legible
      /\ UNCHANGED <<link, members, boot, running, astray, marking, recv>>
  BY DEF PrepareProceed, PrepareRollback, Take, disk
<1>2. link["active"] \in Gens /\ Bundle(link["active"])
  BY <1>1 DEF Legible, Readable, IInv, TypeOK, Slot, Names
<1>3. /\ todo' \in Seq(Batch)
      /\ \A i \in 1..Len(todo') : \A n \in DOMAIN todo'[i] \ {"event"} :
           todo'[i][n] # NONE => Bundle(todo'[i][n])
      /\ PreparePlan'
  <2>1. CASE PrepareProceed
    <3> DEFINE a == Write("attempted", link["active"])
    <3>1. todo' = <<a>>
      BY <2>1 DEF PrepareProceed, Take
    <3>2. a \in Batch /\ DOMAIN a = {"attempted"} /\ a["attempted"] = link["active"]
      BY <1>2, BatchConstructors DEF Slot, Names
    <3>3. PreparePlan'
      BY <1>1, <3>1 DEF PreparePlan
    <3> HIDE DEF a
    <3> QED
      BY <1>2, <3>1, <3>2, <3>3
  <2>2. CASE PrepareRollback
    <3> DEFINE f == link["attempted"]
               t == link["tested"]
               a == Write("active", t)
               b == Write("attempted", t)
               c == Remove({"pending"})
               d == Write("event", f)
    <3>1. todo' = Rollback(f, t)
      BY <2>2 DEF PrepareRollback, Take
    <3>2. f \in Gens /\ t \in Gens /\ Bundle(t)
      BY <1>1, <2>2 DEF PrepareRollback, CanRollBack, Legible, Readable, IInv, TypeOK,
         Slot, Names
    <3>3. /\ a \in Batch /\ DOMAIN a = {"active"} /\ a["active"] = t
          /\ b \in Batch /\ DOMAIN b = {"attempted"} /\ b["attempted"] = t
          /\ c \in Batch /\ DOMAIN c = {"pending"} /\ c["pending"] = NONE
          /\ d \in Batch /\ DOMAIN d = {"event"}
      <4> "active" \in Names /\ "attempted" \in Names /\ "event" \in Names
          /\ {"pending"} \in SUBSET Names /\ f \in Slot /\ t \in Slot
        BY <3>2 DEF Names, Slot
      <4> QED
        BY BatchConstructors
    <3>4. todo' = <<a, b, c, d>>
      BY <3>1 DEF Rollback
    <3>5. PreparePlan'
      BY <1>1, <3>1, <3>2 DEF PreparePlan
    <3> HIDE DEF a, b, c, d
    <3> QED
      BY <3>2, <3>3, <3>4, <3>5
  <2> QED
    BY <2>1, <2>2
<1>4. TypeOK'
  BY <1>1, <1>3 DEF IInv, TypeOK, Ops
<1>5. Holding'
  BY <1>1, <1>2, NoneAssumption DEF IInv, Holding
<1>6. SelectedHaveBundles' /\ VictimsUnselected' /\ DirectoryLast' /\ PlannedHaveBundles'
  BY <1>1, <1>3 DEF IInv, SelectedHaveBundles, VictimsUnselected, DirectoryLast,
     PlannedHaveBundles, Bundle
<1>7. Plan' /\ PreparedAttempt' /\ AttemptIsRunning'
  BY <1>1, <1>3 DEF IInv, Plan, PreparedAttempt, AttemptIsRunning
<1> QED
  BY <1>4, <1>5, <1>6, <1>7 DEF IInv

LEMMA MarkSuccessStep ==
  ASSUME IInv, MarkSuccess
  PROVE  IInv'
<1> DEFINE a == Write("tested", link["active"])
           b == Remove({"pending"})
           c == Remove({"event"})
           d == Remove({"attempted"})
<1>1. /\ boot = "up" /\ op = "idle" /\ marking' = FALSE
      /\ UNCHANGED <<link, members, boot, running, astray, recv>>
  BY DEF MarkSuccess, disk
<1>2. CASE UNCHANGED lock
  BY <1>1, <1>2 DEF IInv, TypeOK, Holding, SelectedHaveBundles, PlannedHaveBundles,
     VictimsUnselected, DirectoryLast, Plan, PreparePlan, OtherPlan, PreparedAttempt,
     AttemptIsRunning, Bundle, lock
<1>3. CASE /\ link["active"] # NONE
           /\ link["attempted"] = link["active"]
           /\ Readable("active")
           /\ Take("mark", <<a, b, c, d>>)
  <2>1. op' = "mark" /\ todo' = <<a, b, c, d>> /\ victims' = {}
    BY <1>3 DEF Take
  <2>2. /\ link["active"] \in Gens /\ Bundle(link["active"]) /\ running # NONE
        /\ running = link["active"] \/ astray
    BY <1>1, <1>3 DEF IInv, AttemptIsRunning, Holding, TypeOK, Slot, Readable, Names
  <2>3. /\ a \in Batch /\ DOMAIN a = {"tested"} /\ a["tested"] = link["active"]
        /\ b \in Batch /\ DOMAIN b = {"pending"} /\ b["pending"] = NONE
        /\ c \in Batch /\ DOMAIN c = {"event"} /\ c["event"] = NONE
        /\ d \in Batch /\ DOMAIN d = {"attempted"} /\ d["attempted"] = NONE
    <3> "tested" \in Names /\ link["active"] \in Slot /\ {"pending"} \in SUBSET Names
        /\ {"event"} \in SUBSET Names /\ {"attempted"} \in SUBSET Names
      BY <2>2 DEF Names, Slot
    <3> QED
      BY <2>2, BatchConstructors
  <2> HIDE DEF a, b, c, d
  <2>4. /\ todo' \in Seq(Batch)
        /\ \A i \in 1..Len(todo') : todo'[i] \in {a, b, c, d}
    BY <2>1, <2>3
  <2>5. TypeOK'
    BY <1>1, <2>1, <2>4 DEF IInv, TypeOK, Ops
  <2>6. Holding'
    BY <1>1, <2>1 DEF IInv, Holding
  <2>7. SelectedHaveBundles' /\ VictimsUnselected' /\ DirectoryLast'
    BY <1>1, <2>1 DEF IInv, SelectedHaveBundles, VictimsUnselected, DirectoryLast, Bundle
  <2>8. PlannedHaveBundles'
    BY <1>1, <2>2, <2>3, <2>4 DEF PlannedHaveBundles, Bundle
  <2>9. Plan'
    BY <1>1, <2>1, <2>2, <2>3, <2>4, NoneAssumption DEF Plan, OtherPlan
  <2>10. PreparedAttempt' /\ AttemptIsRunning'
    BY <1>1 DEF IInv, PreparedAttempt, AttemptIsRunning
  <2> QED
    BY <2>5, <2>6, <2>7, <2>8, <2>9, <2>10 DEF IInv
<1> QED
  BY <1>2, <1>3 DEF MarkSuccess

LEMMA GcStep ==
  ASSUME IInv, NEW kept \in SUBSET Gens, Gc(kept)
  PROVE  IInv'
<1>1. /\ op = "idle" /\ op' = "gc" /\ todo' = <<>> /\ Operable
      /\ UNCHANGED <<link, members, boot, running, astray, marking, recv>>
      /\ victims' \subseteq Gens \ Protected
  BY DEF Gc, disk
<1>2. \A n \in Selectors : link[n] # NONE => link[n] \in Protected
  BY DEF IInv, TypeOK, Slot, SelectedHaveBundles, DirectoryLast, Protected, Target, Selectors
<1>3. VictimsUnselected'
  BY <1>1, <1>2, NoneAssumption DEF VictimsUnselected
<1>4. TypeOK'
  <2>1. todo' \in Seq(Batch)
    BY <1>1
  <2> QED
    BY <1>1, <2>1 DEF IInv, TypeOK, Ops
<1>5. Holding'
  BY <1>1 DEF IInv, Holding, Operable
<1>6. SelectedHaveBundles' /\ PlannedHaveBundles' /\ DirectoryLast' /\ Plan'
      /\ PreparedAttempt' /\ AttemptIsRunning'
  BY <1>1 DEF IInv, SelectedHaveBundles, PlannedHaveBundles, DirectoryLast, Plan, OtherPlan,
     PreparedAttempt, AttemptIsRunning, Bundle
<1> QED
  BY <1>3, <1>4, <1>5, <1>6 DEF IInv

LEMMA NextIInv == IInv /\ [Next]_vars => IInv'
<1> SUFFICES ASSUME IInv, [Next]_vars PROVE IInv'
  OBVIOUS
<1>1. CASE UNCHANGED vars
  BY <1>1 DEF vars, IInv, TypeOK, Holding, SelectedHaveBundles, PlannedHaveBundles,
     VictimsUnselected, DirectoryLast, Plan, PreparePlan, OtherPlan, PreparedAttempt,
     AttemptIsRunning, Bundle
<1>2. CASE BootStep
  BY <1>2, MachineSteps, PrepareSteps DEF BootStep
<1>3. CASE HolderStep
  BY <1>3, DoWriteStep, FinishStep, DeleteStep DEF HolderStep
<1>4. CASE OperatorStep
  BY <1>4, Installations, ActivateSteps, RollbackByHandStep, GcStep DEF OperatorStep
<1>5. CASE HealthCheck \/ MarkSuccess \/ Reboot
  BY <1>5, MachineSteps, MarkSuccessStep
<1>6. CASE RetryBoot \/ Mishap
  BY <1>6, MachineSteps, MishapSteps DEF Mishap
<1> QED
  BY <1>1, <1>2, <1>3, <1>4, <1>5, <1>6 DEF Next, CalmStep

-----------------------------------------------------------------------------
(* Theorems *)

\* The inductive invariant holds in every reachable state.
THEOREM Invariance == Spec => []IInv
  BY InitIInv, NextIInv, PTL DEF Spec

\* The state has its type.
THEOREM TypeCorrect == Spec => []TypeOK
<1>1. IInv => TypeOK
  BY DEF IInv
<1> QED
  BY <1>1, Invariance, PTL

\* No selector ever names a generation without its image and signature,
\* whatever gc deletes and wherever the power fails.
THEOREM SelectorsHoldBundles == Spec => []SelectedHaveBundles
<1>1. IInv => SelectedHaveBundles
  BY DEF IInv
<1> QED
  BY <1>1, Invariance, PTL

\* An open attempt names the generation that runs, so that mark-success can
\* only credit that one: after every boot but one from the menu that found the
\* attempt of another generation open.
THEOREM AttemptNamesRunning == Spec => []AttemptIsRunning
<1>1. IInv => AttemptIsRunning
  BY DEF IInv
<1> QED
  BY <1>1, Invariance, PTL

-----------------------------------------------------------------------------
(* The abstract register *)

Booting == boot \in {"off", "init", "prepared"}

\* A whole or partial write changes the register as its abstract actions allow.
LEMMA WriteRefines ==
  ASSUME IInv, todo # <<>>, NEW S \in SUBSET DOMAIN Head(todo),
         link' = Apply(link, PartOf(Head(todo), S))
  PROVE  Selection!Change
<1> DEFINE b == Head(todo)
<1>1. /\ link' \in [Names -> Slot]
      /\ \A n \in Names : link'[n] = IF n \in S THEN b[n] ELSE link[n]
      /\ \A n \in Selectors : link'[n] # NONE => Bundle(link'[n])
  BY PartWritten
<1>2. b = todo[1] /\ 1 \in 1..Len(todo) /\ op \notin {"idle", "gc"}
  BY DEF IInv, TypeOK, Holding
<1>3. CASE op = "prepare"
  <2>1. Booting
    BY <1>3 DEF IInv, Holding, Booting
  <2>2. PreparePlan
    BY <1>3 DEF IInv, Plan
  <2>3. \/ DOMAIN b \cap {"active", "tested"} = {}
        \/ /\ DOMAIN b = {"active"} /\ b["active"] = link["tested"]
           /\ link["tested"] # NONE
    <3>1. CASE todo = << Write("attempted", link["active"]) >>
      BY <3>1 DEF Write
    <3>2. ASSUME NEW f \in Gens, NEW t \in Gens, t = link["tested"],
                 \/ todo = Rollback(f, t)
                 \/ todo = Tail(Rollback(f, t)) /\ link["active"] = t
                 \/ todo = << Remove({"pending"}), Write("event", f) >>
                 \/ todo = << Write("event", f) >>
          PROVE  \/ DOMAIN b \cap {"active", "tested"} = {}
                 \/ /\ DOMAIN b = {"active"} /\ b["active"] = link["tested"]
                    /\ link["tested"] # NONE
      <4>1. CASE todo = Rollback(f, t)
        <5>1. b = Write("active", t)
          BY <4>1 DEF Rollback
        <5> QED
          BY <3>2, <5>1, NoneAssumption DEF Write
      <4>2. CASE todo = Tail(Rollback(f, t))
        <5>2. b = Write("attempted", t)
          BY <4>2, RollbackTail
        <5> QED
          BY <5>2 DEF Write
      <4>3. CASE todo = << Remove({"pending"}), Write("event", f) >>
        BY <4>3 DEF Remove
      <4>4. CASE todo = << Write("event", f) >>
        BY <4>4 DEF Write
      <4> QED
        BY <3>2, <4>1, <4>2, <4>3, <4>4
    <3> QED
      BY <2>2, <3>1, <3>2 DEF PreparePlan
  <2>4. \/ link'["active"] = link["active"] /\ link'["tested"] = link["tested"]
        \/ /\ link'["active"] = link["tested"] /\ link'["tested"] = link["tested"]
           /\ link["tested"] # NONE
    BY <1>1, <2>3 DEF Names
  <2> QED
    BY <2>1, <2>4 DEF Selection!Change, Selection!FallBack, Booting
<1>4. CASE op # "prepare"
  <2>1. ~Booting
    BY <1>2, <1>4 DEF IInv, Holding, Booting, TypeOK, Phases
  <2>2. \A n \in DOMAIN b :
          /\ n = "tested" => op = "mark" /\ b[n] = link["active"]
                              /\ (running = link["active"] \/ astray) /\ running # NONE
          /\ n = "active" => op \in {"activate", "rollback"} /\ b[n] # NONE
    BY <1>2, <1>4 DEF IInv, Plan, OtherPlan
  <2>3. CASE op = "mark"
    <3>1. link'["active"] = link["active"]
          /\ \/ link'["tested"] = link["tested"]
             \/ /\ link'["tested"] = link["active"] /\ running # NONE
                /\ running = link["active"] \/ astray
      BY <1>1, <2>2, <2>3 DEF Names
    <3> QED
      BY <2>1, <3>1 DEF Selection!Change, Selection!Prove, Booting
  <2>4. CASE op # "mark"
    <3>1. link'["tested"] = link["tested"]
      BY <1>1, <2>2, <2>4 DEF Names
    <3>2. link'["active"] = link["active"] \/ link'["active"] \in Gens
      BY <1>1, <2>2 DEF Names, Slot
    <3> QED
      BY <2>1, <3>1, <3>2 DEF Selection!Change, Selection!Choose, Booting
  <2> QED
    BY <2>3, <2>4
<1> QED
  BY <1>3, <1>4

LEMMA StepRefines ==
  ASSUME IInv, [Next]_vars
  PROVE  [Selection!Next]_Selection!vars
<1> USE DEF Selection!Next, Selection!Work, Selection!vars
<1>1. CASE UNCHANGED <<link, boot, running, astray>>
  BY <1>1
<1>2. CASE PowerOn
  BY <1>2 DEF PowerOn, disk, Selection!Change
<1>3. CASE PrepareFail \/ ForceRescue \/ BootError
  <2>1. boot \in {"init", "prepared"} /\ boot' = "rescue" /\ UNCHANGED <<link, running, astray>>
    BY <1>3 DEF PrepareFail, ForceRescue, BootError, disk
  <2> QED
    BY <2>1 DEF Selection!GiveUp, Selection!Change
<1>4. CASE Kexec
  <2>1. /\ boot = "prepared" /\ boot' = "up" /\ running' = link["active"]
        /\ UNCHANGED <<link, astray>> /\ link["active"] # NONE
    BY <1>4 DEF Kexec, disk, IInv, Holding
  <2> QED
    BY <2>1 DEF Selection!Start
<1>5. CASE Reboot
  <2>1. boot' = "off" /\ running' = NONE /\ astray' = FALSE /\ UNCHANGED link
    BY <1>5 DEF Reboot, disk
  <2> QED
    BY <2>1 DEF Selection!Stop, Selection!Change
<1>6. CASE DoWrite
  <2>1. todo # <<>> /\ UNCHANGED <<boot, running, astray>>
        /\ link' = Apply(link, PartOf(Head(todo), DOMAIN Head(todo)))
    BY <1>6, WholeIsPart, WholeWritten DEF DoWrite
  <2>2. Selection!Change
    BY <2>1, WriteRefines
  <2> QED
    BY <2>1, <2>2
<1>7. CASE Interrupted /\ (PowerLoss \/ Fail \/ RetryBoot)
  <2>1. Selection!Change
    <3>1. CASE todo = <<>>
      BY <1>7, <3>1 DEF Interrupted, Selection!Change
    <3>2. CASE todo # <<>>
      BY <1>7, <3>2, WriteRefines DEF Interrupted
    <3> QED
      BY <3>1, <3>2
  <2>2. CASE PowerLoss
    BY <2>1, <2>2 DEF PowerLoss, Selection!Stop
  <2>3. CASE Fail /\ op = "prepare"
    <3>1. boot = "init" /\ boot' = "rescue" /\ UNCHANGED <<running, astray>>
      BY <2>3 DEF Fail, IInv, Holding
    <3> QED
      BY <2>1, <3>1 DEF Selection!GiveUp
  <2>4. CASE Fail /\ op # "prepare"
    <3>1. UNCHANGED <<boot, running, astray>>
      BY <2>4 DEF Fail
    <3> QED
      BY <2>1, <3>1
  <2>5. CASE RetryBoot
    <3>1. /\ boot = "rescue" /\ boot' = "up" /\ running = NONE
          /\ link'["active"] # NONE /\ running' = link'["active"] /\ astray' \in BOOLEAN
      BY <2>5 DEF RetryBoot, IInv, Holding
    <3> QED
      BY <2>1, <3>1 DEF Selection!StartByHand
  <2> QED
    BY <1>7, <2>2, <2>3, <2>4, <2>5
<1>8. CASE Finish
  <2>1. UNCHANGED <<link, running, astray>>
        /\ (boot' = boot \/ (boot = "init" /\ boot' = "prepared"))
    BY <1>8 DEF Finish, disk, IInv, Holding
  <2> QED
    BY <2>1 DEF Selection!Change
<1>9. CASE UNCHANGED vars
  BY <1>1, <1>9 DEF vars
<1>10. CASE \/ PrepareRollback \/ PrepareProceed \/ HealthCheck \/ MarkSuccess
            \/ OperatorStep \/ \E g \in Gens : Delete(g)
  <2>1. UNCHANGED <<link, boot, running, astray>>
    BY <1>10 DEF PrepareRollback, PrepareProceed, HealthCheck, MarkSuccess, OperatorStep,
       Install, Activate, Receive, ReceiveActivate, RollbackByHand, Gc, Delete, disk
  <2> QED
    BY <1>1, <2>1
<1>11. PowerLoss \/ Fail \/ RetryBoot => Interrupted
  BY DEF PowerLoss, Fail, RetryBoot
<1> QED
  BY <1>2, <1>3, <1>4, <1>5, <1>6, <1>7, <1>8, <1>9, <1>10, <1>11
     DEF Next, CalmStep, BootStep, HolderStep, Mishap

\* The selectors implement the abstract register: operators choose, a boot
\* falls back to the proven generation only, and only the running, selected
\* generation becomes proven.
THEOREM Refinement == Spec => ImplementsSelection
<1>1. Init => Selection!Init
  BY DEF Init, Selection!Init, Names
<1>2. IInv /\ [Next]_vars => [Selection!Next]_Selection!vars
  BY StepRefines
<1> QED
  BY <1>1, <1>2, Invariance, PTL DEF Spec, ImplementsSelection, Selection!Spec
=============================================================================
