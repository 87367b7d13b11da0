---------------------------- MODULE Seal_proofs ----------------------------
(***************************************************************************)
(* What the runs of Seal check for two volumes, proved for any number: no  *)
(* operator before the lock register is capped, no open TPM volume beside  *)
(* one that the registry could still name, rescue entered at most twice,   *)
(* and no unattended boot past a request for rescue.                       *)
(***************************************************************************)
EXTENDS Seal, TLAPS

\* No secret can be unsealed any more.
Capped == box.tpm => capped

\* Places that only a completed strict seal leads to.
BehindSeal == {"menu", "shell", "loading", "image", "child", "console"}

\* The machine is about to restart; nothing but a panic leads elsewhere.
Leaving == pc \in {"off", "halted", "booted", "marking", "relocking"}
           \/ (pc \in {"capping", "closing"} /\ goal = "refuse")

LatchInv == latch => Capped

StrictInv == pc = "closing" /\ goal # "refuse" => latch

GoalInv == pc \in {"capping", "closing"} => goal # "none"

\* What a completed seal leaves behind stays true until the machine restarts.
SealedInv ==
  (pc \in BehindSeal \/ retry \/ shells) => Capped /\ open \subseteq missed

\* The strict seal still has to close what it has not closed yet.
ClosingInv == pc = "closing" /\ goal # "refuse" => open \subseteq missed \cup todo

\* A mapper is recorded, hidden by a panic, or about to be recorded.
KnownInv ==
  ~Leaving => open \subseteq mem \cup file \cup missed \cup waits
                      \cup (IF pc = "closing" THEN todo ELSE {})

WaitInv == waits # {} => pc = "opening"

\* Only the activation that the process waits for, or the orphan of a panic,
\* is at work; one that has its key can only be awaited by a first boot.
ChildInv ==
  pc # "off" => \A m \in Mappers :
    /\ child[m] # "idle" => m \in missed \/ m \in waits
    /\ child[m] = "keyed" => m \in missed \/ (~retry /\ ~shells)

Knowledge ==
  /\ LatchInv /\ StrictInv /\ GoalInv /\ SealedInv /\ ClosingInv
  /\ KnownInv /\ WaitInv /\ ChildInv

IInv == TypeOK /\ Knowledge

-----------------------------------------------------------------------------
(* Types *)

\* The type invariant in four parts, which the steps change separately.
PlacesOK ==
  /\ pc \in Places /\ goal \in Goals
  /\ todo \in SUBSET Mappers /\ waits \in SUBSET Mappers

PathOK ==
  /\ box \in Boxes
  /\ retry \in BOOLEAN /\ resort \in BOOLEAN /\ lost \in BOOLEAN
  /\ entered \in Nat

StoreOK ==
  /\ open \in SUBSET Mappers /\ mounts \in SUBSET Mappers
  /\ file \in SUBSET Mappers /\ mem \in SUBSET Mappers /\ missed \in SUBSET Mappers
  /\ child \in [Mappers -> {"idle", "asking", "keyed"}]

FlagsOK ==
  /\ capped \in BOOLEAN /\ shells \in BOOLEAN /\ latch \in BOOLEAN
  /\ sentinel \in {"none", "cached", "durable"}
  /\ asked \in {"no", "refused", "requested"}

\* The parts are the type invariant.
LEMMA TypeParts == TypeOK <=> PlacesOK /\ PathOK /\ StoreOK /\ FlagsOK
  BY DEF TypeOK, PlacesOK, PathOK, StoreOK, FlagsOK

\* The initial state is well typed.
LEMMA InitType == Init => TypeOK
<1>. SUFFICES ASSUME Init PROVE TypeOK
  OBVIOUS
<1>1. PlacesOK
  BY DEF Init, PlacesOK, Goals, Places
<1>2. PathOK
  BY DEF Init, PathOK
<1>3. StoreOK
  BY DEF Init, StoreOK
<1>4. FlagsOK
  BY DEF Init, FlagsOK
<1>. QED
  BY <1>1, <1>2, <1>3, <1>4, TypeParts

\* Every step keeps the types.
LEMMA NextPlaces ==
  ASSUME PlacesOK, StoreOK, [Next]_vars
  PROVE  PlacesOK'
<1>. USE DEF PlacesOK, Places, Goals
<1>1. CASE Begin \/ EarlyFailure
  BY <1>1 DEF Begin, EarlyFailure, EnterRescue, SealFor, OpenVolumes, OpenMenu, Configured
<1>2. CASE AskForShell \/ AskForReboot \/ ChildStep
  BY <1>2 DEF AskForShell, AskForReboot, ChildStep, SealFor, To
<1>3. ASSUME NEW m \in Mappers, Spawn(m) \/ Register(m) \/ ActivationFails(m)
      PROVE  PlacesOK'
  BY <1>3 DEF Spawn, Register, ActivationFails, BootFails, EnterRescue, SealFor, OpenMenu, To
<1>4. ASSUME NEW up \in SUBSET Mappers, MountSystem(up)
      PROVE  PlacesOK'
  BY <1>4 DEF MountSystem, BootFails, EnterRescue, SealFor, OpenMenu, To
<1>5. CASE FindSentinel \/ Boot \/ SelectionFails \/ Refuse
  BY <1>5 DEF FindSentinel, Boot, SelectionFails, Refuse, BootFails, EnterRescue, SealFor,
     OpenMenu, To
<1>6. CASE Cap \/ CapFails
  BY <1>6 DEF Cap, CapFails, Snapshot, Abandon, SealFor, To, StoreOK
<1>7. CASE Sealed
  BY <1>7 DEF Sealed, After
<1>8. ASSUME NEW m \in Mappers, Close(m) \/ CloseFails(m)
      PROVE  PlacesOK'
  BY <1>8 DEF Close, CloseFails, Abandon, SealFor, To
<1>9. CASE ChooseShell \/ ChooseReboot \/ ChooseRetry \/ LeaveShell
  BY <1>9 DEF ChooseShell, ChooseReboot, ChooseRetry, LeaveShell, OpenVolumes, OpenMenu,
     SealFor, To, Configured
<1>10. CASE LoadModules \/ LoadFails \/ Dispatch \/ ChildReady \/ ChildEnds
  BY <1>10 DEF LoadModules, LoadFails, Dispatch, ChildReady, ChildEnds, EnterRescue,
     SealFor, OpenMenu, To
<1>11. CASE WriteSentinel \/ Relock
  BY <1>11 DEF WriteSentinel, Relock, To
<1>12. CASE Panic
  BY <1>12 DEF Panic, SealFor
<1>13. CASE Flush \/ PowerLoss \/ RequestRescue \/ ShutDown \/ PowerOn
  BY <1>13 DEF Flush, PowerLoss, RequestRescue, ShutDown, PowerOn, To
<1>14. CASE UNCHANGED vars
  BY <1>14 DEF vars
<1>. QED
  BY <1>1, <1>2, <1>3, <1>4, <1>5, <1>6, <1>7, <1>8, <1>9, <1>10, <1>11, <1>12, <1>13,
     <1>14 DEF Next

\* A step leaves the path alone, or enters rescue or opens the menu.
LEMMA PathSteps ==
  ASSUME PathOK, box' = box
  PROVE  /\ UNCHANGED path => PathOK'
         /\ OpenMenu => PathOK'
         /\ \A l \in BOOLEAN : EnterRescue(l) => PathOK'
         /\ BootFails => PathOK'
<1>1. UNCHANGED path => PathOK'
  BY DEF PathOK, path
<1>2. ASSUME NEW l \in BOOLEAN, EnterRescue(l)
      PROVE  PathOK'
  <2>1. entered' \in Nat
    BY <1>2 DEF PathOK, EnterRescue
  <2>. QED
    BY <1>2, <2>1 DEF PathOK, EnterRescue
<1>. QED
  BY <1>1, <1>2 DEF OpenMenu, BootFails

\* No step takes the path out of its types.
LEMMA NextPath ==
  ASSUME PathOK, [Next]_vars
  PROVE  PathOK'
<1>1. CASE Begin \/ EarlyFailure
  BY <1>1, PathSteps DEF Begin, EarlyFailure
<1>2. CASE AskForShell \/ AskForReboot \/ ChildStep
  BY <1>2, PathSteps DEF AskForShell, AskForReboot, ChildStep
<1>3. ASSUME NEW m \in Mappers, Spawn(m) \/ Register(m) \/ ActivationFails(m)
      PROVE  PathOK'
  BY <1>3, PathSteps DEF Spawn, Register, ActivationFails
<1>4. ASSUME NEW up \in SUBSET Mappers, MountSystem(up)
      PROVE  PathOK'
  BY <1>4, PathSteps DEF MountSystem
<1>5. CASE FindSentinel \/ Boot \/ SelectionFails \/ Refuse
  BY <1>5, PathSteps DEF FindSentinel, Boot, SelectionFails, Refuse
<1>6. CASE Cap \/ CapFails
  BY <1>6, PathSteps DEF Cap, CapFails, Snapshot, Abandon
<1>7. ASSUME NEW m \in Mappers, Close(m) \/ CloseFails(m)
      PROVE  PathOK'
  BY <1>7, PathSteps DEF Close, CloseFails, Abandon
<1>8. CASE Sealed \/ ChooseShell \/ ChooseReboot \/ LeaveShell
  BY <1>8, PathSteps DEF Sealed, ChooseShell, ChooseReboot, LeaveShell
<1>9. CASE ChooseRetry
  BY <1>9 DEF ChooseRetry, PathOK
<1>10. CASE LoadModules \/ LoadFails \/ Dispatch \/ ChildReady \/ ChildEnds
  BY <1>10, PathSteps DEF LoadModules, LoadFails, Dispatch, ChildReady, ChildEnds
<1>11. CASE WriteSentinel \/ Relock \/ Flush \/ PowerLoss \/ RequestRescue \/ ShutDown
  BY <1>11, PathSteps DEF WriteSentinel, Relock, Flush, PowerLoss, RequestRescue, ShutDown
<1>12. CASE Panic
  <2>1. box.bootstrap \in BOOLEAN
    BY BoxAssumption DEF PathOK, BoxType
  <2>2. (entered' = 1 /\ resort' = TRUE) \/ (entered' = 0 /\ resort' = FALSE)
    BY <1>12, Zenon DEF Panic, SealFor
  <2>3. entered' \in Nat
    BY <2>2
  <2>4. resort' \in BOOLEAN
    BY <2>2, Zenon
  <2>5. box' = box /\ retry' = FALSE /\ lost' = box.bootstrap
    BY <1>12 DEF Panic
  <2>. QED
    BY <2>1, <2>3, <2>4, <2>5, Zenon DEF PathOK
<1>13. CASE PowerOn
  <2>1. entered' \in Nat
    BY <1>13 DEF PowerOn
  <2>. QED
    BY <1>13, <2>1 DEF PowerOn, PathOK
<1>14. CASE UNCHANGED vars
  BY <1>14, PathSteps DEF vars
<1>. QED
  BY <1>1, <1>2, <1>3, <1>4, <1>5, <1>6, <1>7, <1>8, <1>9, <1>10, <1>11, <1>12, <1>13,
     <1>14 DEF Next

\* What is kept of the volumes keeps its types.
LEMMA NextStore ==
  ASSUME StoreOK, PlacesOK, [Next]_vars
  PROVE  StoreOK'
<1>. USE DEF StoreOK, PlacesOK
<1>1. CASE Begin \/ EarlyFailure
  BY <1>1 DEF Begin, EarlyFailure, EnterRescue, SealFor, OpenVolumes, OpenMenu, Configured, kernel
<1>2. CASE AskForShell \/ AskForReboot \/ ChildStep
  BY <1>2 DEF AskForShell, AskForReboot, ChildStep, Unseal, Map, GiveUp, kernel
<1>3. ASSUME NEW m \in Mappers, Spawn(m) \/ Register(m) \/ ActivationFails(m)
      PROVE  StoreOK'
  BY <1>3 DEF Spawn, Register, ActivationFails, BootFails, EnterRescue, SealFor, OpenMenu, To, kernel
<1>4. ASSUME NEW up \in SUBSET Mappers, MountSystem(up)
      PROVE  StoreOK'
  BY <1>4 DEF MountSystem, BootFails, EnterRescue, SealFor, OpenMenu, To, kernel
<1>5. CASE FindSentinel \/ Boot \/ SelectionFails \/ Refuse
  BY <1>5 DEF FindSentinel, Boot, SelectionFails, Refuse, BootFails, EnterRescue, SealFor,
     OpenMenu, To, kernel
<1>6. CASE Cap \/ CapFails
  BY <1>6 DEF Cap, CapFails, Snapshot, Abandon, SealFor, To, kernel
<1>7. CASE Sealed
  BY <1>7 DEF Sealed, After, kernel
<1>8. ASSUME NEW m \in Mappers, Close(m) \/ CloseFails(m)
      PROVE  StoreOK'
  BY <1>8 DEF Close, CloseFails, Kept, Forget, kernel
<1>9. CASE ChooseShell \/ ChooseReboot \/ ChooseRetry \/ LeaveShell
  BY <1>9 DEF ChooseShell, ChooseReboot, ChooseRetry, LeaveShell, OpenVolumes, OpenMenu,
     SealFor, To, Configured, kernel
<1>10. CASE LoadModules \/ LoadFails \/ Dispatch \/ ChildReady \/ ChildEnds
  BY <1>10 DEF LoadModules, LoadFails, Dispatch, ChildReady, ChildEnds, EnterRescue,
     SealFor, OpenMenu, To, kernel
<1>11. CASE WriteSentinel \/ Relock
  BY <1>11 DEF WriteSentinel, Relock, To, kernel
<1>12. CASE Panic
  BY <1>12 DEF Panic, SealFor, kernel
<1>13. CASE Flush \/ PowerLoss \/ RequestRescue \/ ShutDown \/ PowerOn
  BY <1>13 DEF Flush, PowerLoss, RequestRescue, ShutDown, PowerOn, To, kernel
<1>14. CASE UNCHANGED vars
  BY <1>14 DEF vars, kernel
<1>. QED
  BY <1>1, <1>2, <1>3, <1>4, <1>5, <1>6, <1>7, <1>8, <1>9, <1>10, <1>11, <1>12, <1>13,
     <1>14 DEF Next

\* So do the flags, of which only a few steps change any.
LEMMA NextFlags ==
  ASSUME FlagsOK, [Next]_vars
  PROVE  FlagsOK'
<1>. USE DEF FlagsOK
<1>1. CASE Begin \/ EarlyFailure
  BY <1>1 DEF Begin, EarlyFailure, EnterRescue, SealFor, OpenVolumes, OpenMenu, Configured, kernel
<1>2. CASE AskForShell \/ AskForReboot \/ ChildStep
  BY <1>2 DEF AskForShell, AskForReboot, ChildStep, Unseal, Map, GiveUp, kernel
<1>3. ASSUME NEW m \in Mappers, Spawn(m) \/ Register(m) \/ ActivationFails(m)
      PROVE  FlagsOK'
  BY <1>3 DEF Spawn, Register, ActivationFails, BootFails, EnterRescue, SealFor, OpenMenu, To, kernel
<1>4. ASSUME NEW up \in SUBSET Mappers, MountSystem(up)
      PROVE  FlagsOK'
  BY <1>4 DEF MountSystem, BootFails, EnterRescue, SealFor, OpenMenu, To, kernel
<1>5. CASE FindSentinel \/ Boot \/ SelectionFails \/ Refuse
  BY <1>5 DEF FindSentinel, Boot, SelectionFails, Refuse, BootFails, EnterRescue, SealFor,
     OpenMenu, To, kernel
<1>6. CASE Cap \/ CapFails
  BY <1>6 DEF Cap, CapFails, Snapshot, Abandon, SealFor, To, kernel
<1>7. CASE Sealed
  BY <1>7 DEF Sealed, After, kernel
<1>8. ASSUME NEW m \in Mappers, Close(m) \/ CloseFails(m)
      PROVE  FlagsOK'
  BY <1>8 DEF Close, CloseFails, Kept, Forget, kernel
<1>9. CASE ChooseShell \/ ChooseReboot \/ ChooseRetry \/ LeaveShell
  BY <1>9 DEF ChooseShell, ChooseReboot, ChooseRetry, LeaveShell, OpenVolumes, OpenMenu,
     SealFor, To, Configured, kernel
<1>10. CASE LoadModules \/ LoadFails \/ Dispatch \/ ChildReady \/ ChildEnds
  BY <1>10 DEF LoadModules, LoadFails, Dispatch, ChildReady, ChildEnds, EnterRescue,
     SealFor, OpenMenu, To, kernel
<1>11. CASE WriteSentinel \/ Relock
  BY <1>11 DEF WriteSentinel, Relock, To, kernel
<1>12. CASE Panic
  BY <1>12 DEF Panic, SealFor, kernel
<1>13. CASE Flush \/ PowerLoss \/ RequestRescue \/ ShutDown \/ PowerOn
  BY <1>13 DEF Flush, PowerLoss, RequestRescue, ShutDown, PowerOn, To, kernel
<1>14. CASE UNCHANGED vars
  BY <1>14 DEF vars, kernel
<1>. QED
  BY <1>1, <1>2, <1>3, <1>4, <1>5, <1>6, <1>7, <1>8, <1>9, <1>10, <1>11, <1>12, <1>13,
     <1>14 DEF Next

\* The type invariant is preserved.
LEMMA NextType == ASSUME TypeOK, [Next]_vars PROVE TypeOK'
<1>1. PlacesOK' /\ PathOK' /\ StoreOK' /\ FlagsOK'
  BY TypeParts, NextPlaces, NextPath, NextStore, NextFlags
<1>. QED
  BY <1>1 DEF TypeOK, PlacesOK, PathOK, StoreOK, FlagsOK

-----------------------------------------------------------------------------
(* The invariant *)

\* Nothing is open at power-on.
LEMMA InitInv == Init => IInv
<1>. SUFFICES ASSUME Init PROVE IInv
  OBVIOUS
<1>1. TypeOK
  BY InitType
<1>. QED
  BY <1>1 DEF Init, IInv, Knowledge, LatchInv, StrictInv, GoalInv, SealedInv, ClosingInv,
     KnownInv, WaitInv, ChildInv, Leaving, BehindSeal

\* No step loses track of an open mapper or passes by the seal.
LEMMA NextKnowledge ==
  ASSUME IInv, [Next]_vars
  PROVE  Knowledge'
<1>. USE DEF IInv, LatchInv, StrictInv, GoalInv, SealedInv, ClosingInv,
     KnownInv, WaitInv, ChildInv, Leaving, BehindSeal, Capped, Knowledge,
     TypeOK, Goals, Places
<1>1. CASE Begin
  BY <1>1 DEF Begin, SealFor, EnterRescue, OpenVolumes, Configured, kernel, path
<1>2. CASE EarlyFailure
  BY <1>2 DEF EarlyFailure, SealFor, EnterRescue, OpenMenu, kernel, path
<1>3. CASE AskForShell
  BY <1>3 DEF AskForShell, SealFor, kernel, path
<1>4. CASE AskForReboot
  BY <1>4 DEF AskForReboot, To, kernel, path
<1>5. CASE ChildStep
  BY <1>5 DEF ChildStep, Unseal, Map, GiveUp, kernel, path
<1>6. ASSUME NEW m \in Mappers, Spawn(m)
       PROVE  Knowledge'
  BY <1>6 DEF Spawn, kernel, path
<1>7. ASSUME NEW m \in Mappers, Register(m)
       PROVE  Knowledge'
  BY <1>7 DEF Register, kernel, path
<1>8. ASSUME NEW m \in Mappers, ActivationFails(m)
       PROVE  Knowledge'
  BY <1>8 DEF ActivationFails, BootFails, To, EnterRescue, OpenMenu, SealFor, kernel, path
<1>9. ASSUME NEW up \in SUBSET Mappers, MountSystem(up)
       PROVE  Knowledge'
  BY <1>9 DEF MountSystem, BootFails, To, EnterRescue, OpenMenu, SealFor, Configured,
     kernel, path
<1>10. CASE FindSentinel
  BY <1>10 DEF FindSentinel, EnterRescue, SealFor, kernel, path
<1>11. CASE Boot
  BY <1>11 DEF Boot, To, kernel, path
<1>12. CASE SelectionFails
  BY <1>12 DEF SelectionFails, BootFails, To, EnterRescue, OpenMenu, SealFor, kernel, path
<1>13. CASE Refuse
  BY <1>13 DEF Refuse, SealFor, kernel, path
<1>14. CASE Cap
  BY <1>14 DEF Cap, Snapshot, kernel, path
<1>15. CASE CapFails
  BY <1>15 DEF CapFails, Snapshot, Abandon, To, SealFor, kernel, path
<1>16. CASE Sealed
  BY <1>16 DEF Sealed, After, kernel, path
<1>17. ASSUME NEW m \in Mappers, Close(m)
       PROVE  Knowledge'
  BY <1>17 DEF Close, Kept, Forget, kernel, path
<1>18. ASSUME NEW m \in Mappers, CloseFails(m)
       PROVE  Knowledge'
  BY <1>18 DEF CloseFails, Kept, Abandon, To, SealFor, kernel, path
<1>19. CASE ChooseShell
  BY <1>19 DEF ChooseShell, SealFor, kernel, path
<1>20. CASE ChooseReboot
  BY <1>20 DEF ChooseReboot, To, kernel, path
<1>21. CASE ChooseRetry
  BY <1>21 DEF ChooseRetry, OpenVolumes, Configured, kernel, path
<1>22. CASE LeaveShell
  BY <1>22 DEF LeaveShell, OpenMenu, SealFor, To, kernel, path
<1>23. CASE LoadModules
  BY <1>23 DEF LoadModules, SealFor, kernel, path
<1>24. CASE LoadFails
  BY <1>24 DEF LoadFails, EnterRescue, OpenMenu, SealFor, kernel, path
<1>25. CASE Dispatch
  BY <1>25 DEF Dispatch, SealFor, To, kernel, path
<1>26. CASE ChildReady
  BY <1>26 DEF ChildReady, kernel, path
<1>27. CASE ChildEnds
  BY <1>27 DEF ChildEnds, To, kernel, path
<1>28. CASE WriteSentinel
  BY <1>28 DEF WriteSentinel, kernel, path
<1>29. CASE Relock
  BY <1>29 DEF Relock, To, kernel, path
<1>30. CASE Panic
  BY <1>30 DEF Panic, SealFor, kernel, path
<1>31. CASE Flush
  BY <1>31 DEF Flush, kernel, path
<1>32. CASE PowerLoss
  BY <1>32 DEF PowerLoss, To, kernel, path
<1>33. CASE RequestRescue
  BY <1>33 DEF RequestRescue, To, kernel, path
<1>34. CASE ShutDown
  BY <1>34 DEF ShutDown, To, kernel, path
<1>35. CASE PowerOn
  BY <1>35 DEF PowerOn, To, kernel, path
<1>36. CASE UNCHANGED vars
  BY <1>36 DEF vars, kernel, path
<1>. QED
  BY <1>1, <1>2, <1>3, <1>4, <1>5, <1>6, <1>7, <1>8, <1>9, <1>10, <1>11, <1>12, <1>13,
     <1>14, <1>15, <1>16, <1>17, <1>18, <1>19, <1>20, <1>21, <1>22, <1>23, <1>24, <1>25,
     <1>26, <1>27, <1>28, <1>29, <1>30, <1>31, <1>32, <1>33, <1>34, <1>35, <1>36 DEF Next

-----------------------------------------------------------------------------
(* How often rescue is entered *)

\* The final failure of a boot spends the only attempt that may follow another;
\* a boot that still starts by itself has entered none.
Entries ==
  /\ entered <= IF resort THEN 2 ELSE 1
  /\ pc = "start" => entered = 0 /\ ~retry
  /\ pc \in {"opening", "ready"} /\ ~retry => entered = 0

\* What a step that leads away from the boot does to the count.
LEMMA Entering ==
  ASSUME PathOK, Entries, pc' = "capping"
  PROVE  /\ UNCHANGED path => Entries'
         /\ entered = 0 /\ (\E l \in BOOLEAN : EnterRescue(l)) => Entries'
         /\ ~resort /\ EnterRescue(TRUE) => Entries'
  BY DEF PathOK, Entries, EnterRescue, path

\* No step enters rescue once too often.
LEMMA NextEntries ==
  ASSUME PlacesOK, PathOK, Entries, [Next]_vars
  PROVE  Entries'
<1>1. ASSUME UNCHANGED path, pc' \notin {"start", "opening", "ready"} \/ pc' = pc
      PROVE  Entries'
  BY <1>1 DEF Entries, path
<1>2. ASSUME entered = 0, pc' = "capping", \E l \in BOOLEAN : EnterRescue(l)
      PROVE  Entries'
  BY <1>2, Entering
<1>3. ASSUME BootFails, pc \in {"opening", "ready"}
      PROVE  Entries'
  <2>1. CASE retry
    BY <1>1, <1>3, <2>1 DEF BootFails, To
  <2>2. CASE ~retry
    BY <1>1, <1>2, <1>3, <2>2 DEF BootFails, Entries, EnterRescue, OpenMenu, SealFor
  <2>. QED
    BY <2>1, <2>2
<1>4. CASE Begin
  <2>1. CASE EnterRescue(FALSE)
    BY <1>2, <1>4, <2>1 DEF Begin, EnterRescue, SealFor, Entries, PathOK
  <2>2. CASE OpenVolumes /\ UNCHANGED path
    BY <1>4, <2>2 DEF Begin, OpenVolumes, Entries, path
  <2>. QED
    BY <1>4, <2>1, <2>2 DEF Begin
<1>5. CASE EarlyFailure
  BY <1>1, <1>2, <1>5 DEF EarlyFailure, OpenMenu, EnterRescue, SealFor, Entries
<1>6. CASE AskForShell \/ AskForReboot \/ ChildStep
  BY <1>1, <1>6 DEF AskForShell, AskForReboot, ChildStep, SealFor, To
<1>7. ASSUME NEW m \in Mappers, Spawn(m) \/ Register(m)
      PROVE  Entries'
  BY <1>1, <1>7 DEF Spawn, Register
<1>8. ASSUME NEW m \in Mappers, ActivationFails(m)
      PROVE  Entries'
  BY <1>3, <1>8 DEF ActivationFails
<1>9. ASSUME NEW up \in SUBSET Mappers, MountSystem(up)
      PROVE  Entries'
  <2>1. pc = "opening"
    BY <1>9 DEF MountSystem
  <2>2. CASE To("ready") /\ UNCHANGED path
    BY <2>1, <2>2 DEF To, Entries, path
  <2>. QED
    BY <1>3, <1>9, <2>1, <2>2 DEF MountSystem
<1>10. CASE FindSentinel
  BY <1>2, <1>10 DEF FindSentinel, EnterRescue, SealFor, Entries
<1>11. CASE Boot \/ Refuse
  BY <1>1, <1>11 DEF Boot, Refuse, SealFor, To
<1>12. CASE SelectionFails
  BY <1>3, <1>12 DEF SelectionFails
<1>13. CASE Cap \/ CapFails
  BY <1>1, <1>13 DEF Cap, CapFails, Snapshot, Abandon, SealFor, To
<1>14. ASSUME NEW m \in Mappers, Close(m) \/ CloseFails(m)
       PROVE  Entries'
  BY <1>1, <1>14 DEF Close, CloseFails, Abandon, SealFor, To
<1>15. CASE Sealed
  <2>1. pc' \notin {"start", "opening", "ready"}
    BY <1>15 DEF Sealed, After, PlacesOK, Goals
  <2>. QED
    BY <1>1, <1>15, <2>1 DEF Sealed
<1>16. CASE ChooseRetry
  BY <1>16 DEF ChooseRetry, OpenVolumes, Entries
<1>17. CASE ChooseShell \/ ChooseReboot \/ LeaveShell
  BY <1>1, <1>17 DEF ChooseShell, ChooseReboot, LeaveShell, OpenMenu, SealFor, To
<1>18. CASE LoadFails
  <2>1. CASE EnterRescue(TRUE) /\ ~resort
    BY <2>1, Entering DEF EnterRescue, SealFor
  <2>. QED
    BY <1>1, <1>18, <2>1 DEF LoadFails, OpenMenu, SealFor
<1>19. CASE LoadModules \/ Dispatch \/ ChildReady \/ ChildEnds
  BY <1>1, <1>19 DEF LoadModules, Dispatch, ChildReady, ChildEnds, SealFor, To
<1>20. CASE WriteSentinel \/ Relock \/ Flush \/ PowerLoss \/ RequestRescue \/ ShutDown
  BY <1>1, <1>20 DEF WriteSentinel, Relock, Flush, PowerLoss, RequestRescue, ShutDown, To
<1>21. CASE Panic
  <2>1. /\ pc' = "capping"
        /\ (entered' = 1 /\ resort' = TRUE) \/ (entered' = 0 /\ resort' = FALSE)
    BY <1>21, Zenon DEF Panic, SealFor
  <2>. QED
    BY <2>1 DEF Entries
<1>22. CASE PowerOn
  BY <1>22 DEF PowerOn, To, Entries
<1>23. CASE UNCHANGED vars
  BY <1>1, <1>23 DEF vars
<1>. QED
  BY <1>4, <1>5, <1>6, <1>7, <1>8, <1>9, <1>10, <1>11, <1>12, <1>13, <1>14, <1>15,
     <1>16, <1>17, <1>18, <1>19, <1>20, <1>21, <1>22, <1>23 DEF Next

-----------------------------------------------------------------------------
(* A request for rescue *)

\* A request that reached the disk is there until a rescue console answers it,
\* and the boot that comes to its decision can read it.
Requested ==
  /\ asked = "requested" => sentinel = "durable"
  /\ pc = "ready" /\ ~lost => Root \in mounts

\* No step but an answer loses a request, and none mounts less before the decision.
LEMMA NextRequested ==
  ASSUME PlacesOK, FlagsOK, Requested, [Next]_vars
  PROVE  Requested'
<1>1. ASSUME UNCHANGED <<sentinel, asked, mounts, lost>>, pc' # "ready" \/ pc' = pc
      PROVE  Requested'
  BY <1>1 DEF Requested
<1>2. CASE Begin \/ EarlyFailure
  BY <1>1, <1>2 DEF Begin, EarlyFailure, OpenVolumes, OpenMenu, EnterRescue, SealFor, path, kernel
<1>3. CASE AskForShell \/ AskForReboot \/ ChildStep
  BY <1>1, <1>3 DEF AskForShell, AskForReboot, ChildStep, SealFor, To, path, kernel
<1>4. ASSUME NEW m \in Mappers, Spawn(m) \/ Register(m) \/ ActivationFails(m)
      PROVE  Requested'
  BY <1>1, <1>4 DEF Spawn, Register, ActivationFails, BootFails, OpenMenu, EnterRescue,
     SealFor, To, path, kernel
<1>5. ASSUME NEW up \in SUBSET Mappers, MountSystem(up)
      PROVE  Requested'
  <2>1. mounts' = mounts \cup up /\ UNCHANGED <<sentinel, asked>>
    BY <1>5 DEF MountSystem
  <2>2. CASE up = Configured
    <3>1. UNCHANGED lost
      BY <1>5, <2>2 DEF MountSystem, path
    <3>. QED
      BY <2>1, <2>2, <3>1, RootAssumption DEF Requested, Configured
  <2>3. CASE up # Configured
    BY <1>5, <2>1, <2>3 DEF MountSystem, BootFails, OpenMenu, EnterRescue, SealFor, To, Requested
  <2>. QED
    BY <2>2, <2>3
<1>6. CASE FindSentinel \/ Boot \/ SelectionFails \/ Refuse
  BY <1>1, <1>6 DEF FindSentinel, Boot, SelectionFails, Refuse, BootFails, OpenMenu,
     EnterRescue, SealFor, To, path, kernel
<1>7. CASE Cap \/ CapFails
  BY <1>1, <1>7 DEF Cap, CapFails, Snapshot, Abandon, SealFor, To, path, kernel
<1>8. ASSUME NEW m \in Mappers, Close(m) \/ CloseFails(m)
      PROVE  Requested'
  BY <1>8 DEF Close, CloseFails, Abandon, SealFor, To, path, Requested
<1>9. CASE Sealed
  <2>1. pc' # "ready"
    BY <1>9 DEF Sealed, After, PlacesOK, Goals
  <2>. QED
    BY <1>9, <2>1 DEF Sealed, Requested
<1>10. CASE ChooseShell \/ ChooseReboot \/ ChooseRetry \/ LeaveShell
  BY <1>1, <1>10 DEF ChooseShell, ChooseReboot, ChooseRetry, LeaveShell, OpenVolumes, OpenMenu,
     SealFor, To, path, kernel
<1>11. CASE LoadModules \/ LoadFails \/ Dispatch \/ ChildEnds
  BY <1>1, <1>11 DEF LoadModules, LoadFails, Dispatch, ChildEnds, EnterRescue, OpenMenu,
     SealFor, To, path, kernel
<1>12. CASE ChildReady \/ WriteSentinel
  BY <1>12 DEF ChildReady, WriteSentinel, FlagsOK, Requested
<1>13. CASE Flush \/ RequestRescue
  BY <1>13 DEF Flush, RequestRescue, To, kernel, path, Requested
<1>14. CASE Relock \/ PowerLoss \/ ShutDown
  BY <1>1, <1>14 DEF Relock, PowerLoss, ShutDown, To, kernel, path
<1>15. CASE Panic \/ PowerOn
  BY <1>15 DEF Panic, PowerOn, SealFor, To, Requested
<1>16. CASE UNCHANGED vars
  BY <1>1, <1>16 DEF vars, kernel, path
<1>. QED
  BY <1>2, <1>3, <1>4, <1>5, <1>6, <1>7, <1>8, <1>9, <1>10, <1>11, <1>12, <1>13, <1>14,
     <1>15, <1>16 DEF Next

\* The only step from the decision to the target is a boot, and the request
\* keeps it away unless the operator asked for it.
LEMMA BootIsRequested ==
  ASSUME PlacesOK, PathOK, Requested, [Next]_vars, asked = "requested",
         pc = "ready", pc' = "booted"
  PROVE  retry
<1>1. ~(FindSentinel \/ SelectionFails \/ Refuse \/ ChooseReboot \/ Panic \/ PowerLoss)
  BY DEF FindSentinel, SelectionFails, Refuse, ChooseReboot, Panic, PowerLoss, BootFails,
     OpenMenu, EnterRescue, SealFor, To
<1>2. ~(ChildStep \/ Flush \/ UNCHANGED vars)
  BY DEF ChildStep, Flush, vars
<1>3. ~(Begin \/ EarlyFailure \/ AskForShell \/ AskForReboot \/ Cap \/ CapFails \/ Sealed)
  BY DEF Begin, EarlyFailure, AskForShell, AskForReboot, Cap, CapFails, Sealed
<1>4. ~(ChooseShell \/ ChooseRetry \/ LeaveShell \/ LoadModules \/ LoadFails \/ Dispatch)
  BY DEF ChooseShell, ChooseRetry, LeaveShell, LoadModules, LoadFails, Dispatch
<1>5. ~(ChildReady \/ ChildEnds \/ WriteSentinel \/ Relock \/ RequestRescue \/ ShutDown \/ PowerOn)
  BY DEF ChildReady, ChildEnds, WriteSentinel, Relock, RequestRescue, ShutDown, PowerOn
<1>6. /\ ~\E m \in Mappers : Spawn(m) \/ Register(m) \/ ActivationFails(m)
      /\ ~\E m \in Mappers : Close(m) \/ CloseFails(m)
      /\ ~\E up \in SUBSET Mappers : MountSystem(up)
  BY DEF Spawn, Register, ActivationFails, Close, CloseFails, MountSystem
<1>7. Boot
  BY <1>1, <1>2, <1>3, <1>4, <1>5, <1>6 DEF Next
<1>. QED
  BY <1>7 DEF Boot, SentinelInReach, Requested

-----------------------------------------------------------------------------
(* Theorems *)

\* The invariant holds in every reachable state.
THEOREM Invariant == Spec => []IInv
<1>1. IInv /\ [Next]_vars => IInv'
  BY NextType, NextKnowledge DEF IInv
<1>. QED
  BY InitInv, <1>1, PTL DEF Spec

\* A process enters rescue at most twice on its own, however often it fails,
\* panics or is retried.
THEOREM RescueEnds == Spec => []RescueBounded
<1>1. Init => Entries
  BY DEF Init, Entries
<1>2. IInv /\ Entries /\ [Next]_vars => Entries'
  BY NextEntries, TypeParts DEF IInv
<1>3. IInv /\ Entries => RescueBounded
  BY TypeParts DEF IInv, PathOK, Entries, RescueBounded
<1>. QED
  BY Invariant, <1>1, <1>2, <1>3, PTL DEF Spec

\* No unattended boot passes by a request for rescue that reached the disk.
THEOREM RequestHonoured == Spec => RequestIsHonoured
<1>1. Init => Requested
  BY DEF Init, Requested
<1>2. IInv /\ Requested /\ [Next]_vars => Requested'
  BY NextRequested, TypeParts DEF IInv
<1>3. IInv /\ Requested /\ [Next]_vars
      => [asked = "requested" /\ pc = "ready" /\ pc' = "booted" => retry]_vars
  BY BootIsRequested, TypeParts DEF IInv
<1>. QED
  BY Invariant, <1>1, <1>2, <1>3, PTL DEF Spec, RequestIsHonoured

\* The state stays well typed, whatever fails.
THEOREM TypeCorrect == Spec => []TypeOK
<1>1. IInv => TypeOK
  BY DEF IInv
<1>. QED
  BY Invariant, <1>1, PTL

\* No menu, shell or rescue console is reached before the lock register is
\* capped, on any path, for any number of volumes and panics.
THEOREM CappedBeforeOperator == Spec => []InteractiveIsCapped
<1>1. IInv => InteractiveIsCapped
  BY DEF IInv, Knowledge, SealedInv, BehindSeal, Capped, InteractiveIsCapped, Interactive
<1>. QED
  BY Invariant, <1>1, PTL

\* Beside a menu, shell or rescue console no TPM-unsealed volume is open but
\* those whose record a panic destroyed.
THEOREM ClosedBeforeOperator == Spec => []InteractiveHasNoMapper
<1>1. IInv => InteractiveHasNoMapper
  BY DEF IInv, Knowledge, SealedInv, BehindSeal, InteractiveHasNoMapper, Interactive
<1>. QED
  BY Invariant, <1>1, PTL

=============================================================================
