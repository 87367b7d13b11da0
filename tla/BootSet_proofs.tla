--------------------------- MODULE BootSet_proofs ---------------------------
(***************************************************************************)
(* Proofs about BootSet, for every set of bundles, any number of boot      *)
(* roots and any capacity: the selected slot always holds one complete     *)
(* bundle, across every failure, if the boot file systems keep the order   *)
(* of changes or the service cannot fail while it syncs the selector. Then *)
(* an installation has room, if the estimate of the check leaves some or   *)
(* there is room for three sets; an acknowledgement holds if               *)
(* the service cannot fail there and the spool does not change. BootSet    *)
(* implements BootSetRegister under the same assumption.                   *)
(***************************************************************************)
EXTENDS BootSet, FiniteSetTheorems, TLAPS

Reliable == Journaled \/ ~LateFailure

\* A selector s that names a slot names one with a complete bundle for it.
Complete(d, s) ==
  s # NONE => \E b \in Bundles : Slot[b] = s /\ d[s] = Full(b)

\* No power failure can change the contents of slot s.
Durable(r, s) == s # NONE => kept[r][s] = dir[r][s]

Sound ==
  \A r \in Roots :
    /\ Complete(dir[r], sel[r])
    /\ Complete(kept[r], ksel[r])
    /\ Durable(r, sel[r])
    /\ ~Journaled => Durable(r, ksel[r])
    /\ ~Journaled /\ ksel[r] # sel[r] => phase = "syncsel" /\ r = at

Installing == phase \notin {"idle", "check"}

\* The staged members are different ones, of the right bundle or spoilt.
Staged ==
  /\ \A m \in dir[at]["new"] :
       /\ m[2] \in 1..Size[set]
       /\ m[1] \in {set, NONE}
       /\ m[2] = 1 => m[1] = set
  /\ \A m, n \in dir[at]["new"] : m[2] = n[2] => m = n

\* How far the installation got.
Progress ==
  /\ Installing => set \in Bundles
  /\ Installing /\ phase # "syncsel" => Slot[set] = Inactive
  /\ phase \in {"stage", "syncstage", "verify"} => Staged
  /\ phase = "verify" => kept[at]["new"] = dir[at]["new"]
  /\ phase \in {"drop", "publish"} =>
       dir[at]["new"] = Full(set) /\ kept[at]["new"] = Full(set)
  /\ phase = "syncroot" =>
       dir[at][Inactive] = Full(set) /\ kept[at]["new"] = Full(set)
  /\ phase = "select" =>
       dir[at][Inactive] = Full(set) /\ kept[at][Inactive] = Full(set)

\* The inductive invariant.
IInv == TypeOK /\ Sound /\ Progress

-----------------------------------------------------------------------------
LEMMA OtherSlot ==
  ASSUME NEW s
  PROVE  Other(s) \in Slots /\ Other(s) # s /\ Other(s) # NONE /\ Other(s) # "new"
  BY BundleAssumption DEF Other, Slots

LEMMA FullType ==
  ASSUME NEW b \in Bundles
  PROVE  Full(b) \in SUBSET Member /\ <<b, 1>> \in Full(b)
  BY BundleAssumption DEF Full, Member

\* A staging slot that verifies holds exactly the bundle that was staged.
LEMMA VerifiedIsFull ==
  ASSUME IInv, phase = "verify", NEW b \in Bundles, Valid(dir[at]["new"], b)
  PROVE  dir[at]["new"] = Full(set)
<1>1. Staged /\ set \in Bundles
  BY DEF IInv, Progress, Installing
<1>2. b = set
  BY <1>1, FullType, BundleAssumption DEF Valid, Staged
<1>3. Full(set) \subseteq dir[at]["new"]
  BY <1>2 DEF Valid
<1>4. ASSUME NEW m \in dir[at]["new"] PROVE m \in Full(set)
  <2>1. <<set, m[2]>> \in Full(set)
    BY <1>1 DEF Full, Staged
  <2>2. <<set, m[2]>> \in dir[at]["new"] /\ <<set, m[2]>>[2] = m[2]
    BY <2>1, <1>3
  <2> QED
    BY <2>1, <2>2, <1>1 DEF Staged
<1> QED
  BY <1>3, <1>4

THEOREM InitInv == Init => IInv
<1> SUFFICES ASSUME Init PROVE IInv
  OBVIOUS
<1>1. TypeOK
  BY RootsAssumption DEF Init, TypeOK, Roots, Dirs, Slots, Phases
<1>2. Sound
  BY DEF Init, Sound, Complete, Durable
<1>3. Progress
  BY DEF Init, Progress, Installing
<1> QED
  BY <1>1, <1>2, <1>3 DEF IInv

-----------------------------------------------------------------------------
(* Steps that leave the disk alone *)

LEMMA OutsideInv ==
  ASSUME IInv, (\E b \in Bundles \cup {NONE} : Spool(b)) \/ (\E k \in Keys : Rekey(k))
               \/ Request
  PROVE  IInv'
<1> USE DEF IInv, store
<1>1. CASE \E b \in Bundles \cup {NONE} : Spool(b)
  BY <1>1 DEF Spool, TypeOK, Sound, Complete, Durable, Progress, Installing, Staged, Inactive
<1>2. CASE \E k \in Keys : Rekey(k)
  BY <1>2 DEF Rekey, TypeOK, Sound, Complete, Durable, Progress, Installing, Staged, Inactive
<1>3. CASE Request
  <2>1. TypeOK'
    BY <1>3, RootsAssumption DEF Request, TypeOK, Phases, Roots
  <2>2. Sound'
    BY <1>3 DEF Request, Sound, Complete, Durable
  <2>3. Progress'
    BY <1>3 DEF Request, Progress, Installing
  <2> QED
    BY <2>1, <2>2, <2>3
<1> QED
  BY <1>1, <1>2, <1>3

LEMMA NextRootType ==
  ASSUME TypeOK, NextRoot
  PROVE  at' \in Roots /\ phase' \in {"idle", "check"} /\ answer' \in {"none", "ok", "error"}
  BY DEF TypeOK, NextRoot, Reply

\* A step that changes neither the disk nor what is staged keeps the disk sound
\* if it does not leave the synchronisation of the selector.
LEMMA DiskUntouched ==
  ASSUME IInv, UNCHANGED store, phase # "syncsel"
  PROVE  Sound'
  BY DEF IInv, Sound, Complete, Durable, store

LEMMA CheckInv ==
  ASSUME IInv, Check
  PROVE  IInv'
<1>1. UNCHANGED store /\ phase = "check"
  BY DEF Check
<1>2. Sound'
  BY <1>1, DiskUntouched
<1>3. CASE phase' \in {"idle", "check"}
  <2>1. TypeOK'
    <3>1. at' \in Roots /\ answer' \in {"none", "ok", "error"}
      BY <1>3, NextRootType DEF Check, IInv, TypeOK, Reply, Goto
    <3>2. set' \in Bundles \cup {NONE} /\ UNCHANGED <<spool, trust>>
      BY DEF Check, IInv, TypeOK
    <3> QED
      BY <1>1, <1>3, <3>1, <3>2 DEF IInv, TypeOK, Phases, store
  <2>2. Progress'
    BY <1>3 DEF Progress, Installing
  <2> QED
    BY <1>2, <2>1, <2>2 DEF IInv
<1>4. CASE phase' \notin {"idle", "check"}
  <2>1. /\ set' = spool /\ spool # NONE /\ Slot[spool] = Inactive
        /\ phase' = "space" /\ UNCHANGED <<at, answer, trust, spool>>
    BY <1>4, NextRootType DEF Check, Reply, Goto, IInv
  <2>2. TypeOK'
    BY <1>1, <2>1 DEF IInv, TypeOK, Phases, store
  <2>3. Progress'
    BY <1>1, <2>1 DEF IInv, TypeOK, Progress, Installing, Inactive, store
  <2> QED
    BY <1>2, <2>2, <2>3 DEF IInv
<1> QED
  BY <1>3, <1>4

LEMMA PreflightInv ==
  ASSUME IInv, Preflight
  PROVE  IInv'
<1>1. UNCHANGED <<store, spool, trust, set, at>> /\ phase = "space"
      /\ phase' \in {"clear", "reclaim", "idle"} /\ answer' \in {answer, "error"}
  BY DEF Preflight, Goto, Reply
<1>2. Sound'
  BY <1>1, DiskUntouched
<1>3. TypeOK'
  BY <1>1 DEF IInv, TypeOK, Phases, store
<1>4. Progress'
  BY <1>1 DEF IInv, Progress, Installing, Inactive, store
<1> QED
  BY <1>2, <1>3, <1>4 DEF IInv

LEMMA VerifyInv ==
  ASSUME IInv, Verify
  PROVE  IInv'
<1>1. UNCHANGED <<store, spool, trust, set, at>> /\ phase = "verify"
      /\ phase' \in {"drop", "idle"} /\ answer' \in {answer, "error"}
  BY DEF Verify, Goto, Reply
<1>2. Sound'
  BY <1>1, DiskUntouched
<1>3. TypeOK'
  BY <1>1 DEF IInv, TypeOK, Phases, store
<1>4. CASE phase' = "idle"
  BY <1>2, <1>3, <1>4 DEF IInv, Progress, Installing
<1>5. CASE phase' = "drop"
  <2>1. PICK b \in Bundles : Valid(dir[at]["new"], b)
    BY <1>5 DEF Verify, Reply
  <2>2. dir[at]["new"] = Full(set)
    BY <1>1, <2>1, VerifiedIsFull
  <2>3. Progress'
    BY <1>1, <1>5, <2>2 DEF IInv, Progress, Installing, Inactive, Full, store
  <2> QED
    BY <1>2, <1>3, <2>3 DEF IInv
<1> QED
  BY <1>1, <1>4, <1>5

-----------------------------------------------------------------------------
(* Steps that change directories *)

LEMMA SelType ==
  ASSUME IInv
  PROVE  /\ at \in Roots
         /\ Inactive \in Slots /\ Inactive \in Dirs /\ Inactive # sel[at]
         /\ "new" \in Dirs /\ "new" # Inactive
         /\ sel[at] # NONE => sel[at] \in Slots /\ sel[at] # "new"
<1>1. at \in Roots /\ sel[at] \in Slots \cup {NONE}
  BY DEF IInv, TypeOK
<1>2. Inactive \in Slots /\ Inactive # sel[at]
  BY OtherSlot DEF Inactive
<1> QED
  BY <1>1, <1>2 DEF Slots, Dirs

\* What is written to the slots that are not selected does not matter.
LEMMA UnselectedWrite ==
  ASSUME IInv, phase # "syncsel", NEW d \in {"new", Inactive}, NEW c,
         dir' = Put(d, c), UNCHANGED <<sel, kept, ksel>>
  PROVE  Sound'
<1> SUFFICES ASSUME NEW r \in Roots
    PROVE /\ Complete(dir'[r], sel[r])
          /\ Complete(kept[r], ksel[r])
          /\ sel[r] # NONE => kept[r][sel[r]] = dir'[r][sel[r]]
          /\ ~Journaled => ksel[r] = sel[r]
  BY DEF Sound, Complete, Durable
<1>1. sel[r] # NONE => dir'[r][sel[r]] = dir[r][sel[r]]
  BY SelType DEF IInv, TypeOK, Put
<1>2. /\ Complete(dir[r], sel[r]) /\ Complete(kept[r], ksel[r]) /\ Durable(r, sel[r])
      /\ ~Journaled => ksel[r] = sel[r]
  BY DEF IInv, Sound
<1> QED
  BY <1>1, <1>2 DEF Complete, Durable

LEMMA EmptyType ==
  ASSUME IInv, NEW p \in Phases, NEW q \in Phases, NEW d \in {"new", Inactive}, Empty(p, d, q)
  PROVE  /\ TypeOK'
         /\ UNCHANGED <<sel, kept, ksel, spool, trust, set, at, answer>>
         /\ phase = p /\ phase' \in {p, q}
         /\ phase' = q /\ q # p => dir[at][d] = {} /\ UNCHANGED dir
         /\ \E c : dir' = Put(d, c)
<1>1. /\ UNCHANGED <<sel, kept, ksel, spool, trust, set, at, answer>>
      /\ phase = p /\ phase' \in {p, q}
      /\ phase' = q /\ q # p => dir[at][d] = {} /\ UNCHANGED dir
  BY DEF Empty, Goto
<1>2. \E c \in SUBSET dir[at][d] : dir' = Put(d, c)
  <2>1. CASE dir[at][d] = {}
    <3>1. dir' = dir
      BY <2>1 DEF Empty
    <3>2. at \in Roots /\ d \in Dirs /\ dir \in [Roots -> [Dirs -> SUBSET Member]]
      BY SelType DEF IInv, TypeOK
    <3>3. dir[at] = [dir[at] EXCEPT ![d] = {}]
      BY <2>1, <3>2
    <3>4. dir = [dir EXCEPT ![at] = [dir[at] EXCEPT ![d] = {}]]
      BY <3>2, <3>3
    <3> QED
      BY <3>1, <3>4 DEF Put
  <2>2. CASE dir[at][d] # {}
    BY <2>2 DEF Empty
  <2> QED
    BY <2>1, <2>2
<1>3. TypeOK'
  BY <1>1, <1>2, SelType DEF IInv, TypeOK, Put
<1> QED
  BY <1>1, <1>2, <1>3

LEMMA ReclaimInv ==
  ASSUME IInv, Reclaim
  PROVE  IInv'
<1>1. /\ TypeOK'
      /\ UNCHANGED <<sel, kept, ksel, spool, trust, set, at, answer>>
      /\ phase = "reclaim" /\ phase' \in {"reclaim", "clear"}
      /\ \E c : dir' = Put(Inactive, c)
  BY EmptyType, SelType DEF Reclaim, Phases
<1>2. Sound'
  BY <1>1, UnselectedWrite
<1>3. Progress'
  BY <1>1 DEF IInv, Progress, Installing, Inactive
<1> QED
  BY <1>1, <1>2, <1>3 DEF IInv

LEMMA ClearStageInv ==
  ASSUME IInv, ClearStage
  PROVE  IInv'
<1>1. /\ TypeOK'
      /\ UNCHANGED <<sel, kept, ksel, spool, trust, set, at, answer>>
      /\ phase = "clear" /\ phase' \in {"clear", "stage"}
      /\ phase' = "stage" => dir[at]["new"] = {} /\ UNCHANGED dir
      /\ \E c : dir' = Put("new", c)
  BY EmptyType, SelType DEF ClearStage, Phases
<1>2. Sound'
  BY <1>1, UnselectedWrite
<1>3. Progress'
  BY <1>1 DEF IInv, Progress, Installing, Inactive, Staged
<1> QED
  BY <1>1, <1>2, <1>3 DEF IInv

LEMMA DropInv ==
  ASSUME IInv, Drop
  PROVE  IInv'
<1>1. /\ TypeOK'
      /\ UNCHANGED <<sel, kept, ksel, spool, trust, set, at, answer>>
      /\ phase = "drop" /\ phase' \in {"drop", "publish"}
      /\ \E c : dir' = Put(Inactive, c)
  BY EmptyType, SelType DEF Drop, Phases
<1>2. Sound'
  BY <1>1, UnselectedWrite
<1>3. dir'[at]["new"] = dir[at]["new"]
  BY <1>1, SelType DEF IInv, TypeOK, Put
<1>4. Progress'
  BY <1>1, <1>3 DEF IInv, Progress, Installing, Inactive, Full
<1> QED
  BY <1>1, <1>2, <1>4 DEF IInv

LEMMA StageMemberInv ==
  ASSUME IInv, StageMember
  PROVE  IInv'
<1>1. /\ UNCHANGED <<sel, kept, ksel, spool, trust, set, at, answer>>
      /\ phase = "stage" /\ phase' \in {"stage", "syncstage"}
  BY DEF StageMember, Goto
<1>2. Staged /\ set \in Bundles /\ Size[set] \in Nat
  BY <1>1, BundleAssumption DEF IInv, Progress, Installing
<1>3. \/ UNCHANGED dir
      \/ \E i \in 1..Size[set], b \in {set, NONE} :
           /\ \A m \in dir[at]["new"] : m[2] # i
           /\ b = NONE => i > 1
           /\ dir' = Put("new", dir[at]["new"] \cup {<<b, i>>})
  BY DEF StageMember, Missing
<1>4. CASE UNCHANGED dir
  <2>1. TypeOK' /\ Progress'
    BY <1>1, <1>4 DEF IInv, TypeOK, Phases, Progress, Installing, Inactive, Staged
  <2>2. Sound'
    BY <1>1, <1>4, DiskUntouched DEF store
  <2> QED
    BY <2>1, <2>2 DEF IInv
<1>5. ASSUME NEW i \in 1..Size[set], NEW b \in {set, NONE},
             \A m \in dir[at]["new"] : m[2] # i, b = NONE => i > 1,
             dir' = Put("new", dir[at]["new"] \cup {<<b, i>>})
      PROVE IInv'
  <2>1. <<b, i>> \in Member
    BY <1>2, BundleAssumption DEF Member
  <2>2. dir'[at]["new"] = dir[at]["new"] \cup {<<b, i>>}
    BY <1>5, SelType DEF IInv, TypeOK, Put
  <2>3. TypeOK'
    BY <1>1, <1>5, <2>1, SelType DEF IInv, TypeOK, Phases, Put
  <2>4. Sound'
    BY <1>1, <1>5, UnselectedWrite
  <2>5. Staged'
    <3>1. \A m \in dir'[at]["new"] : m \in dir[at]["new"] \/ m = <<b, i>>
      BY <2>2
    <3>2. <<b, i>>[1] = b /\ <<b, i>>[2] = i
      OBVIOUS
    <3>3. \A m \in dir'[at]["new"] :
            /\ m[2] \in 1..Size[set] /\ m[1] \in {set, NONE}
            /\ m[2] = 1 => m[1] = set
      <4>1. i \in Nat /\ (i = 1 => b = set)
        BY <1>2, <1>5
      <4>2. \A m \in dir[at]["new"] :
              /\ m[2] \in 1..Size[set] /\ m[1] \in {set, NONE}
              /\ m[2] = 1 => m[1] = set
        BY <1>2 DEF Staged
      <4> QED
        BY <3>1, <3>2, <4>1, <4>2, Zenon
    <3>4. \A m, n \in dir'[at]["new"] : m[2] = n[2] => m = n
      BY <1>2, <1>5, <3>1, <3>2 DEF Staged
    <3> QED
      BY <1>1, <3>3, <3>4 DEF Staged
  <2>6. Progress'
    BY <1>1, <2>5 DEF IInv, Progress, Installing, Inactive
  <2> QED
    BY <2>3, <2>4, <2>6 DEF IInv
<1> QED
  BY <1>3, <1>4, <1>5

-----------------------------------------------------------------------------
(* Steps that sync, publish and select *)

LEMMA SyncStageInv ==
  ASSUME IInv, SyncStage
  PROVE  IInv'
<1>1. /\ UNCHANGED <<dir, sel, ksel, spool, trust, set, at, answer>>
      /\ phase = "syncstage" /\ phase' = "verify"
      /\ kept' = [kept EXCEPT ![at]["new"] = dir[at]["new"]]
  BY DEF SyncStage, Goto
<1>2. TypeOK'
  BY <1>1, SelType DEF IInv, TypeOK, Phases
<1>3. \A r \in Roots, s \in Slots : kept'[r][s] = kept[r][s]
  BY <1>1, SelType DEF IInv, TypeOK, Slots, Dirs
<1>4. kept'[at]["new"] = dir[at]["new"]
  BY <1>1, SelType DEF IInv, TypeOK
<1>5. Sound'
  BY <1>1, <1>3 DEF IInv, TypeOK, Sound, Complete, Durable
<1>6. Progress'
  BY <1>1, <1>4 DEF IInv, Progress, Installing, Inactive, Staged
<1> QED
  BY <1>2, <1>5, <1>6 DEF IInv

LEMMA PublishInv ==
  ASSUME IInv, Publish
  PROVE  IInv'
<1>1. /\ UNCHANGED <<sel, kept, ksel, spool, trust, set, at, answer>>
      /\ phase = "publish" /\ phase' = "syncroot"
      /\ dir' = [dir EXCEPT ![at][Inactive] = dir[at]["new"], ![at]["new"] = {}]
  BY DEF Publish, Goto
<1>2. /\ dir' \in [Roots -> [Dirs -> SUBSET Member]]
      /\ \A r \in Roots \ {at} : dir'[r] = dir[r]
      /\ dir'[at][Inactive] = dir[at]["new"]
      /\ \A s \in Slots \ {Inactive} : dir'[at][s] = dir[at][s]
  <2> DEFINE row == [dir[at] EXCEPT ![Inactive] = dir[at]["new"], !["new"] = {}]
  <2>1. at \in Roots /\ dir \in [Roots -> [Dirs -> SUBSET Member]]
        /\ Inactive \in Dirs /\ Inactive # "new" /\ "new" \in Dirs
        /\ Slots \subseteq Dirs /\ "new" \notin Slots
    BY SelType DEF IInv, TypeOK, Dirs, Slots
  <2>2. dir[at] \in [Dirs -> SUBSET Member] /\ dir[at]["new"] \in SUBSET Member
    BY <2>1
  <2>3. row \in [Dirs -> SUBSET Member]
    BY <2>2
  <2>4. row[Inactive] = dir[at]["new"] /\ \A s \in Slots \ {Inactive} : row[s] = dir[at][s]
    BY <2>1, <2>2
  <2>5. dir' = [dir EXCEPT ![at] = row]
    BY <1>1, <2>1
  <2> HIDE DEF row
  <2> QED
    BY <2>1, <2>3, <2>4, <2>5
<1>3. TypeOK'
  BY <1>1, <1>2 DEF IInv, TypeOK, Phases
<1>4. ASSUME NEW r \in Roots, NEW s \in Slots, r = at => s = sel[at]
      PROVE  dir'[r][s] = dir[r][s]
  BY <1>2, <1>4, SelType
<1>5. ASSUME NEW r \in Roots
      PROVE  /\ Complete(dir'[r], sel[r])
             /\ Complete(kept[r], ksel[r])
             /\ Durable(r, sel[r])'
             /\ ~Journaled => ksel[r] = sel[r]
  <2>1. /\ Complete(dir[r], sel[r]) /\ Complete(kept[r], ksel[r]) /\ Durable(r, sel[r])
        /\ ~Journaled => ksel[r] = sel[r]
    BY <1>1 DEF IInv, Sound
  <2>2. sel[r] # NONE => dir'[r][sel[r]] = dir[r][sel[r]]
    BY <1>4 DEF IInv, TypeOK
  <2> QED
    BY <1>1, <2>1, <2>2 DEF Complete, Durable
<1>6. Sound'
  <2> SUFFICES ASSUME NEW r \in Roots
      PROVE  /\ Complete(dir'[r], sel'[r])
             /\ Complete(kept'[r], ksel'[r])
             /\ Durable(r, sel[r])'
             /\ ~Journaled => Durable(r, ksel[r])' /\ ksel'[r] = sel'[r]
    BY DEF Sound, Complete, Durable
  <2> QED
    BY <1>1, <1>5
<1>7. Progress'
  BY <1>1, <1>2 DEF IInv, Progress, Installing, Inactive, Full
<1> QED
  BY <1>3, <1>6, <1>7 DEF IInv

LEMMA SyncRootInv ==
  ASSUME IInv, SyncRoot
  PROVE  IInv'
<1>1. /\ UNCHANGED <<dir, sel, spool, trust, set, at, answer>>
      /\ phase = "syncroot" /\ phase' = "select"
      /\ ksel' = [ksel EXCEPT ![at] = sel[at]]
  BY DEF SyncRoot, Goto
<1>2. /\ kept' \in [Roots -> [Dirs -> SUBSET Member]]
      /\ \A r \in Roots \ {at} : kept'[r] = kept[r]
      /\ kept'[at][Inactive] = kept[at]["new"]
      /\ \A d \in Dirs \ {Inactive} : kept'[at][d] = dir[at][d]
  BY SelType DEF SyncRoot, IInv, TypeOK
<1>3. TypeOK'
  BY <1>1, <1>2, SelType DEF IInv, TypeOK, Phases
<1>4. sel[at] # NONE => kept'[at][sel[at]] = dir[at][sel[at]]
  BY <1>2, SelType DEF Slots, Dirs
<1>5. ASSUME NEW r \in Roots
      PROVE  /\ Complete(dir[r], sel[r])
             /\ Complete(kept'[r], ksel'[r])
             /\ sel[r] # NONE => kept'[r][sel[r]] = dir[r][sel[r]]
             /\ ~Journaled => ksel'[r] = sel[r]
  <2>1. CASE r = at
    BY <1>1, <1>4, <2>1 DEF IInv, TypeOK, Sound, Complete
  <2>2. CASE r # at
    <3>1. kept'[r] = kept[r] /\ ksel'[r] = ksel[r]
      BY <1>1, <1>2, <2>2 DEF IInv, TypeOK
    <3> QED
      BY <1>1, <2>2, <3>1 DEF IInv, Sound, Complete, Durable
  <2> QED
    BY <2>1, <2>2
<1>6. Sound'
  BY <1>1, <1>5 DEF Sound, Complete, Durable
<1>7. Progress'
  BY <1>1, <1>2 DEF IInv, Progress, Installing, Inactive, Full
<1> QED
  BY <1>3, <1>6, <1>7 DEF IInv

LEMMA SelectInv ==
  ASSUME IInv, Select
  PROVE  IInv'
<1>1. /\ UNCHANGED <<dir, kept, ksel, spool, trust, set, at, answer>>
      /\ phase = "select" /\ phase' = "syncsel"
      /\ sel' = [sel EXCEPT ![at] = Inactive]
  BY DEF Select, Goto
<1>2. TypeOK'
  BY <1>1, SelType DEF IInv, TypeOK, Phases
<1>3. /\ set \in Bundles /\ Slot[set] = Inactive
      /\ dir[at][Inactive] = Full(set) /\ kept[at][Inactive] = Full(set)
  BY <1>1 DEF IInv, Progress, Installing
<1>4. ASSUME NEW r \in Roots
      PROVE  /\ Complete(dir[r], sel'[r])
             /\ Complete(kept[r], ksel[r])
             /\ sel'[r] # NONE => kept[r][sel'[r]] = dir[r][sel'[r]]
             /\ ~Journaled => (ksel[r] # NONE => kept[r][ksel[r]] = dir[r][ksel[r]])
             /\ ~Journaled /\ ksel[r] # sel'[r] => r = at
  <2>1. CASE r = at
    BY <1>1, <1>3, <2>1 DEF IInv, TypeOK, Sound, Complete, Durable
  <2>2. CASE r # at
    BY <1>1, <2>2 DEF IInv, TypeOK, Sound, Complete, Durable
  <2> QED
    BY <2>1, <2>2
<1>5. Sound'
  BY <1>1, <1>4 DEF Sound, Complete, Durable
<1>6. Progress'
  BY <1>1, <1>3 DEF Progress, Installing
<1> QED
  BY <1>2, <1>5, <1>6 DEF IInv

LEMMA SyncSelectorInv ==
  ASSUME IInv, SyncSelector
  PROVE  IInv'
<1>1. /\ UNCHANGED <<dir, kept, sel, spool, trust, set>>
      /\ phase = "syncsel" /\ NextRoot
      /\ ksel' = [ksel EXCEPT ![at] = sel[at]]
  BY DEF SyncSelector
<1>2. at' \in Roots /\ phase' \in {"idle", "check"} /\ answer' \in {"none", "ok", "error"}
  BY <1>1, NextRootType DEF IInv
<1>3. TypeOK'
  BY <1>1, <1>2, SelType DEF IInv, TypeOK, Phases
<1>4. ASSUME NEW r \in Roots
      PROVE  /\ Complete(dir[r], sel[r])
             /\ Complete(kept[r], ksel'[r])
             /\ sel[r] # NONE => kept[r][sel[r]] = dir[r][sel[r]]
             /\ ~Journaled => ksel'[r] = sel[r]
  <2>1. CASE r = at
    BY <1>1, <2>1 DEF IInv, TypeOK, Sound, Complete, Durable
  <2>2. CASE r # at
    BY <1>1, <2>2 DEF IInv, TypeOK, Sound, Complete, Durable
  <2> QED
    BY <2>1, <2>2
<1>5. Sound'
  BY <1>1, <1>4 DEF Sound, Complete, Durable
<1>6. Progress'
  BY <1>2 DEF Progress, Installing
<1> QED
  BY <1>3, <1>5, <1>6 DEF IInv
-----------------------------------------------------------------------------
(* Failures *)

LEMMA FailInv ==
  ASSUME IInv, Reliable, Fail
  PROVE  IInv'
<1>1. /\ UNCHANGED <<sel, kept, ksel, spool, trust, set, at>>
      /\ phase' = "idle" /\ answer' = "error"
      /\ phase = "syncsel" => Journaled
  BY SwitchAssumption DEF Fail, Failing, Reply, Reliable
<1>2. Progress'
  BY <1>1 DEF Progress, Installing
<1>3. ASSUME NEW r \in Roots
      PROVE  ~Journaled => ksel[r] = sel[r]
  BY <1>1 DEF IInv, Sound
<1>4. CASE phase = "stage"
  <2>1. dir' = Put("new", {})
    BY <1>4 DEF Fail
  <2>2. Sound'
    BY <1>1, <1>4, <2>1, UnselectedWrite
  <2>3. TypeOK'
    BY <1>1, <2>1, SelType DEF IInv, TypeOK, Phases, Put
  <2> QED
    BY <1>2, <2>2, <2>3 DEF IInv
<1>5. CASE phase # "stage"
  <2>1. UNCHANGED dir
    BY <1>5 DEF Fail
  <2>2. Sound'
    BY <1>1, <1>3, <2>1 DEF IInv, Sound, Complete, Durable
  <2>3. TypeOK'
    BY <1>1, <2>1 DEF IInv, TypeOK, Phases
  <2> QED
    BY <1>2, <2>2, <2>3 DEF IInv
<1> QED
  BY <1>4, <1>5

LEMMA KillInv ==
  ASSUME IInv, Reliable, Kill
  PROVE  IInv'
<1>1. /\ UNCHANGED <<dir, sel, kept, ksel, spool, trust, set, at>>
      /\ phase' = "idle" /\ answer' = "none"
      /\ phase = "syncsel" => Journaled
  BY SwitchAssumption DEF Kill, Failing, Reliable, store
<1>2. Progress'
  BY <1>1 DEF Progress, Installing
<1>3. ASSUME NEW r \in Roots
      PROVE  ~Journaled => ksel[r] = sel[r]
  BY <1>1 DEF IInv, Sound
<1>4. Sound'
  BY <1>1, <1>3 DEF IInv, Sound, Complete, Durable
<1>5. TypeOK'
  BY <1>1 DEF IInv, TypeOK, Phases
<1> QED
  BY <1>2, <1>4, <1>5 DEF IInv

\* A power failure cannot touch what was durable.
LEMMA AfterSame ==
  ASSUME NEW k, NEW c \in After(k, k)
  PROVE  c = k
  BY DEF After

\* One boot root after a power failure.
LEMMA OutcomeSound ==
  ASSUME IInv, NEW r \in Roots, NEW o \in Outcomes(r)
  PROVE  /\ o.sel \in Slots \cup {NONE}
         /\ o.dir \in [Dirs -> SUBSET Member]
         /\ Complete(o.dir, o.sel)
<1>1. /\ dir[r] \in [Dirs -> SUBSET Member] /\ kept[r] \in [Dirs -> SUBSET Member]
      /\ sel[r] \in Slots \cup {NONE} /\ ksel[r] \in Slots \cup {NONE}
  BY DEF IInv, TypeOK
<1>2. PICK a \in After(kept[r]["A"], dir[r]["A"]),
           b \in After(kept[r]["B"], dir[r]["B"]),
           n \in After(kept[r]["new"], dir[r]["new"]) :
        o.dir = [A |-> a, B |-> b, new |-> n]
  BY DEF Outcomes
<1>3. /\ o.sel \in {sel[r], ksel[r]}
      /\ Journaled /\ o.sel # sel[r] => o.dir = kept[r]
  BY DEF Outcomes
<1>4. o.dir \in [Dirs -> SUBSET Member]
  <2>1. a \in SUBSET Member /\ b \in SUBSET Member /\ n \in SUBSET Member
    BY <1>1 DEF After, Dirs
  <2> QED
    BY <1>2, <2>1 DEF Dirs
<1>5. ASSUME NEW s \in Slots, kept[r][s] = dir[r][s]
      PROVE  o.dir[s] = dir[r][s]
  <2>1. CASE s = "A"
    BY <1>2, <1>5, <2>1, AfterSame
  <2>2. CASE s = "B"
    BY <1>2, <1>5, <2>2, AfterSame
  <2> QED
    BY <2>1, <2>2 DEF Slots
<1>6. /\ Complete(dir[r], sel[r]) /\ Complete(kept[r], ksel[r])
      /\ Durable(r, sel[r])
      /\ ~Journaled => Durable(r, ksel[r])
  BY DEF IInv, Sound
<1>7. Complete(o.dir, o.sel)
  <2>1. CASE o.sel = sel[r]
    BY <1>1, <1>5, <1>6, <2>1 DEF Complete, Durable
  <2>2. CASE o.sel = ksel[r] /\ Journaled /\ o.sel # sel[r]
    BY <1>3, <1>6, <2>2 DEF Complete
  <2>3. CASE o.sel = ksel[r] /\ ~Journaled
    BY <1>1, <1>5, <1>6, <2>3 DEF Complete, Durable
  <2> QED
    BY <1>3, <2>1, <2>2, <2>3, SwitchAssumption
<1> QED
  BY <1>1, <1>3, <1>4, <1>7

LEMMA PowerLossInv ==
  ASSUME IInv, PowerLoss
  PROVE  IInv'
<1>1. PICK o : /\ \A r \in Roots : o[r] \in Outcomes(r)
               /\ sel' = [r \in Roots |-> o[r].sel]
               /\ dir' = [r \in Roots |-> o[r].dir]
  BY DEF PowerLoss
<1>2. /\ ksel' = sel' /\ kept' = dir' /\ phase' = "idle"
      /\ UNCHANGED <<spool, trust, at, set>>
      /\ answer' \in {"none", "ok", "error"}
  BY DEF PowerLoss, IInv, TypeOK
<1>3. ASSUME NEW r \in Roots
      PROVE  /\ sel'[r] \in Slots \cup {NONE}
             /\ dir'[r] \in [Dirs -> SUBSET Member]
             /\ Complete(dir'[r], sel'[r])
  BY <1>1, OutcomeSound
<1>4. /\ sel' \in [Roots -> Slots \cup {NONE}]
      /\ dir' \in [Roots -> [Dirs -> SUBSET Member]]
  BY <1>1, <1>3
<1>5. TypeOK'
  BY <1>2, <1>4 DEF IInv, TypeOK, Phases
<1>6. Sound'
  BY <1>2, <1>3 DEF Sound, Complete, Durable
<1>7. Progress'
  BY <1>2 DEF Progress, Installing
<1> QED
  BY <1>5, <1>6, <1>7 DEF IInv

-----------------------------------------------------------------------------
LEMMA NextInv ==
  ASSUME Reliable, IInv, [Next]_vars
  PROVE  IInv'
<1>1. CASE UNCHANGED vars
  BY <1>1 DEF vars, store, IInv, TypeOK, Sound, Complete, Durable, Progress, Installing,
              Staged, Inactive
<1>2. CASE Step
  BY <1>2, CheckInv, PreflightInv, ReclaimInv, ClearStageInv, StageMemberInv,
     SyncStageInv, VerifyInv, DropInv, PublishInv, SyncRootInv, SelectInv,
     SyncSelectorInv DEF Step
<1>3. CASE Fail
  BY <1>3, FailInv
<1>4. CASE Kill
  BY <1>4, KillInv
<1>5. CASE PowerLoss
  BY <1>5, PowerLossInv
<1>6. CASE (\E b \in Bundles \cup {NONE} : Spool(b)) \/ (\E k \in Keys : Rekey(k)) \/ Request
  BY <1>6, OutsideInv
<1> QED
  BY <1>1, <1>2, <1>3, <1>4, <1>5, <1>6 DEF Next

THEOREM Inductive == ASSUME Reliable PROVE Spec => []IInv
<1>1. IInv /\ [Next]_vars => IInv'
  BY NextInv
<1> QED
  BY <1>1, InitInv, PTL DEF Spec

\* The state keeps its type (src/transaction.rs).
THEOREM TypeCorrect == ASSUME Reliable PROVE Spec => []TypeOK
<1>1. IInv => TypeOK
  BY DEF IInv
<1> QED
  BY <1>1, Inductive, PTL

\* Whatever fails or loses power at whatever step, and whoever changes the
\* spool, the slot that GRUB's selector names holds one complete bundle made
\* for it (transaction::install), if the boot file systems keep the order of
\* changes or the service cannot fail between moving the selector and syncing
\* it (Reliable).
THEOREM SelectedStaysBootable == ASSUME Reliable PROVE Spec => []SelectedBootable
<1>1. IInv => SelectedBootable
  BY DEF IInv, Sound, Complete, SelectedBootable
<1> QED
  BY <1>1, Inductive, PTL

-----------------------------------------------------------------------------
(* What an answer means *)

\* The set of the request is selected on root r.
On(r) == sel[r] # NONE /\ dir[r][sel[r]] = Full(set)

\* The roots before the current one have the set that the service holds, which
\* is the spooled one as long as the request lasts; nothing is answered before
\* the last root; and a selector waits for a sync only in "syncsel".
Acked ==
  /\ \A r \in Roots : ksel[r] # sel[r] => phase = "syncsel" /\ r = at
  /\ phase # "idle" => answer = "none" /\ \A r \in Roots : r < at => On(r)
  /\ phase # "idle" /\ (at > 1 \/ phase # "check") => set = spool
  /\ phase = "syncsel" => On(at)
  /\ AcknowledgedIsInstalled

\* A slot that holds one complete bundle and passes for b holds b.
LEMMA ValidSelected ==
  ASSUME IInv, NEW r \in Roots, NEW b \in Bundles, sel[r] # NONE, Valid(dir[r][sel[r]], b)
  PROVE  dir[r][sel[r]] = Full(b)
<1>1. PICK c \in Bundles : dir[r][sel[r]] = Full(c)
  BY DEF IInv, Sound, Complete
<1>2. <<b, 1>> \in Full(c)
  BY <1>1, FullType DEF Valid
<1>3. b = c
  BY <1>2 DEF Full
<1> QED
  BY <1>1, <1>3

\* The current root has the set: the next one, or the answer.
LEMMA NextRootAcked ==
  ASSUME IInv, NextRoot, answer = "none", \A r \in Roots : ksel'[r] = sel[r],
         UNCHANGED <<dir, sel, spool>>, set' = spool,
         \A r \in Roots : r <= at => On(r)'
  PROVE  Acked'
<1>1. at \in Nat /\ NRoots \in Nat /\ at <= NRoots /\ Roots = 1..NRoots
  BY RootsAssumption DEF IInv, TypeOK, Roots
<1>2. CASE at + 1 \in Roots
  <2>1. phase' = "check" /\ at' = at + 1 /\ answer' = "none"
    BY <1>2 DEF NextRoot
  <2>2. \A r \in Roots : r < at' => On(r)'
    BY <1>1, <2>1
  <2> QED
    BY <2>1, <2>2 DEF Acked, AcknowledgedIsInstalled
<1>3. CASE at + 1 \notin Roots
  <2>1. phase' = "idle"
    BY <1>3 DEF NextRoot, Reply
  <2>2. \A r \in Roots : r <= at
    BY <1>1, <1>3
  <2>3. AcknowledgedIsInstalled'
    BY <2>2 DEF AcknowledgedIsInstalled, On
  <2> QED
    BY <2>1, <2>3 DEF Acked
<1> QED
  BY <1>2, <1>3

LEMMA CheckAcked ==
  ASSUME IInv, Acked, Check
  PROVE  Acked'
<1>1. /\ phase = "check" /\ UNCHANGED <<dir, sel, kept, ksel, spool, trust>> /\ answer = "none"
      /\ \A r \in Roots : ksel[r] = sel[r]
      /\ \A r \in Roots : r < at => On(r)
      /\ at > 1 => set = spool
  BY DEF Check, Acked, store
<1>2. CASE Reply("error")
  BY <1>1, <1>2 DEF Reply, Acked, AcknowledgedIsInstalled
<1>3. CASE set' = spool /\ Goto("space")
  <2>1. ASSUME NEW r \in Roots, r < at PROVE On(r)'
    <3>1. at > 1
      BY <2>1, RootsAssumption DEF IInv, TypeOK, Roots
    <3> QED
      BY <1>1, <1>3, <2>1, <3>1 DEF On
  <2> QED
    BY <1>1, <1>3, <2>1 DEF Goto, Acked, AcknowledgedIsInstalled
<1>4. CASE set' = spool /\ spool # NONE /\ Unchanged /\ NextRoot
  <2>1. spool \in Bundles /\ at \in Roots
    BY <1>4 DEF IInv, TypeOK
  <2>2. sel[at] # NONE /\ dir[at][sel[at]] = Full(spool)
    BY <1>4, <2>1, ValidSelected DEF Unchanged
  <2>3. ASSUME NEW r \in Roots, r <= at PROVE On(r)'
    <3>1. CASE r = at
      BY <1>1, <1>4, <2>2, <3>1 DEF On
    <3>2. CASE r # at
      <4>1. r < at /\ at > 1
        BY <2>1, <2>3, <3>2, RootsAssumption DEF Roots
      <4> QED
        BY <1>1, <1>4, <4>1 DEF On
    <3> QED
      BY <3>1, <3>2
  <2> QED
    BY <1>1, <1>4, <2>3, NextRootAcked
<1> QED
  BY <1>2, <1>3, <1>4 DEF Check

\* Steps of an installation between the check and the selector: they write to
\* the current root only, and not to the slot that is selected.
LEMMA InstallAcked ==
  ASSUME IInv, Acked,
         Preflight \/ Reclaim \/ ClearStage \/ StageMember \/ SyncStage \/ Verify \/ Drop
         \/ Publish \/ SyncRoot
  PROVE  Acked'
<1>1. /\ phase \notin {"idle", "check", "select", "syncsel"} /\ phase' # "syncsel"
      /\ phase' = "idle" => answer' = "error"
      /\ phase' # "idle" => phase' # "check" /\ answer' = answer
      /\ UNCHANGED <<sel, spool, set, at>>
  BY DEF Preflight, Reclaim, ClearStage, Drop, Empty, StageMember, SyncStage, Verify, Publish,
         SyncRoot, Goto, Reply, store
<1>2. \A r \in Roots : r # at => dir'[r] = dir[r]
  <2>1. at \in Roots /\ dir \in [Roots -> [Dirs -> SUBSET Member]]
    BY DEF IInv, TypeOK
  <2>2. CASE UNCHANGED dir
    BY <2>2
  <2>3. CASE \E d, c : dir' = Put(d, c)
    BY <2>1, <2>3 DEF Put
  <2>4. CASE Publish
    BY <2>1, <2>4 DEF Publish
  <2> QED
    BY <2>2, <2>3, <2>4 DEF Preflight, Reclaim, ClearStage, Drop, Empty, StageMember, SyncStage,
       Verify, SyncRoot, store
<1>3. \A r \in Roots : ksel'[r] = sel[r]
  <2>1. \A r \in Roots : ksel[r] = sel[r]
    BY <1>1 DEF Acked
  <2> QED
    BY <2>1 DEF Preflight, Reclaim, ClearStage, Drop, Empty, StageMember, SyncStage, Verify,
       Publish, SyncRoot, store, IInv, TypeOK
<1>4. \A r \in Roots : r < at => r # at
  BY RootsAssumption DEF IInv, TypeOK, Roots
<1>5. \A r \in Roots : r < at => On(r)'
  BY <1>1, <1>2, <1>4 DEF Acked, On
<1>6. set = spool /\ answer = "none"
  BY <1>1 DEF Acked
<1> QED
  BY <1>1, <1>3, <1>5, <1>6 DEF Acked, AcknowledgedIsInstalled

LEMMA SelectAcked ==
  ASSUME IInv, Acked, Select
  PROVE  Acked'
<1>1. /\ phase = "select" /\ phase' = "syncsel" /\ sel' = [sel EXCEPT ![at] = Inactive]
      /\ UNCHANGED <<dir, kept, ksel, spool, trust, set, at, answer>>
  BY DEF Select, Goto
<1>2. /\ at \in Roots /\ sel \in [Roots -> Slots \cup {NONE}] /\ Inactive # NONE
      /\ dir[at][Inactive] = Full(set)
  BY <1>1, SelType, OtherSlot DEF IInv, TypeOK, Progress, Inactive
<1>3. sel'[at] = Inactive /\ \A r \in Roots : r # at => sel'[r] = sel[r]
  BY <1>1, <1>2
<1>4. \A r \in Roots : ksel[r] = sel[r]
  BY <1>1 DEF Acked
<1>5. On(at)'
  BY <1>1, <1>2, <1>3 DEF On
<1>6. \A r \in Roots : r < at => r # at
  BY <1>2, RootsAssumption DEF Roots
<1>7. \A r \in Roots : r < at => On(r)'
  BY <1>1, <1>3, <1>6 DEF Acked, On
<1>8. set = spool /\ answer = "none"
  BY <1>1 DEF Acked
<1>9. \A r \in Roots : ksel'[r] # sel'[r] => r = at
  BY <1>1, <1>3, <1>4
<1> QED
  BY <1>1, <1>5, <1>7, <1>8, <1>9 DEF Acked, AcknowledgedIsInstalled, On

LEMMA SyncSelectorAcked ==
  ASSUME IInv, Acked, SyncSelector
  PROVE  Acked'
<1>1. /\ phase = "syncsel" /\ NextRoot /\ ksel' = [ksel EXCEPT ![at] = sel[at]]
      /\ UNCHANGED <<dir, sel, kept, spool, trust, set>>
  BY DEF SyncSelector
<1>2. /\ at \in Roots /\ ksel \in [Roots -> Slots \cup {NONE}]
      /\ set = spool /\ answer = "none" /\ On(at)
      /\ \A r \in Roots : r < at => On(r)
      /\ \A r \in Roots : r # at => ksel[r] = sel[r]
  BY <1>1 DEF IInv, TypeOK, Acked
<1>3. \A r \in Roots : ksel'[r] = sel[r]
  BY <1>1, <1>2
<1>4. \A r \in Roots : r <= at => r < at \/ r = at
  BY <1>2, RootsAssumption DEF Roots
<1>5. \A r \in Roots : r <= at => On(r)'
  BY <1>1, <1>2, <1>4 DEF On
<1> QED
  BY <1>1, <1>2, <1>3, <1>5, NextRootAcked

\* A request begins with no answer; the spool and the key are changed between
\* requests only.
LEMMA OutsideAcked ==
  ASSUME IInv, Acked, ~MutableSpool,
         (\E b \in Bundles \cup {NONE} : Spool(b)) \/ (\E k \in Keys : Rekey(k)) \/ Request
  PROVE  Acked'
<1>1. phase = "idle" /\ UNCHANGED <<dir, sel, kept, ksel, set>>
  BY DEF Spool, Rekey, Request, store
<1>2. CASE Request
  <2>1. phase' = "check" /\ at' = 1 /\ answer' = "none"
    BY <1>2 DEF Request
  <2>2. \A r \in Roots : ~(r < 1)
    BY RootsAssumption DEF Roots
  <2> QED
    BY <1>1, <2>1, <2>2 DEF Acked, AcknowledgedIsInstalled
<1>3. CASE UNCHANGED <<phase, at, answer>>
  BY <1>1, <1>3 DEF Acked, AcknowledgedIsInstalled
<1> QED
  BY <1>2, <1>3 DEF Spool, Rekey

\* The service gives up or dies: nothing is acknowledged.
LEMMA StopAcked ==
  ASSUME IInv, Acked, ~LateFailure, Fail \/ Kill
  PROVE  Acked'
<1>1. /\ phase \notin {"idle", "syncsel"} /\ phase' = "idle" /\ answer' \in {"error", "none"}
      /\ UNCHANGED <<sel, ksel>>
  BY DEF Fail, Kill, Failing, Reply, store
<1> QED
  BY <1>1 DEF Acked, AcknowledgedIsInstalled

\* What was acknowledged is durable on every root.
LEMMA PowerLossAcked ==
  ASSUME IInv, Acked, PowerLoss
  PROVE  Acked'
<1>1. PICK o : /\ \A r \in Roots : o[r] \in Outcomes(r)
               /\ sel' = [r \in Roots |-> o[r].sel]
               /\ dir' = [r \in Roots |-> o[r].dir]
  BY DEF PowerLoss
<1>2. /\ ksel' = sel' /\ phase' = "idle" /\ set' = set
      /\ answer' = IF phase = "idle" THEN answer ELSE "none"
  BY DEF PowerLoss
<1>3. ASSUME answer' = "ok", NEW r \in Roots
      PROVE  On(r)'
  <2>1. phase = "idle" /\ answer = "ok" /\ On(r) /\ ksel[r] = sel[r]
    BY <1>2, <1>3 DEF Acked, AcknowledgedIsInstalled, On
  <2>2. sel[r] \in Slots /\ kept[r][sel[r]] = dir[r][sel[r]]
    BY <2>1 DEF IInv, TypeOK, Sound, Durable, On
  <2>3. PICK a \in After(kept[r]["A"], dir[r]["A"]),
             b \in After(kept[r]["B"], dir[r]["B"]),
             n \in After(kept[r]["new"], dir[r]["new"]) :
          o[r].dir = [A |-> a, B |-> b, new |-> n]
    BY <1>1 DEF Outcomes
  <2>4. o[r].sel = sel[r]
    BY <1>1, <2>1 DEF Outcomes
  <2>5. o[r].dir[sel[r]] = dir[r][sel[r]]
    <3>1. CASE sel[r] = "A"
      BY <2>2, <2>3, <3>1, AfterSame
    <3>2. CASE sel[r] = "B"
      BY <2>2, <2>3, <3>2, AfterSame
    <3> QED
      BY <2>2, <3>1, <3>2 DEF Slots
  <2>6. sel'[r] = sel[r] /\ dir'[r][sel[r]] = dir[r][sel[r]]
    BY <1>1, <2>4, <2>5
  <2> QED
    BY <1>2, <2>1, <2>6 DEF On
<1>4. AcknowledgedIsInstalled'
  BY <1>3 DEF AcknowledgedIsInstalled, On
<1> QED
  BY <1>2, <1>4 DEF Acked

\* A request that was answered OK is installed on every boot root and no power
\* failure takes it back until the next request, for any number of roots and
\* any bundles, if the service cannot fail between moving the selector and
\* syncing it and the spool keeps still during a request (protocol::serve asks
\* for all roots before it answers).
THEOREM AcknowledgedStays ==
  ASSUME ~LateFailure, ~MutableSpool
  PROVE  Spec => []AcknowledgedIsInstalled
<1>1. Reliable
  BY DEF Reliable
<1>2. Init => Acked
  BY DEF Init, Acked, AcknowledgedIsInstalled
<1>3. IInv /\ Acked /\ [Next]_vars => Acked'
  <2> SUFFICES ASSUME IInv, Acked, [Next]_vars PROVE Acked'
    OBVIOUS
  <2>1. CASE UNCHANGED vars
    BY <2>1 DEF vars, store, Acked, AcknowledgedIsInstalled, On
  <2>2. CASE Step
    BY <2>2, CheckAcked, InstallAcked, SelectAcked, SyncSelectorAcked DEF Step
  <2>3. CASE Fail \/ Kill
    BY <2>3, StopAcked
  <2>4. CASE PowerLoss
    BY <2>4, PowerLossAcked
  <2>5. CASE (\E b \in Bundles \cup {NONE} : Spool(b)) \/ (\E k \in Keys : Rekey(k)) \/ Request
    BY <2>5, OutsideAcked
  <2> QED
    BY <2>1, <2>2, <2>3, <2>4, <2>5 DEF Next
<1>4. Acked => AcknowledgedIsInstalled
  BY DEF Acked
<1>5. Spec => []IInv
  BY <1>1, Inductive
<1> QED
  BY <1>2, <1>3, <1>4, <1>5, PTL DEF Spec

-----------------------------------------------------------------------------
(* Space *)

\* The disk holds what is on it.
Fits == \A r \in Roots : Occupied(dir[r]) <= Capacity

\* The estimate of the check leaves room for what it does not count.
Generous == \A b \in Bundles : Size[b] + Extra <= Need[b]

\* The set is staged, and the selector is not moved yet.
Waiting == {"syncstage", "verify", "drop", "publish", "syncroot", "select"}

\* The members on a disk can be counted, and from the space check to the move
\* of the selector there is room for what is still to be written.
Roomy ==
  /\ \A r \in Roots, d \in Dirs : IsFiniteSet(dir[r][d]) /\ IsFiniteSet(kept[r][d])
  /\ Fits
  /\ phase = "reclaim" => Free(at) + Reclaimable(at) >= Need[set]
  /\ phase = "clear" => Free(at) >= Need[set]
  /\ phase = "stage" => Free(at) >= Cardinality(Missing) + Extra
  /\ phase \in Waiting => Free(at) >= Extra

\* Different members of one bundle are at most as many as it has.
LEMMA MembersFit ==
  ASSUME NEW n \in Nat, NEW c, \A m \in c : m[2] \in 1..n,
         \A m, k \in c : m[2] = k[2] => m = k
  PROVE  IsFiniteSet(c) /\ Cardinality(c) <= n
<1> DEFINE f == [m \in c |-> m[2]]
<1>1. f \in Injection(c, 1..n)
  BY DEF Injection, IsInjective
<1>2. IsFiniteSet(1..n) /\ Cardinality(1..n) = n
  BY FS_Interval
<1> HIDE DEF f
<1> QED
  BY <1>1, <1>2, FS_Injection

LEMMA OccupiedType ==
  ASSUME Roomy, NEW r \in Roots
  PROVE  Occupied(dir[r]) \in Nat
<1>1. \A d \in {"A", "B", "new"} : Cardinality(dir[r][d]) \in Nat
  BY FS_CardinalityType DEF Roomy, Dirs
<1> QED
  BY <1>1 DEF Occupied

\* What writing c to the directory d of the current root does to its space.
LEMMA PutSpace ==
  ASSUME IInv, Roomy, NEW d \in Dirs, NEW c, IsFiniteSet(c), dir' = Put(d, c)
  PROVE  /\ \A r \in Roots, e \in Dirs : IsFiniteSet(dir'[r][e])
         /\ \A r \in Roots : r # at => dir'[r] = dir[r]
         /\ dir'[at][d] = c /\ \A e \in Dirs : e # d => dir'[at][e] = dir[at][e]
         /\ Occupied(dir'[at]) = Occupied(dir[at]) - Cardinality(dir[at][d]) + Cardinality(c)
         /\ Occupied(dir[at]) \in Nat /\ Occupied(dir'[at]) \in Nat
         /\ Cardinality(c) \in Nat /\ Cardinality(dir[at][d]) \in Nat
<1>1. at \in Roots /\ dir \in [Roots -> [Dirs -> SUBSET Member]]
  BY DEF IInv, TypeOK
<1>2. /\ \A r \in Roots : r # at => dir'[r] = dir[r]
      /\ dir'[at][d] = c /\ \A e \in Dirs : e # d => dir'[at][e] = dir[at][e]
  BY <1>1 DEF Put
<1>3. \A r \in Roots, e \in Dirs : IsFiniteSet(dir'[r][e])
  BY <1>2 DEF Roomy
<1>4. \A e \in Dirs : Cardinality(dir[at][e]) \in Nat /\ Cardinality(dir'[at][e]) \in Nat
  BY <1>1, <1>3, FS_CardinalityType DEF Roomy
<1>5. d = "A" \/ d = "B" \/ d = "new"
  BY DEF Dirs
<1>6. "A" \in Dirs /\ "B" \in Dirs /\ "new" \in Dirs
  BY DEF Dirs
<1>7. Occupied(dir'[at]) = Occupied(dir[at]) - Cardinality(dir[at][d]) + Cardinality(c)
      /\ Occupied(dir[at]) \in Nat /\ Occupied(dir'[at]) \in Nat
  <2>1. CASE d = "A"
    BY <1>2, <1>4, <1>6, <2>1 DEF Occupied
  <2>2. CASE d = "B"
    BY <1>2, <1>4, <1>6, <2>2 DEF Occupied
  <2>3. CASE d = "new"
    BY <1>2, <1>4, <1>6, <2>3 DEF Occupied
  <2> QED
    BY <1>5, <2>1, <2>2, <2>3
<1> QED
  BY <1>2, <1>3, <1>4, <1>7

\* Steps that leave the directories alone.
LEMMA StillRoomy ==
  ASSUME Roomy, UNCHANGED dir, \A r \in Roots, d \in Dirs : IsFiniteSet(kept'[r][d]),
         phase' \notin {"reclaim", "clear", "stage"},
         phase' \in Waiting => phase \in Waiting /\ at' = at
  PROVE  Roomy'
<1>1. Fits'
  BY DEF Roomy, Fits, Occupied
<1>2. phase' \in Waiting => Free(at)' >= Extra
  BY DEF Roomy, Free, Occupied
<1> QED
  BY <1>1, <1>2 DEF Roomy

LEMMA PreflightRoomy ==
  ASSUME IInv, Roomy, Preflight
  PROVE  Roomy'
<1>1. /\ UNCHANGED <<store, set, at>> /\ phase' \in {"clear", "reclaim", "idle"}
      /\ phase' = "clear" => Free(at) >= Need[set]
  BY DEF Preflight, Goto, Reply
<1>2. phase' = "reclaim" => Free(at) + Reclaimable(at) >= Need[set]
  BY DEF Preflight, Goto, Reply
<1>3. UNCHANGED <<Free(at), Reclaimable(at), store, set, at>>
  BY <1>1 DEF Free, Reclaimable, Occupied, store
<1> QED
  BY <1>1, <1>2, <1>3 DEF Roomy, Fits, Waiting, Occupied, store, Free, Reclaimable

\* One member less, or an empty directory.
LEMMA EmptyRoomy ==
  ASSUME IInv, Roomy, NEW p, NEW q, NEW d \in {"new", Inactive}, Empty(p, d, q)
  PROVE  /\ \A r \in Roots, e \in Dirs : IsFiniteSet(dir'[r][e]) /\ IsFiniteSet(kept'[r][e])
         /\ Fits'
         /\ UNCHANGED <<at, set, sel>> /\ phase = p /\ phase' \in {p, q}
         /\ Free(at)' \in Int /\ Free(at) \in Int /\ Free(at)' >= Free(at)
         /\ Free(at)' + Cardinality(dir'[at][d]) = Free(at) + Cardinality(dir[at][d])
         /\ Cardinality(dir[at][d]) \in Nat
         /\ phase' = q /\ q # p => Cardinality(dir'[at][d]) = 0
<1>1. /\ UNCHANGED <<at, set, sel, kept>> /\ phase = p /\ phase' \in {p, q}
      /\ phase' = q /\ q # p => dir[at][d] = {} /\ UNCHANGED dir
  BY DEF Empty, Goto
<1>2. d \in Dirs /\ at \in Roots
  BY SelType
<1>3. IsFiniteSet(dir[at][d]) /\ Cardinality(dir[at][d]) \in Nat
  BY <1>2, FS_CardinalityType DEF Roomy
<1>4. PICK c : dir' = Put(d, c) /\ IsFiniteSet(c) /\ Cardinality(c) <= Cardinality(dir[at][d])
  <2>1. CASE dir[at][d] = {}
    <3>1. dir' = dir
      BY <2>1 DEF Empty
    <3>2. dir = [dir EXCEPT ![at][d] = {}]
      <4>1. dir \in [Roots -> [Dirs -> SUBSET Member]]
        BY DEF IInv, TypeOK
      <4>2. dir[at] = [dir[at] EXCEPT ![d] = {}]
        BY <1>2, <2>1, <4>1
      <4> QED
        BY <1>2, <4>1, <4>2
    <3> QED
      BY <1>3, <2>1, <3>1, <3>2 DEF Put
  <2>2. CASE dir[at][d] # {}
    <3>1. PICK m \in dir[at][d] : dir' = Put(d, dir[at][d] \ {m})
      BY <2>2 DEF Empty
    <3>2. IsFiniteSet(dir[at][d] \ {m}) /\ Cardinality(dir[at][d] \ {m}) = Cardinality(dir[at][d]) - 1
      BY <1>3, FS_RemoveElement
    <3>3. Cardinality(dir[at][d] \ {m}) <= Cardinality(dir[at][d])
      BY <1>3, <3>2
    <3> QED
      BY <3>1, <3>2, <3>3, Zenon
  <2> QED
    BY <2>1, <2>2
<1>5. /\ \A r \in Roots, e \in Dirs : IsFiniteSet(dir'[r][e])
      /\ \A r \in Roots : r # at => dir'[r] = dir[r]
      /\ dir'[at][d] = c
      /\ Occupied(dir'[at]) = Occupied(dir[at]) - Cardinality(dir[at][d]) + Cardinality(c)
      /\ Occupied(dir[at]) \in Nat /\ Occupied(dir'[at]) \in Nat /\ Cardinality(c) \in Nat
  BY <1>2, <1>4, PutSpace
<1>6. Fits'
  <2>1. Occupied(dir[at]) <= Capacity
    BY <1>2 DEF Roomy, Fits
  <2>2. Occupied(dir'[at]) <= Capacity
    BY <1>3, <1>4, <1>5, <2>1, CapacityAssumption
  <2>3. \A r \in Roots : r # at => Occupied(dir'[r]) <= Capacity
    BY <1>5 DEF Roomy, Fits
  <2> QED
    BY <2>2, <2>3 DEF Fits
<1>7. /\ Free(at)' \in Int /\ Free(at) \in Int /\ Free(at)' >= Free(at)
      /\ Free(at)' + Cardinality(dir'[at][d]) = Free(at) + Cardinality(dir[at][d])
  <2>1. Free(at)' = Capacity - Occupied(dir'[at])
    BY <1>1 DEF Free, Occupied
  <2>2. Free(at) = Capacity - Occupied(dir[at])
    BY DEF Free
  <2> QED
    BY <1>3, <1>4, <1>5, <2>1, <2>2, CapacityAssumption
<1>8. phase' = q /\ q # p => Cardinality(dir'[at][d]) = 0
  BY <1>1, FS_EmptySet
<1> QED
  BY <1>1, <1>3, <1>5, <1>6, <1>7, <1>8 DEF Roomy

LEMMA RemovalsRoomy ==
  ASSUME Generous, IInv, Roomy, Reclaim \/ ClearStage \/ Drop
  PROVE  Roomy'
<1>1. CASE Reclaim
  <2>1. /\ \A r \in Roots, e \in Dirs : IsFiniteSet(dir'[r][e]) /\ IsFiniteSet(kept'[r][e])
        /\ Fits'
        /\ UNCHANGED <<at, set, sel>> /\ phase = "reclaim" /\ phase' \in {"reclaim", "clear"}
        /\ Free(at)' \in Int /\ Free(at) \in Int
        /\ Free(at)' + Cardinality(dir'[at][Inactive]) = Free(at) + Cardinality(dir[at][Inactive])
        /\ phase' = "clear" => Cardinality(dir'[at][Inactive]) = 0
    BY <1>1, EmptyRoomy DEF Reclaim
  <2>2. Free(at) + Cardinality(dir[at][Inactive]) >= Need[set]
    BY <2>1 DEF Roomy, Reclaimable, Inactive
  <2>3. Reclaimable(at)' = Cardinality(dir'[at][Inactive])
    BY <2>1 DEF Reclaimable, Inactive
  <2>4. phase' = "clear" => Free(at)' >= Need[set]
    BY <2>1, <2>2
  <2> QED
    BY <2>1, <2>2, <2>3, <2>4 DEF Roomy, Waiting
<1>2. CASE ClearStage
  <2>1. /\ \A r \in Roots, e \in Dirs : IsFiniteSet(dir'[r][e]) /\ IsFiniteSet(kept'[r][e])
        /\ Fits'
        /\ UNCHANGED <<at, set, sel>> /\ phase = "clear" /\ phase' \in {"clear", "stage"}
        /\ Free(at)' \in Int /\ Free(at) \in Int /\ Free(at)' >= Free(at)
    BY <1>2, EmptyRoomy DEF ClearStage
  <2>2. Free(at) >= Need[set] /\ Size[set] \in Nat /\ Need[set] \in Nat /\ Size[set] + Extra <= Need[set]
    BY <2>1, BundleAssumption DEF Roomy, IInv, Progress, Installing, Generous
  <2>3. Free(at)' >= Need[set]
    BY <2>1, <2>2
  <2>4. ASSUME phase' = "stage"
        PROVE  Free(at)' >= Cardinality(Missing)' + Extra
    <3>1. dir'[at]["new"] = {}
      BY <1>2, <2>4 DEF ClearStage, Empty, Goto
    <3>2. Missing' = 1..Size[set]
      BY <2>1, <3>1 DEF Missing
    <3>3. Cardinality(Missing)' = Size[set]
      BY <2>2, <3>2, FS_Interval
    <3> QED
      BY <2>1, <2>2, <2>3, <3>3, BundleAssumption
  <2> QED
    BY <2>1, <2>3, <2>4 DEF Roomy, Waiting
<1>3. CASE Drop
  <2>1. /\ \A r \in Roots, e \in Dirs : IsFiniteSet(dir'[r][e]) /\ IsFiniteSet(kept'[r][e])
        /\ Fits' /\ phase = "drop" /\ phase' \in {"drop", "publish"}
        /\ Free(at)' \in Int /\ Free(at) \in Int /\ Free(at)' >= Free(at)
    BY <1>3, EmptyRoomy DEF Drop
  <2>2. Free(at)' >= Extra
    BY <2>1, BundleAssumption DEF Roomy, Waiting
  <2> QED
    BY <2>1, <2>2 DEF Roomy
<1> QED
  BY <1>1, <1>2, <1>3

\* A member takes the room that was left for it.
LEMMA StageRoomy ==
  ASSUME IInv, Roomy, StageMember
  PROVE  Roomy'
<1>1. /\ UNCHANGED <<sel, kept, ksel, spool, trust, set, at, answer>>
      /\ phase = "stage" /\ phase' \in {"stage", "syncstage"}
  BY DEF StageMember, Goto
<1>2. /\ Size[set] \in Nat /\ Extra \in Nat
      /\ IsFiniteSet(Missing) /\ Cardinality(Missing) \in Nat
      /\ Free(at) >= Cardinality(Missing) + Extra
  <2>1. set \in Bundles /\ Size[set] \in Nat /\ Extra \in Nat
    BY <1>1, BundleAssumption DEF IInv, Progress, Installing
  <2>2. IsFiniteSet(1..Size[set]) /\ Missing \subseteq 1..Size[set]
    BY <2>1, FS_Interval DEF Missing
  <2>3. IsFiniteSet(Missing) /\ Cardinality(Missing) \in Nat
    BY <2>2, FS_Subset, FS_CardinalityType
  <2> QED
    BY <1>1, <2>1, <2>3 DEF Roomy
<1>3. CASE Missing = {} /\ UNCHANGED dir /\ phase' = "syncstage"
  <2>1. Free(at)' = Free(at) /\ Fits'
    BY <1>1, <1>3 DEF Roomy, Fits, Free, Occupied
  <2>2. Free(at)' >= Extra
    BY <1>2, <1>3, <2>1, FS_EmptySet
  <2> QED
    BY <1>1, <1>3, <2>1, <2>2 DEF Roomy
<1>4. ASSUME NEW i \in Missing, NEW b, Occupied(dir[at]) < Capacity,
             dir' = Put("new", dir[at]["new"] \cup {<<b, i>>}), phase' = "stage"
      PROVE  Roomy'
  <2> DEFINE c == dir[at]["new"] \cup {<<b, i>>}
  <2>1. at \in Roots /\ "new" \in Dirs
    BY SelType
  <2>2. IsFiniteSet(dir[at]["new"]) /\ Cardinality(dir[at]["new"]) \in Nat
    BY <2>1, FS_CardinalityType DEF Roomy
  <2>3. <<b, i>> \notin dir[at]["new"]
    BY <1>4 DEF Missing
  <2>4. IsFiniteSet(c) /\ Cardinality(c) = Cardinality(dir[at]["new"]) + 1
    BY <2>2, <2>3, FS_AddElement
  <2>5. \A m \in c : m \in dir[at]["new"] \/ m[2] = i
    OBVIOUS
  <2>6. dir[at]["new"] \subseteq c /\ <<b, i>> \in c /\ <<b, i>>[2] = i
    OBVIOUS
  <2> HIDE DEF c
  <2>7. /\ \A r \in Roots, e \in Dirs : IsFiniteSet(dir'[r][e])
        /\ \A r \in Roots : r # at => dir'[r] = dir[r]
        /\ dir'[at]["new"] = c
        /\ Occupied(dir'[at]) = Occupied(dir[at]) - Cardinality(dir[at]["new"]) + Cardinality(c)
        /\ Occupied(dir[at]) \in Nat /\ Occupied(dir'[at]) \in Nat /\ Cardinality(c) \in Nat
    BY <1>4, <2>1, <2>4, PutSpace DEF c
  <2>8. Missing' = Missing \ {i}
    BY <1>1, <1>4, <2>5, <2>6, <2>7 DEF Missing
  <2>9. Cardinality(Missing)' = Cardinality(Missing) - 1
    BY <1>2, <1>4, <2>8, FS_RemoveElement
  <2>10. Free(at) = Capacity - Occupied(dir[at]) /\ Free(at)' = Capacity - Occupied(dir'[at])
    BY <1>1 DEF Free, Occupied
  <2>11. Occupied(dir'[at]) <= Capacity
         /\ Free(at)' >= Cardinality(Missing)' + Extra
    BY <1>2, <1>4, <2>2, <2>4, <2>7, <2>9, <2>10, CapacityAssumption
  <2>12. Fits'
    BY <2>7, <2>11 DEF Roomy, Fits
  <2> QED
    BY <1>1, <1>4, <2>7, <2>11, <2>12 DEF Roomy, Waiting
<1> QED
  BY <1>1, <1>3, <1>4 DEF StageMember, Goto

\* The new set takes the place of the old one.
LEMMA PublishRoomy ==
  ASSUME IInv, Roomy, Publish
  PROVE  Roomy'
<1> DEFINE new == dir[at]["new"]
           row == [dir[at] EXCEPT ![Inactive] = new, !["new"] = {}]
<1>1. /\ UNCHANGED kept /\ phase' = "syncroot"
      /\ dir' = [dir EXCEPT ![at][Inactive] = new, ![at]["new"] = {}]
  BY DEF Publish, Goto
<1>2. at \in Roots /\ dir \in [Roots -> [Dirs -> SUBSET Member]]
      /\ Inactive \in {"A", "B"} /\ Dirs = {"A", "B", "new"}
  BY SelType DEF IInv, TypeOK, Slots, Dirs
<1>3. dir' = [dir EXCEPT ![at] = row]
  BY <1>1, <1>2
<1>4. dir'[at] = row /\ \A r \in Roots : r # at => dir'[r] = dir[r]
  BY <1>2, <1>3
<1>5. /\ row[Inactive] = new /\ row["new"] = {}
      /\ \A d \in Dirs : d \notin {Inactive, "new"} => row[d] = dir[at][d]
  BY <1>2
<1> HIDE DEF row
<1>6. \A d \in Dirs : IsFiniteSet(dir[at][d]) /\ Cardinality(dir[at][d]) \in Nat
  BY <1>2, FS_CardinalityType DEF Roomy
<1>7. Cardinality({}) = 0 /\ IsFiniteSet({})
  BY FS_EmptySet
<1>8. Occupied(row) <= Occupied(dir[at]) /\ Occupied(row) \in Nat /\ Occupied(dir[at]) \in Nat
  <2>1. CASE Inactive = "A"
    BY <1>2, <1>5, <1>6, <1>7, <2>1 DEF Occupied
  <2>2. CASE Inactive = "B"
    BY <1>2, <1>5, <1>6, <1>7, <2>2 DEF Occupied
  <2> QED
    BY <1>2, <2>1, <2>2
<1>9. Fits' /\ Free(at)' >= Extra
  <2>1. Occupied(dir[at]) <= Capacity /\ Free(at) >= Extra /\ at' = at /\ Extra \in Nat
    BY <1>2, BundleAssumption DEF Roomy, Fits, Publish, Goto, Waiting
  <2>2. Occupied(dir'[at]) <= Capacity
    BY <1>4, <1>8, <2>1, CapacityAssumption
  <2>3. Free(at)' = Capacity - Occupied(dir'[at])
    BY <2>1 DEF Free, Occupied
  <2>4. Free(at)' >= Extra
    BY <1>4, <1>8, <2>1, <2>3, CapacityAssumption DEF Free
  <2> QED
    BY <1>4, <2>2, <2>4 DEF Roomy, Fits
<1>10. \A r \in Roots, d \in Dirs : IsFiniteSet(dir'[r][d])
  <2>1. \A d \in Dirs : IsFiniteSet(row[d])
    BY <1>2, <1>5, <1>6, <1>7
  <2> QED
    BY <1>2, <1>4, <2>1 DEF Roomy
<1> QED
  BY <1>1, <1>9, <1>10 DEF Roomy

LEMMA PowerLossRoomy ==
  ASSUME IInv, Roomy, PowerLoss
  PROVE  Roomy'
<1>1. PICK o : /\ \A r \in Roots : o[r] \in Outcomes(r)
               /\ dir' = [r \in Roots |-> o[r].dir]
  BY DEF PowerLoss
<1>2. kept' = dir' /\ phase' = "idle"
  BY DEF PowerLoss
<1>3. ASSUME NEW r \in Roots
      PROVE  Occupied(dir'[r]) <= Capacity /\ \A d \in Dirs : IsFiniteSet(dir'[r][d])
  <2>1. o[r] \in Outcomes(r) /\ dir'[r] = o[r].dir
    BY <1>1
  <2>2. PICK a \in After(kept[r]["A"], dir[r]["A"]),
             b \in After(kept[r]["B"], dir[r]["B"]),
             n \in After(kept[r]["new"], dir[r]["new"]) :
          o[r].dir = [A |-> a, B |-> b, new |-> n]
    BY <2>1 DEF Outcomes
  <2>3. ASSUME NEW k, NEW v, IsFiniteSet(k), IsFiniteSet(v), NEW c \in After(k, v)
        PROVE  IsFiniteSet(c)
    BY <2>3, FS_Subset DEF After
  <2>4. IsFiniteSet(a) /\ IsFiniteSet(b) /\ IsFiniteSet(n)
    BY <2>2, <2>3 DEF Roomy, Dirs
  <2>5. Occupied(o[r].dir) <= Capacity
    BY <2>1 DEF Outcomes
  <2> QED
    BY <2>1, <2>2, <2>4, <2>5 DEF Dirs
<1> QED
  BY <1>2, <1>3 DEF Roomy, Fits, Waiting

\* docs/boot-set-updates.md: when the space is too small, "the request fails
\* before any change".  It does, for any bundles, roots and capacity, and whatever
\* failed requests left behind, if the estimate leaves room for the staging
\* directory and the temporary selector, which transaction::preflight does not
\* count: BootSetFull refutes it with an exact estimate.
THEOREM NeverOutOfSpace == ASSUME Reliable, Generous PROVE Spec => []HasRoom
<1>1. Init => Roomy
  <2> SUFFICES ASSUME Init PROVE Roomy
    OBVIOUS
  <2>1. \A r \in Roots, d \in Dirs : dir[r][d] = {} /\ kept[r][d] = {}
    BY DEF Init
  <2>2. IsFiniteSet({}) /\ Cardinality({}) = 0
    BY FS_EmptySet
  <2>3. ASSUME NEW r \in Roots PROVE Occupied(dir[r]) = 0
    <3>1. dir[r]["A"] = {} /\ dir[r]["B"] = {} /\ dir[r]["new"] = {}
      BY <2>1 DEF Dirs
    <3> QED
      BY <2>2, <3>1 DEF Occupied
  <2>4. Fits
    BY <2>3, CapacityAssumption DEF Fits
  <2>5. phase = "idle"
    BY DEF Init
  <2> QED
    BY <2>1, <2>2, <2>4, <2>5 DEF Roomy, Waiting
<1>2. IInv /\ Roomy /\ [Next]_vars => Roomy'
  <2> SUFFICES ASSUME IInv, Roomy, [Next]_vars PROVE Roomy'
    OBVIOUS
  <2>1. CASE UNCHANGED vars
    BY <2>1 DEF vars, store, Roomy, Fits, Free, Reclaimable, Occupied, Missing
  <2>2. CASE Check \/ Request \/ Verify \/ Kill \/ Select \/ SyncSelector
             \/ \E k \in Keys : Rekey(k)
    <3>1. /\ UNCHANGED <<dir, kept>> /\ phase' \notin {"reclaim", "clear", "stage"}
          /\ phase' \in Waiting => phase \in Waiting /\ at' = at
      BY <2>2 DEF Check, Request, Verify, Kill, Select, SyncSelector, Rekey, NextRoot, Reply,
         Goto, store, Waiting
    <3> QED
      BY <3>1, StillRoomy DEF Roomy
  <2>3. CASE \E b \in Bundles \cup {NONE} : Spool(b)
    BY <2>3 DEF Spool, store, Roomy, Fits, Free, Reclaimable, Occupied, Missing
  <2>4. CASE SyncStage \/ SyncRoot
    <3>1. /\ UNCHANGED dir /\ phase' \notin {"reclaim", "clear", "stage"}
          /\ phase \in Waiting /\ at' = at
          /\ \A r \in Roots, d \in Dirs :
               kept'[r][d] \in {kept[r][d], dir[r][d], kept[r]["new"]}
      BY <2>4, SelType DEF SyncStage, SyncRoot, Goto, IInv, TypeOK, Waiting
    <3>2. \A r \in Roots, d \in Dirs : IsFiniteSet(kept'[r][d])
      BY <3>1 DEF Roomy, Dirs
    <3> QED
      BY <3>1, <3>2, StillRoomy
  <2>5. CASE Fail
    <3>1. UNCHANGED kept /\ phase' = "idle"
      BY <2>5 DEF Fail, Reply
    <3>2. CASE UNCHANGED dir
      BY <3>1, <3>2, StillRoomy DEF Roomy, Waiting
    <3>3. CASE dir' = Put("new", {})
      <4>1. IsFiniteSet({}) /\ Cardinality({}) = 0 /\ "new" \in Dirs /\ at \in Roots
        BY FS_EmptySet, SelType
      <4>2. /\ \A r \in Roots, e \in Dirs : IsFiniteSet(dir'[r][e])
            /\ \A r \in Roots : r # at => dir'[r] = dir[r]
            /\ Occupied(dir'[at]) = Occupied(dir[at]) - Cardinality(dir[at]["new"]) + 0
            /\ Occupied(dir[at]) \in Nat /\ Occupied(dir'[at]) \in Nat
            /\ Cardinality(dir[at]["new"]) \in Nat
        BY <3>3, <4>1, PutSpace
      <4>3. Occupied(dir[at]) <= Capacity
        BY <4>1 DEF Roomy, Fits
      <4>4. Occupied(dir'[at]) <= Capacity
        BY <4>2, <4>3, CapacityAssumption
      <4>5. Fits'
        BY <4>2, <4>4 DEF Roomy, Fits
      <4> QED
        BY <3>1, <4>2, <4>5 DEF Roomy, Waiting
    <3> QED
      BY <2>5, <3>2, <3>3 DEF Fail
  <2> QED
    BY <2>1, <2>2, <2>3, <2>4, <2>5, PreflightRoomy, RemovalsRoomy, StageRoomy, PublishRoomy,
       PowerLossRoomy DEF Next, Step
<1>3. IInv /\ Roomy => HasRoom
  <2> SUFFICES ASSUME IInv, Roomy PROVE HasRoom
    OBVIOUS
  <2>1. Occupied(dir[at]) \in Nat /\ Extra \in Nat
    BY OccupiedType, BundleAssumption DEF IInv, TypeOK
  <2>2. CASE phase = "stage"
    <3>1. set \in Bundles /\ Size[set] \in Nat
      BY <2>2, BundleAssumption DEF IInv, Progress, Installing
    <3>2. IsFiniteSet(1..Size[set]) /\ Missing \subseteq 1..Size[set]
      BY <3>1, FS_Interval DEF Missing
    <3>3. Cardinality(Missing) \in Nat
      BY <3>2, FS_Subset, FS_CardinalityType
    <3> QED
      BY <2>1, <2>2, <3>3, CapacityAssumption DEF Roomy, HasRoom, Free
  <2>3. CASE phase = "select"
    BY <2>1, <2>3, CapacityAssumption DEF Roomy, Waiting, HasRoom, Free
  <2> QED
    BY <2>2, <2>3 DEF HasRoom
<1>4. Spec => []IInv
  BY Inductive
<1> QED
  BY <1>1, <1>2, <1>3, <1>4, PTL DEF Spec

-----------------------------------------------------------------------------
(* Room for a retry *)

\* No directory holds more than n members, now or after a power failure.
Small(n) ==
  \A r \in Roots, d \in Dirs :
    /\ IsFiniteSet(dir[r][d]) /\ Cardinality(dir[r][d]) <= n
    /\ IsFiniteSet(kept[r][d]) /\ Cardinality(kept[r][d]) <= n

\* Contents that were on the root before, or a part of them.
Old(r, c) == \E e \in Dirs : c \subseteq dir[r][e] \/ c \subseteq kept[r][e]

\* A directory only gets what was in one directory of its root, or one more
\* staged member.
LEMMA Contents ==
  ASSUME IInv, [Next]_vars, NEW r \in Roots, NEW d \in Dirs
  PROVE  /\ Old(r, kept'[r][d])
         /\ \/ Old(r, dir'[r][d])
            \/ StageMember /\ phase' = "stage" /\ r = at /\ d = "new"
<1>1. /\ at \in Roots /\ dir \in [Roots -> [Dirs -> SUBSET Member]]
      /\ kept \in [Roots -> [Dirs -> SUBSET Member]]
      /\ Inactive \in Dirs /\ "new" \in Dirs /\ Inactive # "new"
  BY SelType DEF IInv, TypeOK
<1>2. ASSUME NEW e \in Dirs, NEW c, c \subseteq dir[at][e], dir' = Put(e, c)
      PROVE  Old(r, dir'[r][d])
  <2>1. dir'[r][d] = IF r = at /\ d = e THEN c ELSE dir[r][d]
    BY <1>1, <1>2 DEF Put
  <2> QED
    BY <1>2, <2>1 DEF Old
<1>3. Old(r, dir[r][d]) /\ Old(r, kept[r][d])
  BY DEF Old
<1>4. CASE UNCHANGED <<dir, kept>>
  BY <1>3, <1>4
<1>5. CASE Reclaim \/ ClearStage \/ Drop
  <2>1. ASSUME NEW p, NEW q, NEW e \in {"new", Inactive}, Empty(p, e, q)
        PROVE  Old(r, dir'[r][d])
    <3>1. CASE dir' = dir
      BY <1>3, <3>1
    <3>2. CASE \E m \in dir[at][e] : dir' = Put(e, dir[at][e] \ {m})
      BY <1>1, <1>2, <3>2
    <3> QED
      BY <2>1, <3>1, <3>2 DEF Empty
  <2>2. kept' = kept
    BY <1>5 DEF Reclaim, ClearStage, Drop, Empty
  <2> QED
    BY <1>3, <1>5, <2>1, <2>2 DEF Reclaim, ClearStage, Drop
<1>6. CASE StageMember
  <2>1. kept' = kept /\ (dir' = dir \/ (phase' = "stage" /\ \E c : dir' = Put("new", c)))
    BY <1>6 DEF StageMember, Goto
  <2>2. CASE dir' = dir
    BY <1>3, <2>1, <2>2
  <2>3. CASE phase' = "stage" /\ \E c : dir' = Put("new", c)
    <3>1. r # at \/ d # "new" => dir'[r][d] = dir[r][d]
      BY <1>1, <2>3 DEF Put
    <3> QED
      BY <1>3, <1>6, <2>1, <2>3, <3>1
  <2> QED
    BY <2>1, <2>2, <2>3
<1>7. CASE SyncStage \/ SyncRoot
  <2>1. dir' = dir /\ kept'[r][d] \in {kept[r][d], dir[r][d], kept[r]["new"]}
    BY <1>1, <1>7 DEF SyncStage, SyncRoot
  <2> QED
    BY <1>1, <1>3, <2>1 DEF Old
<1>8. CASE Publish
  <2> DEFINE row == [dir[at] EXCEPT ![Inactive] = dir[at]["new"], !["new"] = {}]
  <2>1. kept' = kept /\ dir' = [dir EXCEPT ![at] = row]
    BY <1>1, <1>8 DEF Publish
  <2>2. row[d] \in {dir[at]["new"], {}, dir[at][d]}
    BY <1>1
  <2> HIDE DEF row
  <2>3. dir'[r][d] \in {dir[r]["new"], {}, dir[r][d]}
    BY <1>1, <2>1, <2>2
  <2> QED
    BY <1>1, <1>3, <2>1, <2>3 DEF Old
<1>9. CASE Fail
  <2>1. kept' = kept /\ (dir' = dir \/ dir' = Put("new", {}))
    BY <1>9 DEF Fail
  <2> QED
    BY <1>1, <1>2, <1>3, <2>1
<1>10. CASE PowerLoss
  <2>1. PICK o : o[r] \in Outcomes(r) /\ dir'[r] = o[r].dir
    BY <1>10 DEF PowerLoss
  <2>2. kept' = dir'
    BY <1>10 DEF PowerLoss
  <2>3. PICK a \in After(kept[r]["A"], dir[r]["A"]),
             b \in After(kept[r]["B"], dir[r]["B"]),
             n \in After(kept[r]["new"], dir[r]["new"]) :
          o[r].dir = [A |-> a, B |-> b, new |-> n]
    BY <2>1 DEF Outcomes
  <2>4. dir'[r][d] \in After(kept[r][d], dir[r][d])
    BY <2>1, <2>3 DEF Dirs
  <2>5. dir'[r][d] \subseteq kept[r][d] \/ dir'[r][d] \subseteq dir[r][d]
    BY <2>4 DEF After
  <2> QED
    BY <2>2, <2>5 DEF Old
<1> QED
  BY <1>4, <1>5, <1>6, <1>7, <1>8, <1>9, <1>10 DEF Next, Step, Spool, Rekey, Request, Check,
     Preflight, Verify, Select, SyncSelector, Kill, store, vars

\* A part of what was small is small.
LEMMA OldIsSmall ==
  ASSUME NEW n \in Nat, Small(n), NEW r \in Roots, NEW c, Old(r, c)
  PROVE  IsFiniteSet(c) /\ Cardinality(c) <= n
<1>1. PICK e \in Dirs : c \subseteq dir[r][e] \/ c \subseteq kept[r][e]
  BY DEF Old
<1>2. ASSUME NEW v, IsFiniteSet(v), Cardinality(v) <= n, c \subseteq v
      PROVE  IsFiniteSet(c) /\ Cardinality(c) <= n
  <2>1. IsFiniteSet(c) /\ Cardinality(c) <= Cardinality(v)
    BY <1>2, FS_Subset
  <2>2. Cardinality(c) \in Nat /\ Cardinality(v) \in Nat
    BY <1>2, <2>1, FS_CardinalityType
  <2> QED
    BY <1>2, <2>1, <2>2
<1> QED
  BY <1>1, <1>2 DEF Small

\* No directory ever holds more than the largest bundle.
LEMMA StaysSmall ==
  ASSUME Reliable, NEW n \in Nat, \A b \in Bundles : Size[b] <= n
  PROVE  Spec => [](IInv /\ Small(n))
<1>1. Init => Small(n)
  <2> SUFFICES ASSUME Init PROVE Small(n)
    OBVIOUS
  <2>1. \A r \in Roots, d \in Dirs : dir[r][d] = {} /\ kept[r][d] = {}
    BY DEF Init
  <2> QED
    BY <2>1, FS_EmptySet DEF Small
<1>2. IInv /\ Small(n) /\ [Next]_vars => Small(n)'
  <2> SUFFICES ASSUME IInv, Small(n), [Next]_vars, NEW r \in Roots, NEW d \in Dirs
               PROVE  /\ IsFiniteSet(dir'[r][d]) /\ Cardinality(dir'[r][d]) <= n
                      /\ IsFiniteSet(kept'[r][d]) /\ Cardinality(kept'[r][d]) <= n
    BY DEF Small
  <2>1. IsFiniteSet(kept'[r][d]) /\ Cardinality(kept'[r][d]) <= n
    BY Contents, OldIsSmall
  <2>2. CASE Old(r, dir'[r][d])
    BY <2>1, <2>2, OldIsSmall
  <2>3. CASE StageMember /\ phase' = "stage" /\ r = at /\ d = "new"
    <3>1. Staged' /\ UNCHANGED <<at, set>> /\ phase = "stage"
      BY <2>3, StageMemberInv DEF IInv, Progress, StageMember, Goto
    <3>2. set \in Bundles /\ Size[set] \in Nat /\ Size[set] <= n
      BY <3>1, BundleAssumption DEF IInv, Progress, Installing
    <3> DEFINE c == dir'[at]["new"]
    <3>3. (\A m \in c : m[2] \in 1..Size[set]) /\ (\A m, k \in c : m[2] = k[2] => m = k)
      BY <3>1 DEF Staged
    <3> HIDE DEF c
    <3>4. IsFiniteSet(c) /\ Cardinality(c) <= Size[set]
      BY <3>2, <3>3, MembersFit
    <3>5. Cardinality(c) \in Nat
      BY <3>4, FS_CardinalityType
    <3>6. IsFiniteSet(c) /\ Cardinality(c) <= n
      BY <3>2, <3>4, <3>5
    <3> QED
      BY <2>1, <2>3, <3>6 DEF c
  <2> QED
    BY <2>2, <2>3, Contents
<1>3. Spec => []IInv
  BY Inductive
<1> QED
  BY <1>1, <1>2, <1>3, PTL DEF Spec

\* A failed request never takes the room from the next one: with room for two of
\* the largest sets and the largest estimate, every bundle for the slot that is
\* not selected passes the space check (transaction::preflight) whatever a
\* failed or interrupted request left in the staging slot and in the inactive one.
THEOREM RetryHasRoom ==
  ASSUME Reliable, NEW n \in Nat, NEW w \in Nat,
         \A b \in Bundles : Size[b] <= n, \A b \in Bundles : Need[b] <= w,
         Capacity >= 2 * n + w
  PROVE  Spec => []CanRetry
<1>1. IInv /\ Small(n) => CanRetry
  <2> SUFFICES ASSUME IInv, Small(n), NEW r \in Roots, NEW b \in Bundles
               PROVE  Free(r) + Reclaimable(r) >= Need[b]
    BY DEF CanRetry
  <2>1. \A d \in Dirs : Cardinality(dir[r][d]) \in Nat /\ Cardinality(dir[r][d]) <= n
    BY FS_CardinalityType DEF Small
  <2>2. Need[b] \in Nat /\ Need[b] <= w
    BY BundleAssumption
  <2>3. "A" \in Dirs /\ "B" \in Dirs /\ "new" \in Dirs
    BY DEF Dirs
  <2>4. CASE Other(sel[r]) = "A"
    BY <2>1, <2>2, <2>3, <2>4, CapacityAssumption DEF Free, Reclaimable, Occupied
  <2>5. CASE Other(sel[r]) = "B"
    BY <2>1, <2>2, <2>3, <2>5, CapacityAssumption DEF Free, Reclaimable, Occupied
  <2> QED
    BY <2>4, <2>5 DEF Other
<1> QED
  BY <1>1, StaysSmall, PTL

\* A member is staged or missing.
LEMMA StagedOrMissing ==
  ASSUME Staged, Size[set] \in Nat
  PROVE  /\ Cardinality(dir[at]["new"]) + Cardinality(Missing) = Size[set]
         /\ Cardinality(dir[at]["new"]) \in Nat /\ Cardinality(Missing) \in Nat
<1> DEFINE new == dir[at]["new"]
           there == {m[2] : m \in new}
           f == [m \in new |-> m[2]]
<1>1. /\ \A m \in new : m[2] \in 1..Size[set]
      /\ \A m, k \in new : m[2] = k[2] => m = k
  BY DEF Staged
<1>2. f \in Bijection(new, there)
  BY <1>1 DEF Bijection, Injection, Surjection, IsInjective
<1>3. IsFiniteSet(1..Size[set]) /\ Cardinality(1..Size[set]) = Size[set]
  BY FS_Interval
<1>4. there \subseteq 1..Size[set] /\ Missing = (1..Size[set]) \ there
  BY <1>1 DEF Missing
<1>5. IsFiniteSet(new) /\ Cardinality(new) <= Size[set]
  BY <1>1, MembersFit
<1> HIDE DEF f, there, new
<1>6. Cardinality(there) = Cardinality(new) /\ IsFiniteSet(there)
  <2>1. ExistsBijection(new, there)
    BY <1>2 DEF ExistsBijection
  <2> QED
    BY <1>5, <2>1, FS_Bijection
<1>7. Cardinality((1..Size[set]) \ there) = Cardinality(1..Size[set]) - Cardinality((1..Size[set]) \cap there)
      /\ IsFiniteSet(Missing)
  BY <1>3, <1>4, FS_Difference
<1>8. (1..Size[set]) \cap there = there
  BY <1>4
<1>9. Cardinality(new) \in Nat /\ Cardinality(Missing) \in Nat
  BY <1>5, <1>7, FS_CardinalityType
<1>10. Cardinality(Missing) = Size[set] - Cardinality(new)
  BY <1>3, <1>4, <1>6, <1>7, <1>8
<1> QED
  BY <1>9, <1>10 DEF new

\* docs/boot-set-updates.md: "the request fails before any change".  With room
\* for three of the largest sets and what the check does not count, it goes on
\* only if it does not run out of space, however exact the estimate is.
THEOREM ThreeSetsSuffice ==
  ASSUME Reliable, NEW n \in Nat, \A b \in Bundles : Size[b] <= n,
         Capacity >= 3 * n + Extra
  PROVE  Spec => []HasRoom
<1>1. IInv /\ Small(n) => HasRoom
  <2> SUFFICES ASSUME IInv, Small(n) PROVE HasRoom
    OBVIOUS
  <2>1. \A d \in {"A", "B", "new"} : /\ Cardinality(dir[at][d]) \in Nat
                                     /\ Cardinality(dir[at][d]) <= n
    BY FS_CardinalityType DEF Small, Dirs, IInv, TypeOK
  <2>2. Capacity \in Nat /\ Extra \in Nat
    BY CapacityAssumption, BundleAssumption
  <2>3. CASE phase = "stage"
    <3>1. Staged /\ Size[set] \in Nat /\ Size[set] <= n
      BY <2>3, BundleAssumption DEF IInv, Progress, Installing
    <3>2. /\ Cardinality(dir[at]["new"]) + Cardinality(Missing) = Size[set]
          /\ Cardinality(Missing) \in Nat
      BY <3>1, StagedOrMissing
    <3> QED
      BY <2>1, <2>2, <2>3, <3>1, <3>2 DEF HasRoom, Occupied
  <2>4. CASE phase = "select"
    BY <2>1, <2>2, <2>4 DEF HasRoom, Occupied
  <2> QED
    BY <2>3, <2>4 DEF HasRoom
<1> QED
  BY <1>1, StaysSmall, PTL

-----------------------------------------------------------------------------
(* The refinement: on each boot root the slots and the selector behave    *)
(* like one atomic register of whole, trusted sets.                        *)

\* The key was checked, and a selector is moved only when the last move is
\* durable.
Authorized ==
  /\ Installing => Key[set] = trust
  /\ phase = "select" => ksel[at] = sel[at]

RInv == IInv /\ Authorized

-----------------------------------------------------------------------------
LEMMA AuthorizedStep ==
  ASSUME RInv, [Next]_vars
  PROVE  Authorized'
<1> USE DEF Authorized, Installing
<1>1. CASE UNCHANGED vars
  BY <1>1 DEF RInv, vars, store
<1>2. CASE phase' \in {"idle", "check"}
  BY <1>2
<1>3. CASE Check
  <2>1. /\ UNCHANGED <<dir, sel, kept, ksel, trust>>
        /\ phase' \in {"idle", "check"} \/ (phase' = "space" /\ set' = spool /\ Key[spool] = trust)
    BY <1>3 DEF Check, Reply, Goto, NextRoot, store
  <2> QED
    BY <2>1
<1>4. CASE /\ phase \notin {"idle", "check"} /\ UNCHANGED <<set, trust>>
           /\ phase' # "select"
  BY <1>4 DEF RInv
<1>5. CASE SyncRoot
  BY <1>5 DEF SyncRoot, Goto, RInv, IInv, TypeOK
<1>6. CASE (\E b \in Bundles \cup {NONE} : Spool(b)) \/ (\E k \in Keys : Rekey(k)) \/ Request
  BY <1>6 DEF Spool, Rekey, Request, store, RInv
<1>7. CASE Fail \/ Kill \/ PowerLoss
  BY <1>2, <1>7 DEF Fail, Kill, PowerLoss, Reply
<1>8. CASE SyncSelector
  BY <1>2, <1>4, <1>8 DEF SyncSelector, NextRoot, Reply
<1>9. CASE Preflight \/ Verify \/ Reclaim \/ ClearStage \/ Drop \/ StageMember \/ SyncStage
           \/ Publish \/ Select
  <2>1. /\ phase \notin {"idle", "check"} /\ UNCHANGED <<set, trust>>
        /\ phase' # "select"
    BY <1>9 DEF Preflight, Verify, Reclaim, ClearStage, Drop, Empty, StageMember, SyncStage,
       Publish, Select, Goto, Reply
  <2> QED
    BY <1>4, <2>1
<1> QED
  BY <1>1, <1>3, <1>5, <1>6, <1>7, <1>8, <1>9 DEF Next, Step

THEOREM RInvariance == ASSUME Reliable PROVE Spec => []RInv
<1>1. Init => Authorized
  BY DEF Init, Authorized, Installing
<1>2. RInv /\ [Next]_vars => Authorized'
  BY AuthorizedStep
<1> QED
  BY <1>1, <1>2, Inductive, PTL DEF RInv, Spec

-----------------------------------------------------------------------------
(* The mapping *)

LEMMA InstalledFull ==
  ASSUME NEW b \in Bundles
  PROVE  Installed(Full(b)) = b
<1>1. \A c \in Bundles : Full(b) = Full(c) => b = c
  BY FullType DEF Full
<1> QED
  BY <1>1 DEF Installed

\* What the selected slot of one root boots.
Set(d, s) == IF s = NONE THEN NONE ELSE Installed(d[s])

LEMMA SelectedSet ==
  ASSUME NEW d, NEW s
  PROVE  Selected(d, s) = [r \in Roots |-> Set(d[r], s[r])]
  BY DEF Selected, Set

LEMMA CompleteSet ==
  ASSUME NEW d, NEW s, Complete(d, s)
  PROVE  /\ Set(d, s) \in Bundles \cup {NONE}
         /\ s = NONE => Set(d, s) = NONE
         /\ s # NONE => Set(d, s) \in Bundles /\ Slot[Set(d, s)] = s
  BY InstalledFull DEF Complete, Set

\* Selectors and selected slots that stay keep the register as it is.
LEMMA SameSelected ==
  ASSUME NEW d, NEW s, NEW e, NEW t,
         \A r \in Roots : t[r] = s[r] /\ (s[r] # NONE => e[r][s[r]] = d[r][s[r]])
  PROVE  Selected(e, t) = Selected(d, s)
  BY DEF Selected

Now == Selected(dir, sel)
Saved == Selected(kept, ksel)

LEMMA NowStays ==
  ASSUME sel' = sel, \A r \in Roots : sel[r] # NONE => dir'[r][sel[r]] = dir[r][sel[r]]
  PROVE  Now' = Now
  BY SameSelected DEF Now

LEMMA SavedStays ==
  ASSUME ksel' = ksel, \A r \in Roots : ksel[r] # NONE => kept'[r][ksel[r]] = kept[r][ksel[r]]
  PROVE  Saved' = Saved
  BY SameSelected DEF Saved

\* What a root's current and durable selector boot.
LEMMA RootSets ==
  ASSUME IInv, NEW r \in Roots
  PROVE  /\ Complete(dir[r], sel[r]) /\ Complete(kept[r], ksel[r])
         /\ sel[r] \in Slots \cup {NONE} /\ ksel[r] \in Slots \cup {NONE}
         /\ ksel[r] # NONE => ksel[r] # "new"
         /\ sel[r] # NONE => kept[r][sel[r]] = dir[r][sel[r]]
  BY BundleAssumption DEF IInv, TypeOK, Sound, Durable, Slots

\* Writes to the slot that is not selected and to the staging slot do not show.
LEMMA UnselectedStays ==
  ASSUME IInv, UNCHANGED sel,
         \A r \in Roots, d \in Slots :
           r # at \/ d # Inactive => dir'[r][d] = dir[r][d]
  PROVE  Now' = Now
<1>1. ASSUME NEW r \in Roots, sel[r] # NONE
      PROVE  dir'[r][sel[r]] = dir[r][sel[r]]
  BY <1>1, RootSets, OtherSlot DEF Inactive
<1> QED
  BY <1>1, NowStays

LEMMA SilentSteps ==
  ASSUME IInv,
         \/ Check \/ Preflight \/ Reclaim \/ ClearStage \/ StageMember \/ SyncStage
         \/ Verify \/ Drop \/ Publish \/ Fail \/ Kill \/ Request
         \/ \E b \in Bundles \cup {NONE} : Spool(b)
  PROVE  Now' = Now /\ Saved' = Saved /\ trust' = trust
<1>1. UNCHANGED <<sel, ksel, trust>>
  BY DEF Check, Preflight, Reclaim, ClearStage, Drop, Empty, StageMember, SyncStage, Verify,
     Publish, Fail, Kill, Request, Spool, store
<1>2. ASSUME NEW r \in Roots, NEW d \in Slots, r # at \/ d # Inactive
      PROVE  dir'[r][d] = dir[r][d]
  <2>1. /\ d # "new" /\ at \in Roots /\ "new" \in Dirs /\ Inactive \in Dirs
        /\ dir \in [Roots -> [Dirs -> SUBSET Member]]
    BY SelType DEF Slots, IInv, TypeOK
  <2>2. ASSUME NEW e \in {"new", Inactive}, NEW c, dir' = Put(e, c)
        PROVE  dir'[r][d] = dir[r][d]
    BY <1>2, <2>1, <2>2 DEF Put
  <2>3. CASE dir' = dir
    BY <2>3
  <2>4. CASE Reclaim \/ ClearStage \/ Drop
    <3>1. dir' = dir \/ \E e \in {"new", Inactive}, c \in SUBSET Member : dir' = Put(e, c)
      <4>1. ASSUME NEW e \in {"new", Inactive}, NEW p, NEW q, Empty(p, e, q)
            PROVE  dir' = dir \/ \E c \in SUBSET Member : dir' = Put(e, c)
        BY <2>1, <4>1 DEF Empty
      <4> QED
        BY <2>4, <4>1 DEF Reclaim, ClearStage, Drop
    <3> QED
      BY <2>2, <2>3, <3>1
  <2>5. CASE StageMember
    <3>1. dir' = dir \/ \E i, b : dir' = Put("new", dir[at]["new"] \cup {<<b, i>>})
      BY <2>5 DEF StageMember
    <3> QED
      BY <2>2, <2>3, <3>1
  <2>6. CASE Fail
    <3>1. dir' = dir \/ dir' = Put("new", {})
      BY <2>6 DEF Fail
    <3> QED
      BY <2>2, <2>3, <3>1
  <2>7. CASE Publish
    <3> DEFINE row == [dir[at] EXCEPT ![Inactive] = dir[at]["new"], !["new"] = {}]
    <3>1. dir' = [dir EXCEPT ![at] = row]
      BY <2>1, <2>7 DEF Publish
    <3>2. d \in Dirs /\ dir[at] \in [Dirs -> SUBSET Member]
      BY <2>1 DEF Slots, Dirs
    <3>3. r = at => row[d] = dir[at][d]
      BY <1>2, <2>1, <3>2
    <3> HIDE DEF row
    <3> QED
      BY <2>1, <3>1, <3>3
  <2>8. CASE Check \/ Preflight \/ SyncStage \/ Verify \/ Kill \/ Request
             \/ \E b \in Bundles \cup {NONE} : Spool(b)
    BY <2>3, <2>8 DEF Check, Preflight, SyncStage, Verify, Kill, Request, Spool, store
  <2> QED
    BY <2>4, <2>5, <2>6, <2>7, <2>8
<1>3. ASSUME NEW r \in Roots, ksel[r] # NONE
      PROVE  kept'[r][ksel[r]] = kept[r][ksel[r]]
  <2>1. CASE kept' = kept
    BY <2>1
  <2>2. CASE SyncStage
    BY <1>3, <2>2, RootSets DEF SyncStage, IInv, TypeOK
  <2>3. \/ SyncStage \/ kept' = kept
    BY DEF Check, Preflight, Reclaim, ClearStage, Drop, Empty, StageMember, Verify,
       Publish, Fail, Kill, Request, Spool, store
  <2> QED
    BY <2>1, <2>2, <2>3
<1>4. Now' = Now
  BY <1>1, <1>2, UnselectedStays
<1>5. Saved' = Saved
  BY <1>1, <1>3, SavedStays
<1> QED
  BY <1>1, <1>4, <1>5

\* A saved root: the durable selector becomes the current one.
LEMMA SaveSteps ==
  ASSUME IInv, SyncRoot \/ SyncSelector
  PROVE  Register!Save(at)
<1>1. /\ UNCHANGED <<dir, sel, trust>> /\ at \in Roots
      /\ ksel' = [ksel EXCEPT ![at] = sel[at]]
  BY DEF SyncRoot, SyncSelector, IInv, TypeOK
<1>2. ASSUME NEW r \in Roots
      PROVE  Set(kept'[r], ksel'[r]) = IF r = at THEN Set(dir[r], sel[r]) ELSE Set(kept[r], ksel[r])
  <2>1. ksel'[r] = IF r = at THEN sel[r] ELSE ksel[r]
    BY <1>1 DEF IInv, TypeOK
  <2>2. r # at => kept'[r] = kept[r]
    BY <1>1 DEF SyncRoot, SyncSelector, IInv, TypeOK
  <2>3. CASE SyncRoot /\ r = at /\ sel[r] # NONE
    <3>1. sel[r] \in Dirs /\ sel[r] # Inactive
      BY <2>3, RootSets, OtherSlot DEF Inactive, Slots, Dirs
    <3>2. kept'[r] = [d \in Dirs |-> IF d = Inactive THEN kept[r]["new"] ELSE dir[at][d]]
      BY <2>3, <1>1 DEF SyncRoot, IInv, TypeOK
    <3>3. kept'[r][sel[r]] = dir[r][sel[r]]
      BY <3>1, <3>2, <2>3
    <3> QED
      BY <2>1, <2>3, <3>3 DEF Set
  <2>4. CASE SyncSelector /\ r = at
    BY <2>1, <2>4, RootSets DEF Set, SyncSelector
  <2> QED
    BY <2>1, <2>2, <2>3, <2>4 DEF Set
<1>3. Saved = [r \in Roots |-> Set(kept[r], ksel[r])] /\ Now = [r \in Roots |-> Set(dir[r], sel[r])]
  BY SelectedSet DEF Saved, Now
<1>4. Saved' = [r \in Roots |-> Set(kept'[r], ksel'[r])]
  BY SelectedSet DEF Saved
<1>5. Saved' = [Saved EXCEPT ![at] = Now[at]]
  BY <1>1, <1>2, <1>3, <1>4
<1>6. Now' = Now
  BY <1>1 DEF Now
<1> QED
  BY <1>1, <1>5, <1>6 DEF Register!Save, Now, Saved

\* The selector moves: from a set that is saved to the one just published.
LEMMA SelectStep ==
  ASSUME RInv, Select
  PROVE  Register!Switch(at)
<1>1. /\ UNCHANGED <<dir, kept, ksel, trust>> /\ at \in Roots
      /\ sel' = [sel EXCEPT ![at] = Inactive] /\ sel \in [Roots -> Slots \cup {NONE}]
  BY DEF Select, RInv, IInv, TypeOK
<1>2. /\ set \in Bundles /\ Key[set] = trust /\ Slot[set] = Inactive
      /\ dir[at][Inactive] = Full(set) /\ ksel[at] = sel[at]
  BY DEF Select, RInv, IInv, Progress, Authorized, Installing
<1>3. Now = [r \in Roots |-> Set(dir[r], sel[r])] /\ Saved = [r \in Roots |-> Set(kept[r], ksel[r])]
  BY SelectedSet DEF Now, Saved
<1>4. Now' = [r \in Roots |-> Set(dir[r], sel'[r])] /\ Saved' = Saved
  BY <1>1, SelectedSet DEF Now, Saved
<1>5. Saved[at] = Now[at]
  BY <1>1, <1>2, <1>3, RootSets DEF RInv, Set
<1>6. Now' = [Now EXCEPT ![at] = set]
  <2>1. Set(dir[at], Inactive) = set
    BY <1>2, InstalledFull, OtherSlot DEF Set, Inactive
  <2> QED
    BY <1>1, <1>3, <1>4, <2>1
<1>7. Slot[set] = Register!NextSlot(Now[at])
  <2>1. /\ sel[at] \in Slots \cup {NONE}
        /\ sel[at] = NONE => Now[at] = NONE
        /\ sel[at] # NONE => Now[at] # NONE /\ Slot[Now[at]] = sel[at]
    BY <1>1, <1>3, RootSets, CompleteSet, BundleAssumption DEF RInv
  <2>2. Inactive = IF sel[at] = "A" THEN "B" ELSE "A"
    BY DEF Inactive, Other
  <2>3. NONE # "A"
    BY BundleAssumption DEF Slots
  <2> QED
    BY <1>2, <2>1, <2>2, <2>3 DEF Register!NextSlot
<1> QED
  BY <1>1, <1>2, <1>4, <1>5, <1>6, <1>7 DEF Register!Switch, Now, Saved

\* A power failure leaves on each root what it booted or what was saved.
LEMMA PowerLossStep ==
  ASSUME IInv, PowerLoss
  PROVE  Register!LosePower
<1>1. PICK o : /\ \A r \in Roots : o[r] \in Outcomes(r)
               /\ sel' = [r \in Roots |-> o[r].sel]
               /\ dir' = [r \in Roots |-> o[r].dir]
  BY DEF PowerLoss
<1>2. ksel' = sel' /\ kept' = dir' /\ trust' = trust
  BY DEF PowerLoss
<1>3. ASSUME NEW r \in Roots
      PROVE  /\ Set(dir'[r], sel'[r]) \in {Set(dir[r], sel[r]), Set(kept[r], ksel[r])}
             /\ Set(dir'[r], sel'[r]) \in Bundles \cup {NONE}
  <2>1. /\ sel'[r] = o[r].sel /\ dir'[r] = o[r].dir /\ o[r] \in Outcomes(r)
        /\ o[r].sel \in {sel[r], ksel[r]}
        /\ Journaled /\ o[r].sel # sel[r] => o[r].dir = kept[r]
    BY <1>1 DEF Outcomes
  <2>2. PICK a \in After(kept[r]["A"], dir[r]["A"]),
             b \in After(kept[r]["B"], dir[r]["B"]),
             n \in After(kept[r]["new"], dir[r]["new"]) :
          o[r].dir = [A |-> a, B |-> b, new |-> n]
    BY <2>1 DEF Outcomes
  <2>3. ASSUME NEW s \in Slots, kept[r][s] = dir[r][s]
        PROVE  dir'[r][s] = dir[r][s]
    BY <2>1, <2>2, <2>3, AfterSame DEF Slots
  <2>4. Set(dir'[r], sel'[r]) \in Bundles \cup {NONE}
    BY <2>1, OutcomeSound, CompleteSet
  <2>5. CASE sel'[r] = sel[r]
    <3>1. sel[r] # NONE => dir'[r][sel[r]] = dir[r][sel[r]]
      BY <2>3, RootSets
    <3>2. Set(dir'[r], sel'[r]) = Set(dir[r], sel[r])
      BY <2>5, <3>1 DEF Set
    <3> QED
      BY <2>4, <3>2
  <2>6. CASE sel'[r] # sel[r] /\ Journaled
    <3>1. sel'[r] = ksel[r] /\ dir'[r] = kept[r]
      BY <2>1, <2>6
    <3> QED
      BY <2>4, <3>1
  <2>7. CASE sel'[r] # sel[r] /\ ~Journaled
    <3>1. ksel[r] # NONE => kept[r][ksel[r]] = dir[r][ksel[r]]
      BY <2>7 DEF IInv, Sound, Durable
    <3>2. sel'[r] = ksel[r] /\ (ksel[r] # NONE => dir'[r][ksel[r]] = kept[r][ksel[r]])
      BY <2>1, <2>3, <2>7, <3>1, RootSets
    <3>3. Set(dir'[r], sel'[r]) = Set(kept[r], ksel[r])
      BY <3>2 DEF Set
    <3> QED
      BY <2>4, <3>3
  <2> QED
    BY <2>5, <2>6, <2>7, SwitchAssumption
<1>4. Now = [r \in Roots |-> Set(dir[r], sel[r])] /\ Saved = [r \in Roots |-> Set(kept[r], ksel[r])]
  BY SelectedSet DEF Now, Saved
<1>5. Now' = [r \in Roots |-> Set(dir'[r], sel'[r])] /\ Saved' = Now'
  BY <1>2, SelectedSet DEF Now, Saved
<1>6. /\ Now' \in [Roots -> Bundles \cup {NONE}]
      /\ \A r \in Roots : Now'[r] \in {Now[r], Saved[r]}
  BY <1>3, <1>4, <1>5
<1> QED
  BY <1>2, <1>5, <1>6 DEF Register!LosePower, Register!Roots, Roots, Now, Saved

LEMMA StepRefines ==
  ASSUME RInv, [Next]_vars
  PROVE  [Register!Next]_Register!vars
<1> USE DEF Register!Next, Register!vars
<1>1. IInv /\ at \in Register!Roots
  BY DEF RInv, IInv, TypeOK, Roots, Register!Roots
<1>2. CASE Now' = Now /\ Saved' = Saved /\ trust' = trust
  BY <1>2 DEF Now, Saved
<1>3. CASE UNCHANGED vars
  BY <1>2, <1>3 DEF vars, store, Now, Saved
<1>4. CASE \E k \in Keys : Rekey(k)
  <2>1. UNCHANGED <<dir, sel, kept, ksel>> /\ trust' \in Keys
    BY <1>4 DEF Rekey, store
  <2> QED
    BY <2>1 DEF Register!Rekey, Register!Keys, Keys
<1>5. CASE SyncRoot \/ SyncSelector
  BY <1>1, <1>5, SaveSteps
<1>6. CASE Select
  BY <1>1, <1>6, SelectStep
<1>7. CASE PowerLoss
  BY <1>1, <1>7, PowerLossStep
<1>8. CASE \/ Check \/ Preflight \/ Reclaim \/ ClearStage \/ StageMember \/ SyncStage
           \/ Verify \/ Drop \/ Publish \/ Fail \/ Kill \/ Request
           \/ \E b \in Bundles \cup {NONE} : Spool(b)
  BY <1>1, <1>2, <1>8, SilentSteps
<1> QED
  BY <1>3, <1>4, <1>5, <1>6, <1>7, <1>8 DEF Next, Step

\* On each boot root the slots and the selector implement one atomic register
\* (transaction::install): it changes at once to a whole bundle that the
\* trusted key signed for the other slot, only from a set that is durable, and
\* a power failure takes back at most that change.
THEOREM Refinement == ASSUME Reliable PROVE Spec => ImplementsRegister
<1>1. Init => Register!Init
  <2>1. ASSUME Init
        PROVE  Now = [r \in Roots |-> NONE] /\ Saved = Now
    BY <2>1, SelectedSet DEF Init, Now, Saved, Set
  <2> QED
    BY <2>1 DEF Init, Register!Init, Register!Roots, Roots, Register!Keys, Keys, Now, Saved
<1>2. RInv /\ [Next]_vars => [Register!Next]_Register!vars
  BY StepRefines
<1> QED
  BY <1>1, <1>2, RInvariance, PTL DEF Spec, ImplementsRegister, Register!Spec
=============================================================================
