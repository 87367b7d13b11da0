--------------------------- MODULE KeyVeto_proofs ---------------------------
(* What the run of KeyVeto checks for four keys and two volumes, proved for *)
(* any number of keys and volumes: a key that was read keeps the machine    *)
(* from booting by itself, and no key of the session is lost or overtaken.  *)
EXTENDS KeyVeto, SequenceTheorems, TLAPS

(* Keys on their way to a screen, in the order in which they reach one. *)
InOrder == given \o pending \o queue

Places == Before \cup Polling \cup Ended \cup {"scan"}

Typed ==
  /\ pc \in Places /\ volumes \in 0..MaxVolumes /\ left \in 0..MaxKeys
  /\ {eligible, tap, latched, box, filled, skip, read, early, wanted} \subseteq BOOLEAN
  /\ queue \in Seq(Keys) /\ log \in Seq(Keys) /\ given \in Seq(Keys)
  /\ pending = <<>> \/ \E k \in Keys : pending = <<k>>
  /\ how \in {"none", "instant", "skip", "countdown", "operator"}
  /\ (how # "none") = (pc = "booted")

(* A key is in one place only. *)
Room ==
  /\ Len(given) + Len(pending) + Len(queue) + left <= MaxKeys
  /\ Len(log) + left <= MaxKeys

(* Whatever was read is remembered by the tap or by the session. *)
Remembered == read => tap \/ latched

(* Nothing passes the console before its first event. *)
Silent ==
  /\ ~latched => given = <<>> /\ pending = <<>>
  /\ pc \in Before => ~latched /\ log = <<>>
  /\ pc = "countdown" => ~latched

IInv == Typed /\ Room /\ Remembered /\ Silent /\ ReadKeyVetoes /\ KeysKept

----------------------------------------------------------------------------
(* Lemmas *)

(* A short sequence is one of those that the type invariant lists. *)
LEMMA ShortSequence ==
  ASSUME NEW n \in Nat, NEW s \in Seq(Keys), Len(s) <= n
  PROVE  s \in UpTo(Keys, n)
<1>1. Len(s) \in 0..n /\ s \in [1..Len(s) -> Keys]
  BY LenProperties
<1>. QED
  BY <1>1 DEF UpTo

(* The event that is held back is a sequence of at most one key. *)
LEMMA PendingType == Typed => pending \in Seq(Keys) /\ Len(pending) \in 0..1
<1>1. CASE pending = <<>>
  BY <1>1, EmptySeq
<1>2. ASSUME NEW k \in Keys, pending = <<k>>
      PROVE  pending \in Seq(Keys) /\ Len(pending) \in 0..1
  BY <1>2
<1>. QED
  BY <1>1, <1>2 DEF Typed

(* The kept event comes before what waits: taking either keeps the order.   *)
LEMMA TakeKeeps ==
  ASSUME Typed, NEW k \in Keys, Take(k)
  PROVE  /\ InOrder' = InOrder
         /\ given' \in Seq(Keys) /\ queue' \in Seq(Keys)
         /\ pending' = <<>>
         /\ Len(given') + Len(pending') + Len(queue')
              = Len(given) + Len(pending) + Len(queue)
<1>. DEFINE one == <<k>>
<1>1. given \in Seq(Keys) /\ queue \in Seq(Keys) /\ one \in Seq(Keys) /\ Len(one) = 1
  BY DEF Typed
<1>2. given' = Append(given, k) /\ given' = given \o one /\ given' \in Seq(Keys)
      /\ Len(given') = Len(given) + 1
  BY <1>1, AppendIsConcat, AppendProperties DEF Take
<1>3. given' \o <<>> = given'
  BY <1>2, ConcatEmptySeq
<1>4. CASE pending = <<k>> /\ pending' = <<>> /\ queue' = queue
  <2>1. InOrder = (given \o one) \o queue
    BY <1>4 DEF InOrder
  <2>2. InOrder' = (given' \o <<>>) \o queue
    BY <1>4 DEF InOrder
  <2>3. Len(queue) \in Nat /\ Len(given) \in Nat /\ Len(<<>>) = 0
    BY <1>1, LenProperties
  <2>. QED
    BY <1>1, <1>2, <1>3, <1>4, <2>1, <2>2, <2>3
<1>5. CASE pending = <<>> /\ queue # <<>> /\ k = Head(queue) /\ queue' = Tail(queue)
           /\ pending' = pending
  <2>1. Tail(queue) \in Seq(Keys) /\ Len(Tail(queue)) = Len(queue) - 1
    BY <1>1, <1>5, HeadTailProperties
  <2>2. queue = one \o Tail(queue)
    BY <1>1, <1>5
  <2>3. given \o <<>> = given
    BY <1>1, ConcatEmptySeq
  <2>4. InOrder = given \o (one \o Tail(queue))
    BY <1>5, <2>2, <2>3 DEF InOrder
  <2>5. InOrder' = (given \o one) \o Tail(queue)
    BY <1>2, <1>3, <1>5 DEF InOrder
  <2>6. (given \o one) \o Tail(queue) = given \o (one \o Tail(queue))
    BY <1>1, <2>1, ConcatAssociative
  <2>7. Len(queue) \in Nat /\ Len(given) \in Nat /\ Len(<<>>) = 0
    BY <1>1, LenProperties
  <2>. QED
    BY <1>2, <1>5, <2>1, <2>4, <2>5, <2>6, <2>7
<1>. QED
  BY <1>4, <1>5 DEF Take

----------------------------------------------------------------------------
(* The invariant *)

(* The initial states satisfy the invariant. *)
LEMMA InitInv == Init => IInv
<1>. SUFFICES ASSUME Init PROVE IInv
  OBVIOUS
<1>1. <<>> \in Seq(Keys) /\ Len(<<>>) = 0
  BY EmptySeq
<1>2. Typed
  <2>1. pc \in Places /\ volumes \in 0..MaxVolumes /\ how = "none" /\ pc # "booted"
    BY DEF Init, Places, Before
  <2>2. left \in 0..MaxKeys
    BY MaxKeysAssumption DEF Init
  <2>3. {eligible, tap, latched, box, filled, skip, read, early, wanted} \subseteq BOOLEAN
    BY DEF Init
  <2>4. queue \in Seq(Keys) /\ log \in Seq(Keys) /\ given \in Seq(Keys) /\ pending = <<>>
    BY <1>1 DEF Init
  <2>. QED
    BY <2>1, <2>2, <2>3, <2>4 DEF Typed
<1>3. Room
  <2>1. Len(given) = 0 /\ Len(pending) = 0 /\ Len(queue) = 0 /\ Len(log) = 0 /\ left = MaxKeys
    BY <1>1 DEF Init
  <2>. QED
    BY <2>1, MaxKeysAssumption DEF Room
<1>. QED
  BY <1>2, <1>3 DEF Init, IInv, Remembered, Silent, ReadKeyVetoes, KeysKept, Before

(* A key pressed by the operator. *)
LEMMA PressStep ==
  ASSUME IInv, NEW k \in Keys, Press(k)
  PROVE  IInv'
<1>. USE DEF IInv
<1>1. queue \in Seq(Keys) /\ log \in Seq(Keys) /\ given \in Seq(Keys) /\ pending \in Seq(Keys)
      /\ Len(queue) \in Nat /\ Len(log) \in Nat /\ Len(given) \in Nat /\ Len(pending) \in Nat
      /\ left \in Nat
  BY PendingType, LenProperties DEF Typed
<1>2. /\ left' = left - 1 /\ queue' = Append(queue, k) /\ left > 0 /\ pc \notin Ended
      /\ log' = IF pc \in Before THEN log ELSE Append(log, k)
      /\ UNCHANGED <<pc, given, pending, latched, tap, read, how>>
      /\ early' \in BOOLEAN
  BY DEF Press, console, Typed
<1>3. /\ queue' \in Seq(Keys) /\ Len(queue') = Len(queue) + 1
      /\ log' \in Seq(Keys) /\ Len(log') \in {Len(log), Len(log) + 1}
  BY <1>1, <1>2, AppendProperties
<1>4. Typed'
  <2>1. UNCHANGED <<volumes, eligible, box, filled, skip, wanted>>
    BY DEF Press, prompt
  <2>2. left' \in 0..MaxKeys
    <3>1. left \in 0..MaxKeys /\ left > 0 /\ left' = left - 1
      BY <1>2 DEF Typed
    <3>. QED
      BY <3>1, MaxKeysAssumption
  <2>3. pending' = <<>> \/ \E j \in Keys : pending' = <<j>>
    BY <1>2 DEF Typed
  <2>4. queue' \in Seq(Keys) /\ log' \in Seq(Keys) /\ given' \in Seq(Keys)
    BY <1>1, <1>2, <1>3
  <2>. QED
    BY <1>2, <2>1, <2>2, <2>3, <2>4 DEF Typed
<1>5. Room'
  <2>1. Len(given') = Len(given) /\ Len(pending') = Len(pending)
    BY <1>2
  <2>2. Len(log') <= Len(log) + 1 /\ Len(log') \in Nat
    BY <1>1, <1>3
  <2>3. left > 0 /\ left' = left - 1 /\ Len(queue') = Len(queue) + 1
    BY <1>2, <1>3
  <2>4. Len(given) + Len(pending) + Len(queue) + left <= MaxKeys /\ Len(log) + left <= MaxKeys
    BY DEF Room
  <2>5. Len(given') + Len(pending') + Len(queue') + left' <= MaxKeys
    BY <1>1, <2>1, <2>3, <2>4, MaxKeysAssumption
  <2>6. Len(log') + left' <= MaxKeys
    BY <1>1, <2>2, <2>3, <2>4, MaxKeysAssumption
  <2>. QED
    BY <2>5, <2>6 DEF Room
<1>6. KeysKept'
  <2>. SUFFICES ASSUME pc \notin Before \cup {"left"} PROVE InOrder' = log'
    BY <1>2 DEF KeysKept, InOrder
  <2>1. given \o pending \in Seq(Keys)
    BY <1>1, ConcatProperties
  <2>2. InOrder' = (given \o pending) \o (queue \o <<k>>)
    BY <1>1, <1>2, AppendIsConcat DEF InOrder
  <2>3. InOrder' = ((given \o pending) \o queue) \o <<k>>
    BY <1>1, <2>1, <2>2, ConcatAssociative
  <2>4. log = (given \o pending) \o queue
    BY DEF KeysKept
  <2>5. log' = log \o <<k>>
    BY <1>1, <1>2, AppendIsConcat
  <2>. QED
    BY <2>3, <2>4, <2>5
<1>. QED
  BY <1>2, <1>4, <1>5, <1>6 DEF Remembered, Silent, ReadKeyVetoes, Ended

(* The tap drains the line, or raw mode discards it. *)
LEMMA DrainStep ==
  ASSUME IInv, TapPoll \/ Disarm \/ OpenConsole
  PROVE  IInv'
<1>. USE DEF IInv
<1>1. /\ queue' = <<>> /\ pc \in Before /\ pc' \in {"drivers", "opened", "wait"}
      /\ UNCHANGED <<eligible, left, log, early, volumes, latched, pending, given>>
      /\ UNCHANGED <<box, filled, skip, wanted, how>>
      /\ \/ UNCHANGED <<tap, read>>
         \/ tap' = (tap \/ queue # <<>>) /\ read' = (read \/ queue # <<>>)
  BY DEF TapPoll, Disarm, OpenConsole, Drain, fixed, console, prompt, Before
<1>2. <<>> \in Seq(Keys) /\ Len(<<>>) = 0 /\ Len(queue) \in Nat /\ Len(given) \in Nat
      /\ Len(pending) \in Nat /\ left \in Nat
  BY EmptySeq, PendingType, LenProperties DEF Typed
<1>3. tap' \in BOOLEAN /\ read' \in BOOLEAN
  BY <1>1 DEF Typed
<1>4. Typed'
  <2>1. pc' \in Places /\ how' = "none" /\ pc' # "booted"
    BY <1>1 DEF Typed, Places, Before, Polling, Ended
  <2>. QED
    BY <1>1, <1>2, <1>3, <2>1 DEF Typed
<1>5. Room'
  <2>1. Len(given') = Len(given) /\ Len(pending') = Len(pending) /\ Len(queue') = 0
        /\ Len(log') = Len(log) /\ left' = left
    BY <1>1, <1>2
  <2>2. Len(log) \in Nat
    BY LenProperties DEF Typed
  <2>. QED
    BY <1>2, <2>1, <2>2, MaxKeysAssumption DEF Room
<1>6. KeysKept'
  <2>1. given = <<>> /\ pending = <<>> /\ log = <<>>
    BY <1>1 DEF Silent
  <2>2. (<<>> \o <<>>) \o <<>> = <<>>
    BY <1>2, ConcatEmptySeq
  <2>. QED
    BY <1>1, <2>1, <2>2 DEF KeysKept
<1>7. Remembered' /\ Silent'
  <2>1. latched' = latched /\ (read => tap \/ latched)
    BY <1>1 DEF Remembered
  <2>2. ASSUME UNCHANGED <<tap, read>> PROVE read' => tap' \/ latched'
    <3>1. tap' = tap /\ read' = read
      BY <2>2
    <3>. QED
      BY <2>1, <3>1
  <2>3. ASSUME tap' = (tap \/ queue # <<>>), read' = (read \/ queue # <<>>)
        PROVE  read' => tap' \/ latched'
    BY <2>1, <2>3, Zenon
  <2>4. Silent'
    BY <1>1 DEF Silent
  <2>. QED
    BY <1>1, <2>2, <2>3, <2>4 DEF Remembered
<1>8. ReadKeyVetoes'
  BY <1>1 DEF ReadKeyVetoes, Typed, Before
<1>. QED
  BY <1>4, <1>5, <1>6, <1>7, <1>8

(* The first event of the session. *)
LEMMA NoticeStep ==
  ASSUME IInv, Notice
  PROVE  IInv'
<1>. USE DEF IInv
<1>. DEFINE first == <<Head(queue)>>
<1>1. /\ pc \in Polling /\ ~latched /\ queue # <<>> /\ latched' = TRUE /\ read' = TRUE
      /\ pending' = first /\ queue' = Tail(queue) /\ pc' \in {pc, "menu"} /\ pc' # "countdown"
      /\ UNCHANGED <<eligible, left, log, early, volumes, tap, given, box, filled, skip, wanted, how>>
  BY DEF Notice, fixed, prompt
<1>2. /\ queue \in Seq(Keys) /\ given = <<>> /\ pending = <<>> /\ left \in Nat
      /\ Len(queue) \in Nat /\ Len(<<>>) = 0 /\ <<>> \in Seq(Keys)
  BY <1>1, EmptySeq, LenProperties DEF Typed, Silent
<1>3. /\ Head(queue) \in Keys /\ Tail(queue) \in Seq(Keys) /\ Len(Tail(queue)) = Len(queue) - 1
      /\ Len(first) = 1
  BY <1>1, <1>2, HeadTailProperties
<1>4. Typed'
  <2>1. pc' \in Places /\ pc' # "booted" /\ pc # "booted"
    BY <1>1 DEF Places, Polling
  <2>. QED
    BY <1>1, <1>2, <1>3, <2>1 DEF Typed
<1>5. Room'
  BY <1>1, <1>2, <1>3 DEF Room
<1>6. KeysKept'
  <2>1. first \in Seq(Keys) /\ queue = first \o Tail(queue)
    BY <1>1, <1>2, <1>3
  <2>2. (<<>> \o first) \o Tail(queue) = (<<>> \o <<>>) \o queue
    BY <1>2, <2>1, ConcatEmptySeq
  <2>3. pc \notin Before \cup {"left"}
    BY <1>1 DEF Polling, Before
  <2>. QED
    BY <1>1, <1>2, <2>2, <2>3 DEF KeysKept
<1>7. how' = "none"
  BY <1>1 DEF Typed, Polling
<1>8. pc' \notin Before
  BY <1>1 DEF Polling, Before
<1>. QED
  BY <1>1, <1>4, <1>5, <1>6, <1>7, <1>8 DEF Remembered, Silent, ReadKeyVetoes

(* A screen takes a key. *)
LEMMA ScreenStep ==
  ASSUME IInv, NEW k \in Keys, Tick(k) \/ Prompt(k) \/ Verify(k) \/ WrongModal(k) \/ Menu(k)
  PROVE  IInv'
<1>. USE DEF IInv
<1>1. /\ Take(k) /\ pc \in {"wait", "prompt", "verify", "wrong", "menu"}
      /\ pc' \in {pc, "left", "verify", "prompt", "booted"}
      /\ how' = IF pc' = "booted" THEN "operator" ELSE how
      /\ UNCHANGED <<eligible, left, log, early, volumes, tap>>
      /\ {box', filled', skip', wanted'} \subseteq BOOLEAN
  BY DEF Tick, Prompt, Verify, WrongModal, Menu, Boot, fixed, prompt, Typed
<1>2. latched /\ latched' /\ read' = TRUE
  BY <1>1 DEF Take
<1>3. /\ InOrder' = InOrder /\ given' \in Seq(Keys) /\ queue' \in Seq(Keys) /\ pending' = <<>>
      /\ Len(given') + Len(pending') + Len(queue') = Len(given) + Len(pending) + Len(queue)
  BY <1>1, TakeKeeps
<1>4. Typed'
  <2>1. how = "none" /\ pc' \in Places
    BY <1>1 DEF Typed, Places, Before, Polling, Ended
  <2>2. latched' \in BOOLEAN
    BY <1>1 DEF Take, Typed
  <2>. QED
    BY <1>1, <1>2, <1>3, <2>1, <2>2 DEF Typed
<1>5. Room'
  BY <1>1, <1>3 DEF Room
<1>6. KeysKept'
  <2>1. pc \notin Before \cup {"left"}
    BY <1>1 DEF Before
  <2>. QED
    BY <1>1, <1>3, <2>1 DEF KeysKept, InOrder
<1>7. how' \notin {"instant", "countdown"}
  BY <1>1 DEF Typed
<1>8. pc' \notin Before \cup {"countdown"}
  BY <1>1 DEF Before
<1>. QED
  BY <1>2, <1>4, <1>5, <1>6, <1>7, <1>8 DEF Remembered, Silent, ReadKeyVetoes

(* Steps that read no key. *)
LEMMA QuietStep ==
  ASSUME IInv,
         Fail \/ Activate \/ VolumeOpens \/ WrongPassword \/ PhasesEnd \/ Decide \/ Expire
         \/ UNCHANGED vars
  PROVE  IInv'
<1>. USE DEF IInv
<1>1. /\ UNCHANGED <<eligible, left, log, early, queue, tap, latched, pending, given, read>>
      /\ {box', filled', skip', wanted'} \subseteq BOOLEAN
  BY DEF Fail, Activate, VolumeOpens, WrongPassword, PhasesEnd, Decide, Expire, vars,
         fixed, console, prompt, Typed
<1>2. volumes' \in 0..MaxVolumes
  <2>1. volumes' = volumes \/ (volumes > 0 /\ volumes' = volumes - 1)
    BY DEF Fail, Activate, VolumeOpens, WrongPassword, PhasesEnd, Decide, Expire, vars
  <2>. QED
    BY <2>1, MaxVolumesAssumption DEF Typed
<1>3. \/ pc' = pc /\ how' = how
      \/ /\ pc' \in Places \ (Before \cup {"booted", "countdown"}) /\ how' = how
         /\ pc \notin Ended /\ (pc \in Before => pc' = "left")
      \/ pc' = "countdown" /\ ~latched /\ how' = how /\ pc = "scan"
      \/ pc' = "booted" /\ pc = "scan" /\ how' \in {"skip", "instant"}
         /\ (how' = "instant" => ~tap /\ ~latched)
      \/ pc' = "booted" /\ pc = "countdown" /\ how' = "countdown"
  <2>. USE DEF Places, Before, Polling, Ended
  <2>1. CASE Fail
    BY <2>1 DEF Fail
  <2>2. CASE Activate
    BY <2>2 DEF Activate
  <2>3. CASE VolumeOpens
    BY <2>3 DEF VolumeOpens
  <2>4. CASE WrongPassword
    BY <2>4 DEF WrongPassword
  <2>5. CASE PhasesEnd
    BY <2>5 DEF PhasesEnd
  <2>6. CASE Decide
    <3>1. pc = "scan"
      BY <2>6 DEF Decide
    <3>2. CASE Instant /\ Boot("instant")
      <4>1. ~tap /\ ~latched
        BY <3>2 DEF Instant
      <4>. QED
        BY <3>1, <3>2, <4>1 DEF Boot
    <3>3. CASE Boot("skip")
      BY <3>1, <3>3 DEF Boot
    <3>4. CASE UNCHANGED how /\ pc' = IF latched THEN "menu" ELSE "countdown"
      BY <3>1, <3>4
    <3>. QED
      BY <2>6, <3>2, <3>3, <3>4 DEF Decide
  <2>7. CASE Expire
    BY <2>7 DEF Expire, Boot
  <2>8. CASE UNCHANGED vars
    BY <2>8 DEF vars
  <2>. QED
    BY <2>1, <2>2, <2>3, <2>4, <2>5, <2>6, <2>7, <2>8
<1>4. Typed'
  <2>1. pc' \in Places
    BY <1>3 DEF Typed, Places, Polling, Ended
  <2>2. how' \in {"none", "instant", "skip", "countdown", "operator"}
        /\ (how' # "none") = (pc' = "booted")
    BY <1>3 DEF Typed, Ended
  <2>. QED
    BY <1>1, <1>2, <2>1, <2>2 DEF Typed
<1>5. KeysKept' /\ Silent'
  <2>1. pc' \in Before => pc \in Before
    BY <1>3 DEF Before
  <2>2. pc' = "countdown" => ~latched
    BY <1>3 DEF Silent
  <2>3. Silent'
    BY <1>1, <2>1, <2>2 DEF Silent
  <2>4. pc' \notin Before \cup {"left"} => pc \notin Before \cup {"left"}
    BY <1>3 DEF Before, Ended
  <2>5. KeysKept'
    BY <1>1, <2>4 DEF KeysKept
  <2>. QED
    BY <2>3, <2>5
<1>6. ReadKeyVetoes'
  <2>1. <<>> \o <<>> = <<>>
    BY EmptySeq, ConcatEmptySeq
  <2>. QED
    BY <1>1, <1>3, <2>1 DEF ReadKeyVetoes, Remembered, Silent, Typed
<1>. QED
  BY <1>1, <1>4, <1>5, <1>6 DEF Room, Remembered

----------------------------------------------------------------------------
(* Theorems *)

(* The invariant holds in every reachable state. *)
THEOREM Invariant == Spec => []IInv
<1>1. IInv /\ [Next]_vars => IInv'
  BY PressStep, DrainStep, NoticeStep, ScreenStep, QuietStep DEF Next, Program
<1>. QED
  BY InitInv, <1>1, PTL DEF Spec

(* The state stays well typed: no key is counted twice. *)
THEOREM TypeCorrect == Spec => []TypeOK
<1>1. IInv => TypeOK
  <2>. SUFFICES ASSUME IInv PROVE TypeOK
    OBVIOUS
  <2>1. /\ Len(queue) \in Nat /\ Len(log) \in Nat /\ Len(given) \in Nat
        /\ Len(pending) \in 0..1 /\ pending \in Seq(Keys) /\ left \in Nat
    BY PendingType, LenProperties DEF IInv, Typed
  <2>2. Len(queue) <= MaxKeys /\ Len(log) <= MaxKeys /\ Len(given) <= MaxKeys
    BY <2>1, MaxKeysAssumption DEF IInv, Room
  <2>3. queue \in UpTo(Keys, MaxKeys) /\ log \in UpTo(Keys, MaxKeys)
        /\ given \in UpTo(Keys, MaxKeys) /\ pending \in UpTo(Keys, 1)
    <3>1. queue \in Seq(Keys) /\ log \in Seq(Keys) /\ given \in Seq(Keys)
      BY DEF IInv, Typed
    <3>2. MaxKeys \in Nat /\ 1 \in Nat
      BY MaxKeysAssumption
    <3>3. \A n \in Nat, s \in Seq(Keys) : Len(s) <= n => s \in UpTo(Keys, n)
      BY ShortSequence
    <3>4. pending \in UpTo(Keys, 1)
      <4>1. \A m \in 0..1 : m <= 1
        OBVIOUS
      <4>2. pending \in Seq(Keys) /\ Len(pending) \in 0..1
        BY PendingType DEF IInv
      <4>. QED
        BY <3>2, <3>3, <4>1, <4>2, Zenon
    <3>. QED
      BY <2>2, <3>1, <3>2, <3>3, <3>4
  <2>. QED
    BY <2>3 DEF IInv, Typed, TypeOK, Places
<1>. QED
  BY Invariant, <1>1, PTL

(* A key that was read, on any screen and before any, keeps the instant     *)
(* boot and the countdown away, for any number of keys and volumes.         *)
THEOREM ReadKeyCounts == Spec => []ReadKeyVetoes
<1>1. IInv => ReadKeyVetoes
  BY DEF IInv
<1>. QED
  BY Invariant, <1>1, PTL

(* The screens of a session get its keys in the order they were pressed and *)
(* none is lost, for any number of keys and screens.                        *)
THEOREM NoKeyLost == Spec => []KeysKept
<1>1. IInv => KeysKept
  BY DEF IInv
<1>. QED
  BY Invariant, <1>1, PTL
=============================================================================
