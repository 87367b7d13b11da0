------------------------------ MODULE BootSet ------------------------------
(***************************************************************************)
(* Whole boot-set updates (nmbl-boot-update): every boot root holds the    *)
(* slots A and B and a selector file that GRUB reads.  The service takes   *)
(* one request at a time and installs the spooled bundle on one boot root  *)
(* (mirror) after the other: it verifies the bundle, makes room, stages    *)
(* the inactive slot, verifies it again from disk, publishes it and only   *)
(* then moves the selector.                                                *)
(*                                                                         *)
(* A directory operation is durable once the directory is synced.  Until   *)
(* then a power failure may undo any part of it; on a file system without  *)
(* a journal also a part that is older than one that persists.  The        *)
(* service may die at any step while the system stays up.                  *)
(***************************************************************************)
EXTENDS Naturals, FiniteSets

CONSTANTS Bundles,       \* the signed bundles that were ever prepared
          NONE,          \* no selector, no bundle
          Slot,          \* the slot a bundle targets
          Key,           \* the key that signed it
          Size,          \* the members of a bundle, each a unit of space on disk
          Need,          \* the units that the check before staging takes it for
          Extra,         \* the units that an installation takes besides: for the
                         \* staging directory and the temporary selector
          NRoots,        \* the number of boot roots
          Capacity,      \* the units of space on each boot root
          Journaled,     \* the boot file systems persist changes in order
          LateFailure,   \* the service may fail between moving the selector
                         \* and syncing it
          MutableSpool   \* the spool's owner may change a bundle in flight

Keys == {Key[b] : b \in Bundles}
Slots == {"A", "B"}

\* The boot roots, in the order in which the service is given them.
Roots == 1..NRoots

ASSUME BundleAssumption ==
  /\ NONE \notin Bundles \cup Slots
  /\ Slot \in [Bundles -> Slots]
  /\ Size \in [Bundles -> Nat] /\ \A b \in Bundles : Size[b] > 0
  /\ Need \in [Bundles -> Nat] /\ Extra \in Nat
ASSUME RootsAssumption == NRoots \in Nat /\ NRoots > 0
ASSUME CapacityAssumption == Capacity \in Nat
ASSUME SwitchAssumption ==
  Journaled \in BOOLEAN /\ LateFailure \in BOOLEAN /\ MutableSpool \in BOOLEAN

VARIABLES
  dir,     \* what is in the slots and in the staging slot of each root
  sel,     \* the slot each root's selector names
  kept,    \* of dir, what a power failure cannot undo
  ksel,    \* of sel, the same
  spool,   \* the bundle in the spool; NONE if it is not a valid one
  trust,   \* the public key the service verifies with
  phase,   \* what the service does next
  at,      \* the root it works on
  set,     \* the bundle it verified and holds open
  answer   \* the response to the latest request

store == <<dir, sel, kept, ksel>>
vars == <<store, spool, trust, phase, at, set, answer>>

Dirs == {"A", "B", "new"}

\* The member i of a bundle; one that was spoilt is nobody's.
Member == (Bundles \cup {NONE}) \X Nat

Phases == {"idle", "check", "space", "reclaim", "clear", "stage", "syncstage",
           "verify", "drop", "publish", "syncroot", "select", "syncsel"}

TypeOK ==
  /\ dir \in [Roots -> [Dirs -> SUBSET Member]]
  /\ kept \in [Roots -> [Dirs -> SUBSET Member]]
  /\ sel \in [Roots -> Slots \cup {NONE}]
  /\ ksel \in [Roots -> Slots \cup {NONE}]
  /\ spool \in Bundles \cup {NONE}
  /\ trust \in Keys
  /\ phase \in Phases
  /\ at \in Roots
  /\ set \in Bundles \cup {NONE}
  /\ answer \in {"none", "ok", "error"}

-----------------------------------------------------------------------------
Full(b) == {b} \X (1..Size[b])

\* validate::bundle on a directory with contents c accepts the bundle b.
Valid(c, b) == Full(b) \subseteq c /\ Key[b] = trust

Other(s) == IF s = "A" THEN "B" ELSE "A"
Inactive == Other(sel[at])

Occupied(d) == Cardinality(d["A"]) + Cardinality(d["B"]) + Cardinality(d["new"])

\* preflight: the free space, and what the inactive slot would give back.  The
\* members alone are counted, on disk and of the bundle.
\* Deviation of Reclaimable: the inactive slot is not counted.
Free(r) == Capacity - Occupied(dir[r])
ReclaimNothing(r) == 0
Reclaimable(r) == Cardinality(dir[r][Other(sel[r])])

Put(d, c) == [dir EXCEPT ![at][d] = c]

Goto(p) == phase' = p /\ UNCHANGED <<at, answer>>

Reply(a) == phase' = "idle" /\ answer' = a /\ UNCHANGED at

\* Deviation of NextRoot: one root is enough.
NextRootFirstOnly == Reply("ok")

\* This root is done: the next one, or the response.
NextRoot ==
  IF at + 1 \in Roots
  THEN phase' = "check" /\ at' = at + 1 /\ UNCHANGED answer
  ELSE Reply("ok")

Init ==
  /\ dir = [r \in Roots |-> [d \in Dirs |-> {}]] /\ kept = dir
  /\ sel = [r \in Roots |-> NONE] /\ ksel = sel
  /\ spool = NONE /\ trust \in Keys
  /\ phase = "idle" /\ at = 1 /\ set = NONE /\ answer = "none"

-----------------------------------------------------------------------------
(* The outside *)

\* The spool belongs to the unprivileged user.
Spool(b) ==
  /\ phase = "idle" \/ MutableSpool
  /\ spool' = b
  /\ UNCHANGED <<store, trust, phase, at, set, answer>>

\* A new system configuration restarts the service with another key.
Rekey(k) ==
  /\ phase = "idle"
  /\ trust' = k
  /\ UNCHANGED <<store, spool, phase, at, set, answer>>

Request ==
  /\ phase = "idle"
  /\ phase' = "check" /\ at' = 1 /\ answer' = "none"
  /\ UNCHANGED <<store, spool, trust, set>>

-----------------------------------------------------------------------------
(* transaction::install on the root `at` *)

\* The selected slot is the bundle already.
Unchanged == sel[at] # NONE /\ Valid(dir[at][sel[at]], spool)

Check ==
  /\ phase = "check"
  /\ IF spool = NONE \/ Key[spool] # trust
     THEN Reply("error") /\ UNCHANGED set
     ELSE /\ set' = spool
          /\ IF Unchanged THEN NextRoot
             ELSE IF Slot[spool] # Inactive THEN Reply("error")
             ELSE Goto("space")
  /\ UNCHANGED <<store, spool, trust>>

\* Deviation of Preflight: the space of the inactive slot counts, but is not
\* reclaimed.
PreflightBlind ==
  /\ phase = "space"
  /\ IF Free(at) + Reclaimable(at) >= Need[set] THEN Goto("clear")
     ELSE Reply("error")
  /\ UNCHANGED <<store, spool, trust, set>>
Preflight ==
  /\ phase = "space"
  /\ IF Free(at) >= Need[set] THEN Goto("clear")
     ELSE IF Free(at) + Reclaimable(at) >= Need[set] THEN Goto("reclaim")
     ELSE Reply("error")
  /\ UNCHANGED <<store, spool, trust, set>>

\* remove_dir_all, one member at a time.
Empty(p, d, q) ==
  /\ phase = p
  /\ IF dir[at][d] = {} THEN Goto(q) /\ UNCHANGED dir
     ELSE /\ \E m \in dir[at][d] : dir' = Put(d, dir[at][d] \ {m})
          /\ Goto(p)
  /\ UNCHANGED <<sel, kept, ksel, spool, trust, set>>

Reclaim == Empty("reclaim", Inactive, "clear")
ClearStage == Empty("clear", "new", "stage")
Drop == Empty("drop", Inactive, "publish")

\* The next member, the manifest first.  The manifest and the signatures come
\* from memory; the bytes behind an open file may change under the service.  A
\* member for which there is no room cannot be written.
Missing == {i \in 1..Size[set] : \A m \in dir[at]["new"] : m[2] # i}

StageMember ==
  /\ phase = "stage"
  /\ IF Missing = {} THEN Goto("syncstage") /\ UNCHANGED dir
     ELSE /\ Occupied(dir[at]) < Capacity
          /\ \E i \in Missing, b \in {set, NONE} :
               /\ \A j \in Missing : i <= j
               /\ b = NONE => MutableSpool /\ i > 1
               /\ dir' = Put("new", dir[at]["new"] \cup {<<b, i>>})
          /\ Goto("stage")
  /\ UNCHANGED <<sel, kept, ksel, spool, trust, set>>

SyncStage ==
  /\ phase = "syncstage" /\ Goto("verify")
  /\ kept' = [kept EXCEPT ![at]["new"] = dir[at]["new"]]
  /\ UNCHANGED <<dir, sel, ksel, spool, trust, set>>

\* Deviation of Verify: what was verified before copying is not verified again.
VerifyOnce ==
  /\ phase = "verify" /\ Goto("drop")
  /\ UNCHANGED <<store, spool, trust, set>>
Verify ==
  /\ phase = "verify"
  /\ IF \E b \in Bundles : Valid(dir[at]["new"], b) THEN Goto("drop")
     ELSE Reply("error")
  /\ UNCHANGED <<store, spool, trust, set>>

Publish ==
  /\ phase = "publish" /\ Goto("syncroot")
  /\ dir' = [dir EXCEPT ![at][Inactive] = dir[at]["new"], ![at]["new"] = {}]
  /\ UNCHANGED <<sel, kept, ksel, spool, trust, set>>

\* Deviation of SyncRoot: the selector is moved before the slot is durable.
SyncRootSkipped ==
  /\ phase = "syncroot" /\ Goto("select")
  /\ UNCHANGED <<store, spool, trust, set>>

\* The names in the root are durable, and of the published slot what was
\* synced before.
SyncRoot ==
  /\ phase = "syncroot" /\ Goto("select")
  /\ kept' = [kept EXCEPT ![at] =
                [d \in Dirs |-> IF d = Inactive THEN @["new"] ELSE dir[at][d]]]
  /\ ksel' = [ksel EXCEPT ![at] = sel[at]]
  /\ UNCHANGED <<dir, sel, spool, trust, set>>

\* Deviation of Select: the selector names the staging slot.
SelectStage ==
  /\ phase = "select" /\ Goto("syncsel")
  /\ sel' = [sel EXCEPT ![at] = "new"]
  /\ UNCHANGED <<dir, kept, ksel, spool, trust, set>>

\* write_selector: a temporary file takes the selector's place.
Select ==
  /\ phase = "select" /\ Goto("syncsel")
  /\ Occupied(dir[at]) + Extra <= Capacity
  /\ sel' = [sel EXCEPT ![at] = Inactive]
  /\ UNCHANGED <<dir, kept, ksel, spool, trust, set>>

SyncSelector ==
  /\ phase = "syncsel" /\ NextRoot
  /\ ksel' = [ksel EXCEPT ![at] = sel[at]]
  /\ UNCHANGED <<dir, sel, kept, spool, trust, set>>

Step ==
  \/ Check \/ Preflight \/ Reclaim \/ ClearStage \/ StageMember \/ SyncStage
  \/ Verify \/ Drop \/ Publish \/ SyncRoot \/ Select \/ SyncSelector

-----------------------------------------------------------------------------
(* Failures *)

Failing == phase # "idle" /\ (phase = "syncsel" => LateFailure)

\* An operation returns an error; a failed staging is cleaned up.
Fail ==
  /\ Failing /\ Reply("error")
  /\ dir' = IF phase = "stage" THEN Put("new", {}) ELSE dir
  /\ UNCHANGED <<sel, kept, ksel, spool, trust, set>>

\* The service dies and is restarted; the request has no response.
Kill ==
  /\ Failing
  /\ phase' = "idle" /\ answer' = "none"
  /\ UNCHANGED <<store, spool, trust, at, set>>

\* What a power failure may leave of a directory that held k durably and v in
\* the end: members that were there both times stay.
After(k, v) == {c \in (SUBSET k) \cup (SUBSET v) : k \cap v \subseteq c}

\* A rename happened in both directories or in none, and freed space is reused
\* only once the removal that freed it is durable.
Outcomes(r) ==
  {o \in [sel : {sel[r], ksel[r]},
          dir : {[A |-> a, B |-> b, new |-> n] :
                   a \in After(kept[r]["A"], dir[r]["A"]),
                   b \in After(kept[r]["B"], dir[r]["B"]),
                   n \in After(kept[r]["new"], dir[r]["new"])}] :
     /\ \A s \in Slots : o.dir[s] \subseteq kept[r][s] \/ o.dir["new"] \subseteq dir[r]["new"]
     /\ Occupied(o.dir) <= Capacity
     /\ Journaled /\ o.sel # sel[r] => o.dir = kept[r]}

PowerLoss ==
  /\ \E o \in [Roots -> UNION {Outcomes(r) : r \in Roots}] :
       /\ \A r \in Roots : o[r] \in Outcomes(r)
       /\ sel' = [r \in Roots |-> o[r].sel]
       /\ dir' = [r \in Roots |-> o[r].dir]
  /\ ksel' = sel' /\ kept' = dir'
  /\ phase' = "idle"
  /\ answer' = IF phase = "idle" THEN answer ELSE "none"
  /\ UNCHANGED <<spool, trust, at, set>>

Next ==
  \/ \E b \in Bundles \cup {NONE} : Spool(b)
  \/ \E k \in Keys : Rekey(k)
  \/ Request \/ Step \/ Fail \/ Kill \/ PowerLoss

Spec == Init /\ [][Next]_vars

-----------------------------------------------------------------------------
(* Properties *)

\* docs/boot-set-updates.md: "the selector cannot point at a mixture of two
\* sets", and the selected slot "stays selected and bootable": at any time, so
\* also after any power failure, it holds one complete bundle made for it.
SelectedBootable ==
  \A r \in Roots : sel[r] # NONE =>
    \E b \in Bundles : Slot[b] = sel[r] /\ dir[r][sel[r]] = Full(b)

\* A request that was answered OK is installed on every boot root, and no power
\* failure takes it back, until the next request.
AcknowledgedIsInstalled ==
  answer = "ok" =>
    \A r \in Roots : sel[r] # NONE /\ dir[r][sel[r]] = Full(set)

\* docs/boot-set-updates.md: when the space is too small, "the request fails
\* before any change".  Once it goes on, there is room for what is still to be
\* written: the missing members, and the temporary selector in the end.
HasRoom ==
  /\ phase = "stage" => Occupied(dir[at]) + Cardinality(Missing) + Extra <= Capacity
  /\ phase = "select" => Occupied(dir[at]) + Extra <= Capacity

\* The set that a slot with contents c boots.
Installed(c) ==
  IF \E b \in Bundles : c = Full(b) THEN CHOOSE b \in Bundles : c = Full(b) ELSE NONE
Selected(d, s) == [r \in Roots |-> IF s[r] = NONE THEN NONE ELSE Installed(d[r][s[r]])]

\* On each boot root the slots and the selector together behave like one atomic
\* register: it changes to a trusted bundle for the other slot at once, and a
\* power failure takes back at most the change that was not saved yet.
Register == INSTANCE BootSetRegister WITH
  now <- Selected(dir, sel),
  saved <- Selected(kept, ksel)

ImplementsRegister == Register!Spec

\* Whatever a failed request left behind, every bundle for the inactive slot
\* passes the space check again (given room for two and its estimate).
CanRetry ==
  phase = "idle" => \A r \in Roots, b \in Bundles :
    Slot[b] # sel[r] => Free(r) + Reclaimable(r) >= Need[b]
=============================================================================
