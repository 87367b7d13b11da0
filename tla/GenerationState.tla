-------------------------- MODULE GenerationState --------------------------
(***************************************************************************)
(* The signed EROFS generation store and its selectors: the symlinks       *)
(* active, previous, tested, pending and attempted, the rollback-event     *)
(* file, and the directories generations/<sha512>.                         *)
(*                                                                         *)
(* Four programs work on it.  PID 1 of the boot loader (prepare_boot)      *)
(* decides each boot; the success timer of the booted system runs          *)
(* nmbl-generation-state mark-success; operators run nmbl-erofsctl         *)
(* (install, activate, rollback, gc); and nmbl-erofs-receive installs and  *)
(* activates a bundle streamed over SSH.  All but the installs take one    *)
(* flock on the store's root.  Power may fail between any two writes, and  *)
(* a program may die between any two writes while the system stays up.     *)
(***************************************************************************)
EXTENDS Naturals, Sequences, FiniteSets

CONSTANTS Gens,              \* the generation ids in play
          NONE,              \* no generation: a selector that does not exist
          AutomaticRollback  \* generationImage.automaticRollback

ASSUME NoneAssumption == NONE \notin Gens
ASSUME RollbackAssumption == AutomaticRollback \in BOOLEAN

VARIABLES
  link,     \* on disk: the generation each selector names
  members,  \* on disk: what is in each generations/<id>
  boot,     \* where the machine is
  running,  \* the generation the target system was booted from
  astray,   \* it was booted from the menu while the attempt of another one was
            \* open: nothing on disk says so
  op,       \* the program that holds the flock
  todo,     \* the selector writes it still has to make, in order
  victims,  \* the directories gc still has to delete
  marking,  \* the health check passed, mark-success has yet to run
  recv      \* nmbl-erofs-receive installed this one, has yet to activate it

disk == <<link, members>>
lock == <<op, todo, victims>>
vars == <<link, members, boot, running, astray, op, todo, victims, marking, recv>>

\* "event" stands for the rollback-event file; its value is the failed id.
Names == {"active", "previous", "tested", "pending", "attempted", "event"}

\* A generation directory, its image with the image's signature, and every
\* other member (config.toml, kernel.sig, ...).
Members == {"dir", "image", "rest"}

Slot == Gens \cup {NONE}

\* Selector writes that one sync makes durable together.
Batch == UNION {[S -> Slot] : S \in SUBSET Names}

Phases == {"off", "init", "prepared", "up", "rescue"}
Ops == {"idle", "prepare", "mark", "activate", "rollback", "gc"}

TypeOK ==
  /\ link \in [Names -> Slot]
  /\ members \in [Gens -> SUBSET Members]
  /\ boot \in Phases
  /\ running \in Slot /\ astray \in BOOLEAN
  /\ op \in Ops
  /\ todo \in Seq(Batch)
  /\ victims \in SUBSET Gens
  /\ marking \in BOOLEAN
  /\ recv \in Slot

-----------------------------------------------------------------------------
(* Writes *)

Write(n, g) == [x \in {n} |-> g]
Remove(S) == [x \in S |-> NONE]

\* b under a condition; otherwise nothing is written.
When(c, b) == IF c THEN b ELSE Remove({})

\* The selectors after the writes b.
Apply(l, b) == [n \in Names |-> IF n \in DOMAIN b THEN b[n] ELSE l[n]]
PartOf(b, S) == [x \in S |-> b[x]]

\* parse_target and validate_generation: the image and its signature are
\* there (the id is the image's hash, so its content is the right one).
Bundle(g) == "image" \in members[g]

\* target_id of the tools: a selector whose directory is gone reads as unset.
Target(n) ==
  IF link[n] # NONE /\ "dir" \in members[link[n]] THEN link[n] ELSE NONE

\* optional_id of PID 1: a selector without its bundle is an error.
Readable(n) == link[n] # NONE => Bundle(link[n])

-----------------------------------------------------------------------------
Init ==
  \* A host that is being installed: an empty store, an operator's shell.
  /\ link = [n \in Names |-> NONE]
  /\ members = [g \in Gens |-> {}]
  /\ boot = "rescue"
  /\ running = NONE /\ astray = FALSE
  /\ op = "idle" /\ todo = <<>> /\ victims = {}
  /\ marking = FALSE
  /\ recv = NONE

Take(o, writes) == op = "idle" /\ op' = o /\ todo' = writes /\ victims' = {}

\* Operators and the receiver work in the booted system or a rescue shell.
Operable == boot \in {"up", "rescue"}

-----------------------------------------------------------------------------
(* The boot *)

PowerOn ==
  /\ boot = "off"
  /\ boot' = "init"
  /\ UNCHANGED <<disk, running, astray, lock, marking, recv>>

\* Deviations of Rollback: the generation fallen back to is not recorded as
\* an attempt; it is, under a misspelt name; it counts as a fresh boot; it is
\* never selected.
RollbackUnrecorded(failed, good) ==
  << Write("active", good), Remove({"pending"}), Write("event", failed) >>
RollbackMisspelt(failed, good) ==
  << Write("active", good), Write("attempt", good), Remove({"pending"}),
     Write("event", failed) >>
RollbackAfresh(failed, good) ==
  << Write("active", good), Remove({"pending", "attempted"}),
     Write("event", failed) >>
RollbackUnselected(failed, good) ==
  << Write("attempted", good), Remove({"pending"}), Write("event", failed) >>

Rollback(failed, good) ==
  << Write("active", good), Write("attempted", good), Remove({"pending"}),
     Write("event", failed) >>

\* An attempt that never completed, of a generation not yet tested, with a
\* tested one to go back to.
CanRollBack ==
  /\ link["attempted"] # NONE
  /\ link["pending"] = link["attempted"]
  /\ AutomaticRollback
  /\ link["tested"] \notin {NONE, link["attempted"]}

Legible ==
  /\ link["active"] # NONE
  /\ \A n \in {"active", "attempted", "pending", "tested"} : Readable(n)

\* prepare_boot with outcome RolledBack.
PrepareRollback ==
  /\ boot = "init" /\ Legible /\ CanRollBack
  /\ Take("prepare", Rollback(link["attempted"], link["tested"]))
  /\ UNCHANGED <<disk, boot, running, astray, marking, recv>>

\* prepare_boot with outcome Proceed.
PrepareProceed ==
  /\ boot = "init" /\ Legible /\ link["attempted"] = NONE
  /\ Take("prepare", << Write("attempted", link["active"]) >>)
  /\ UNCHANGED <<disk, boot, running, astray, marking, recv>>

\* prepare_boot with outcome Failed, or an error while it reads the selectors:
\* the boot goes to rescue or the emergency menu, as rescue.automatic says.
PrepareFail ==
  /\ boot = "init" /\ op = "idle"
  /\ Legible => (link["attempted"] # NONE /\ ~CanRollBack)
  /\ boot' = "rescue"
  /\ UNCHANGED <<disk, running, astray, lock, marking, recv>>

\* force_on_boot or the rescue sentinel asks for rescue.  They are read after
\* prepare_boot: the attempt is recorded, the system never runs.
ForceRescue ==
  /\ boot = "prepared"
  /\ boot' = "rescue"
  /\ UNCHANGED <<disk, running, astray, lock, marking, recv>>

\* A later phase of the boot fails: modules, activations, mounts, the image's
\* signature, kexec.
BootError ==
  /\ boot = "prepared"
  /\ boot' = "rescue"
  /\ UNCHANGED <<disk, running, astray, lock, marking, recv>>

\* NMBL verifies and mounts the image behind `active`, and the target's own
\* initrd does so again.
Kexec ==
  /\ boot = "prepared" /\ Bundle(link["active"])
  /\ boot' = "up" /\ running' = link["active"]
  /\ UNCHANGED <<disk, astray, lock, marking, recv>>

Reboot ==
  /\ Operable /\ op = "idle"
  /\ boot' = "off" /\ running' = NONE /\ astray' = FALSE
  /\ marking' = FALSE /\ recv' = NONE
  /\ UNCHANGED <<disk, lock>>

\* Of the writes since the last sync any part may have reached the disk.
Interrupted ==
  IF todo = <<>> THEN UNCHANGED link
  ELSE \E S \in SUBSET DOMAIN Head(todo) : link' = Apply(link, PartOf(Head(todo), S))

Release == op' = "idle" /\ todo' = <<>> /\ victims' = {}

PowerLoss ==
  /\ boot # "off"
  /\ Interrupted /\ Release
  /\ boot' = "off" /\ running' = NONE /\ astray' = FALSE
  /\ marking' = FALSE /\ recv' = NONE
  /\ UNCHANGED members

\* "Retry boot" and "Verify kexec readiness" of the emergency menu: no attempt
\* is recorded, and a program that runs in the rescue shell dies with it.  The
\* system that comes up has the image that `active` names by then.
RetryBoot ==
  /\ boot = "rescue"
  /\ Interrupted /\ Release
  /\ link'["active"] # NONE /\ Bundle(link'["active"])
  /\ boot' = "up" /\ running' = link'["active"]
  /\ astray' = (link'["attempted"] \notin {NONE, running'})
  /\ recv' = NONE
  /\ UNCHANGED <<members, marking>>

-----------------------------------------------------------------------------
(* The holder of the flock *)

DoWrite ==
  /\ todo # <<>>
  /\ link' = Apply(link, Head(todo))
  /\ todo' = Tail(todo)
  /\ UNCHANGED <<members, boot, running, astray, op, victims, marking, recv>>

\* rm -rf: the members in directory order, the directory itself last.
Delete(g) ==
  /\ g \in victims
  /\ \E m \in members[g] :
       /\ m = "dir" => members[g] = {"dir"}
       /\ members' = [members EXCEPT ![g] = @ \ {m}]
       /\ victims' = IF m = "dir" THEN victims \ {g} ELSE victims
  /\ UNCHANGED <<link, boot, running, astray, op, todo, marking, recv>>

Finish ==
  /\ op # "idle" /\ todo = <<>> /\ victims = {}
  /\ Release
  /\ boot' = IF op = "prepare" THEN "prepared" ELSE boot
  /\ UNCHANGED <<disk, running, astray, marking, recv>>

\* A write or a sync returns an error, or the program is killed: the flock
\* goes and nothing is undone.  In PID 1 that is a failed boot.
Fail ==
  /\ op # "idle"
  /\ Interrupted /\ Release
  /\ boot' = IF op = "prepare" THEN "rescue" ELSE boot
  /\ UNCHANGED <<members, running, astray, marking, recv>>

-----------------------------------------------------------------------------
(* The success timer of the booted system *)

\* ExecStartPre: no unit has failed.  No lock is held yet.
HealthCheck ==
  /\ boot = "up" /\ ~marking
  /\ marking' = TRUE
  /\ UNCHANGED <<disk, boot, running, astray, lock, recv>>

\* Deviations of MarkSuccess: whatever is active is credited; the attempt is
\* left behind; a mark-success that was cut short is not taken up again.
MarkActive ==
  /\ boot = "up" /\ marking
  /\ marking' = FALSE
  /\ op = "idle"
  /\ IF link["active"] # NONE /\ Readable("active")
     THEN Take("mark", << Write("tested", link["active"]), Remove({"pending"}),
                          Remove({"event"}), Remove({"attempted"}) >>)
     ELSE UNCHANGED lock
  /\ UNCHANGED <<disk, boot, running, astray, recv>>
MarkKeepsAttempt ==
  /\ boot = "up" /\ marking
  /\ marking' = FALSE
  /\ op = "idle"
  /\ IF link["active"] # NONE /\ link["attempted"] = link["active"]
     THEN Take("mark", << Write("tested", link["active"]), Remove({"pending"}),
                          Remove({"event"}), Remove({}) >>)
     ELSE UNCHANGED lock
  /\ UNCHANGED <<disk, boot, running, astray, recv>>
MarkPendingOnly ==
  /\ boot = "up" /\ marking
  /\ marking' = FALSE
  /\ op = "idle"
  /\ IF link["active"] # NONE /\ link["pending"] = link["active"]
     THEN Take("mark", << Write("tested", link["active"]), Remove({"pending"}),
                          Remove({"event"}), Remove({"attempted"}) >>)
     ELSE UNCHANGED lock
  /\ UNCHANGED <<disk, boot, running, astray, recv>>

MarkSuccess ==
  /\ boot = "up" /\ marking
  /\ marking' = FALSE
  /\ op = "idle"
  /\ IF /\ link["active"] # NONE
        /\ link["attempted"] = link["active"]
        /\ Readable("active")
     THEN Take("mark", << Write("tested", link["active"]), Remove({"pending"}),
                          Remove({"event"}), Remove({"attempted"}) >>)
     ELSE UNCHANGED lock
  /\ UNCHANGED <<disk, boot, running, astray, recv>>

-----------------------------------------------------------------------------
(* Operators and the receiver *)

\* nmbl-erofsctl install: a directory that exists is taken as it is.
Install(g) ==
  /\ Operable
  /\ members' = IF "dir" \in members[g] THEN members
                ELSE [members EXCEPT ![g] = Members]
  /\ UNCHANGED <<link, boot, running, astray, lock, marking, recv>>

\* Deviation of Activation: the previous generation counts as tested.
ActivationTrustsPrevious(g) ==
  LET old == Target("active")
      known == g \in {Target("tested"), Target("previous")}
  IN << When(old \notin {NONE, g}, Write("previous", old)),
        Write("active", g),
        When(~known, Write("pending", g)),
        Remove({"attempted", "event"} \cup (IF known THEN {"pending"} ELSE {})) >>

\* `rm -f pending` and the removals after it share one sync.
Activation(g) ==
  LET old == Target("active")
      known == Target("tested") = g
  IN << When(old \notin {NONE, g}, Write("previous", old)),
        Write("active", g),
        When(~known, Write("pending", g)),
        Remove({"attempted", "event"} \cup (IF known THEN {"pending"} ELSE {})) >>

Activate(g) ==
  /\ Operable /\ Bundle(g)
  /\ Take("activate", Activation(g))
  /\ UNCHANGED <<disk, boot, running, astray, marking, recv>>

\* nmbl-erofs-receive: a directory that exists must hold every member of the
\* bundle; one that does not is installed.
Receive(g) ==
  /\ Operable /\ recv = NONE
  /\ members[g] \in {{}, Members}
  /\ members' = [members EXCEPT ![g] = Members]
  /\ recv' = g
  /\ UNCHANGED <<link, boot, running, astray, lock, marking>>

ReceiveActivate ==
  /\ Operable /\ recv # NONE /\ op = "idle"
  /\ IF Bundle(recv) THEN Take("activate", Activation(recv)) ELSE UNCHANGED lock
  /\ recv' = NONE
  /\ UNCHANGED <<disk, boot, running, astray, marking>>

\* Deviations of RollbackByHand: an attempt that is not confirmed yet does not
\* matter; a `previous` that is unset does not either.
RollbackMidAttempt ==
  LET old == Target("active")
      prior == Target("previous")
  IN /\ Operable
     /\ prior # NONE /\ Bundle(prior)
     /\ Take("rollback",
             << When(old # NONE, Write("previous", old)),
                Write("active", prior),
                IF Target("tested") = prior THEN Remove({"pending"})
                ELSE Write("pending", prior) >>)
     /\ UNCHANGED <<disk, boot, running, astray, marking, recv>>

RollbackByHand ==
  LET old == Target("active")
      prior == Target("previous")
  IN /\ Operable
     /\ link["attempted"] = NONE
     /\ prior # NONE /\ Bundle(prior)
     /\ Take("rollback",
             << When(old # NONE, Write("previous", old)),
                Write("active", prior),
                IF Target("tested") = prior THEN Remove({"pending"})
                ELSE Write("pending", prior) >>)
     /\ UNCHANGED <<disk, boot, running, astray, marking, recv>>

\* Deviation of Protected: the selectors of an unfinished change are forgotten.
ProtectedLasting == {Target(n) : n \in {"active", "previous", "tested"}}

\* The newest KEEP generations survive, whatever KEEP and the ages are, and
\* so does every generation a selector names.
Protected == {Target(n) : n \in Names \ {"event"}}

Gc(kept) ==
  /\ Operable
  /\ op = "idle" /\ op' = "gc" /\ todo' = <<>>
  /\ victims' = {g \in Gens : "dir" \in members[g]} \ (kept \cup Protected)
  /\ UNCHANGED <<disk, boot, running, astray, marking, recv>>

-----------------------------------------------------------------------------
BootStep ==
  \/ PowerOn \/ PrepareRollback \/ PrepareProceed \/ PrepareFail
  \/ Kexec
HolderStep == DoWrite \/ Finish \/ \E g \in Gens : Delete(g)
OperatorStep ==
  \/ \E g \in Gens : Install(g) \/ Activate(g) \/ Receive(g)
  \/ ReceiveActivate \/ RollbackByHand
  \/ \E kept \in SUBSET Gens : Gc(kept)

\* Boots, operators and timers when nothing interferes, and what may interfere.
CalmStep ==
  \/ BootStep \/ HolderStep \/ OperatorStep \/ HealthCheck \/ MarkSuccess \/ Reboot
  \/ RetryBoot /\ op = "idle"
Mishap == ForceRescue \/ BootError \/ PowerLoss \/ Fail

Next == CalmStep \/ RetryBoot \/ Mishap

Spec == Init /\ [][Next]_vars

-----------------------------------------------------------------------------
(* Properties *)

\* Every generation a selector names has its image and signature, so
\* prepare_boot never meets an incomplete bundle: gc, whose deletions may stop
\* half-way, never touches a generation that a selector names or that a
\* program is about to select.
SelectedHaveBundles ==
  \A n \in Names \ {"event"} : link[n] # NONE => Bundle(link[n])

\* While the target system runs, an `attempted` selector names the generation
\* that runs: mark-success cannot credit a generation activated meanwhile,
\* whatever activations or rollbacks were cut short.  The one exception is a
\* boot from the menu that found the attempt of another generation open.
AttemptIsRunning ==
  boot = "up" /\ ~astray /\ link["attempted"] # NONE => link["attempted"] = running

\* docs/erofs-generations.md says of a generation activated meanwhile that "the
\* running boot can no longer mark anything tested": whatever mark-success records
\* is what runs.  A boot from the menu refutes it if two activations were cut
\* short.
OnlyRunningIsTested ==
  [][link'["tested"] # link["tested"] => link'["tested"] = running]_vars

\* Whatever crashes, the selected generation is complete: the property that
\* docs/erofs-generations.md states of the store.  A gc that is stopped
\* half-way leaves a directory behind that install then takes as it is.
ActiveIsComplete == link["active"] # NONE => members[link["active"]] = Members

\* The selectors of all the programs together implement the abstract register
\* GenerationSelection: operators choose, a boot may only fall back to the
\* proven generation, and only the running generation can become proven, if
\* the boot loader recorded the attempt or the operator retried the same one.
Selection == INSTANCE GenerationSelection WITH
  selected <- link["active"],
  proven <- link["tested"],
  current <- running,
  astray <- astray,
  booting <- boot \in {"off", "init", "prepared"}

ImplementsSelection == Selection!Spec
=============================================================================
