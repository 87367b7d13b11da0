# Verification of the NMBL boot loader

NMBL is a boot loader that runs as PID 1 of a small Linux system: it prepares
devices and storage, chooses what to boot, verifies it and hands over with
kexec. These TLA+ modules model the parts of it whose correctness depends on
what is on disk when something stops half-way, on the order of the steps of
several programs, or on a long history of boots. TLC checks them on small
instances; TLAPS proves the most important invariants for every instance.

Paths below are relative to `src/sirati-nmbl/`; `init/` stands for
`nmbl-init-rs/src/`.

## The system

| part | state it keeps | operations | works with |
|---|---|---|---|
| signed generation state (`init/generation_state.rs`, `nmbl-init-rs/nmbl-host-tools/src/receive.rs`, `tools/nmbl-erofsctl.sh`) | the selectors `active`, `previous`, `tested`, `pending`, `attempted`, the roll-back event, the generation directories | `prepare_boot`, `mark-success`, install, activate, rollback, gc, receive | the boot, the success timer, operators and SSH senders; one flock |
| boot-set updates (`nmbl-init-rs/nmbl-boot-update/`) | slots A and B, staging slot and selector on each boot root | one request: validate, preflight, stage, verify, publish, select | GRUB reads the selector; an unprivileged user owns the spool |
| stateful boot state (`init/state/`, `init/main_parts/stateful.rs`, `nmbl-init-rs/nmblctl/`) | `state.bin`, `boot-once`, `boot-default`, `retry-generation`, the rescue sentinel | decide, record an attempt, a success, a rescue, a deployment; nmblctl requests | the selector, the rescue, the NixOS installer |
| boot selection and instant boot (`init/boot_selection.rs`, `init/main_parts/dispatch.rs`) | none of its own | default, boot-once, retry, the instant-boot decision | boot state, key tap, selector |
| generation scan (`init/generations/`) | none | lists generations newest first | boot selection |
| rescue: dispatch, image, child, readiness (`init/rescue/`) | mounts, child process, readiness pipe | start, wait for ready, record, end | boot state, sessions |
| seal, relock, rescue sentinel (`init/policy/`) | cap latch, list of unsealed mappers in memory and in a file, sentinel | register a mapper, seal, refuse, relock | storage activations, kexec, rescue |
| recovery sessions and emergency menu (`init/shell/`, `init/ui/remote/`, `init/ui/emergency/`) | the action agreed on, sessions, countdown | attach, choose, detach, time out | rescue child, poller |
| poller and processes (`init/sys/`) | queue of operations, wakers, children | queue, poll, cancel, reap | everything that waits |
| consoles and key tap (`init/ui/`) | latched key, pending console bytes | tap, latch, hand over to a console | instant boot |
| network: DHCP, HTTP, network rescue (`init/net/`, `init/rescue/`) | lease, deadline, download | discover, request, download, confirm | sessions, verification |
| panic recovery (`init/panic*`) | re-exec counter | re-exec PID 1 | seal, which loses its memory |
| signatures, TPM, staged boot, driver images, storage, kexec, handover | little or none | one pass in sequence | the boot phases |
| configuration, logs, splash, simulation, build and NixOS tooling | the log ring | parsing, drawing, generation of files | |

`PROJECT.json` lists every part with its source files and status, and the
hazards of the code at the line where each one bites.

What is hard in this code:

- **Crashes.** Each selector of the generation state is made durable on its own,
  so every prefix of every program's writes is a state the next boot may find.
  `state.bin` is rewritten in place. The boot-set selector lives on a file
  system without a journal.
- **Interleavings.** `mark-success` reports minutes after the boot it reports
  on; gc deletes beside installs, which take no lock; local and remote menus
  race for one action.
- **Long histories.** Retry budgets, the known-good ring, marks and one-boot
  authorizations only go wrong over several boots, deployments and failures.
- **Promises about the future.** A bad generation must be replaced and a good
  one confirmed without a person.

## Modules

### Signed generation state

`GenerationState` has the selectors (`link`) and what each generation directory
holds (`members`) as its disk. The rest is volatile: `boot` (where the machine
is), `running` (what it booted), `astray` (an operator booted it past an open
attempt of another generation), the holder of the flock with the writes it
still has to make (`op`, `todo`) or the directories it still has to delete
(`victims`), and two programs that do something without the lock before they
take it (`marking`, `recv`).

A program takes the lock, reads the selectors and so fixes its writes (`Take`),
and makes them one by one (`DoWrite`). An element of `todo` is what one `sync`
makes durable; a power failure or a killed program (`PowerLoss`, `Fail`) leaves
any part of the first element. The actions correspond to the code as follows:

| action | code |
|---|---|
| `PrepareRollback`, `PrepareProceed`, `PrepareFail` | the outcomes of `prepare_boot` in `init/generation_state.rs` |
| `ForceRescue`, `BootError` | the rest of the boot, `init/main_parts/boot_runtime.rs` |
| `Kexec` | verification of the generation image (`init/devices/mod.rs:416-441`) and the hand-over; the target's initrd resolves `active` again |
| `RetryBoot` | "Retry boot" and "Verify kexec readiness" of the emergency menu (`init/ui/emergency_actions.rs:85-256`): a boot without `prepare_boot`, which ends whatever still ran in the rescue shell |
| `HealthCheck`, `MarkSuccess` | the success timer and `nmbl-generation-state mark-success` |
| `Install`, `Activate`, `RollbackByHand`, `Gc`, `Delete` | `tools/nmbl-erofsctl.sh` |
| `Receive`, `ReceiveActivate` | `nmbl-erofs-receive` |

`GenerationSelection` is the abstract specification: one selected and one
proven generation. While the machine boots, the selection may only fall back to
the proven one; the running generation may become proven only while it is also
the selected one. A boot from the rescue is the operator's: it starts the
selected generation, and only after such a boot may a generation become proven
that does not run (`astray`). `GenerationHistory` adds what the code does not record (boots
without a success, generations never booted, how the last boot went) for
properties that relate boots. `GenerationRecovery` states liveness.

### Boot-set updates

`BootSet` has, per boot root, the contents of the two slots and of the staging
slot (`dir`), the selector (`sel`), and for both what is durable (`kept`,
`ksel`). One request passes through `phase` for each root `at`: `Check`,
`Preflight`, `Reclaim`, `ClearStage`, `StageMember`, `SyncStage`, `Verify`,
`Drop`, `Publish`, `SyncRoot`, `Select`, `SyncSelector`
(`nmbl-boot-update/src/transaction.rs`). A bundle is a set of numbered members;
a member copied from a file that its owner changed meanwhile is nobody's.
`Outcomes` is what a power failure may leave: for each directory any mixture of
the durable and the current contents, as long as a rename happened on both
sides or on neither. With `Journaled`, an older change never gets lost when a
newer one persists.

Space is counted in units of one member. The code compares three measures: the
lengths of the bundle's files rounded to 4096 (`validate.rs:154`), the free
space that `statvfs` reports (`transaction.rs:76-80`) and the blocks of the
inactive slot (:205), and it counts neither the staging directory nor the
temporary selector. So `Need`, what the check takes a bundle for, and `Extra`,
what an installation takes besides its members, are parameters of their own:
`StageMember` and `Select` need real room, `Preflight` only compares `Need`.
A staging slot that a killed request left behind is occupied but not
reclaimable, as in the code: `ClearStage` comes after the check.

`BootSetRegister` is the abstract specification: on each boot root one register
holds the set that boots; it changes at once to a trusted bundle for the other
slot, and a power failure takes back at most the last change.

### Stateful boot state

`StatefulBoot` has `state.bin` (`state`, or `TORN`), the profile (`links`,
`active`), the request files and the sentinel, and the position in the boot
(`phase`, `pick`). `decide`, `Rotated`, `Fallbacks`, `Marked`, `Succeeded` are
the pure functions of `init/state/decide.rs` and `init/state/io.rs`; the
actions `TakeRetry`, `RecordRetry`, `TakeRescueExit`, `Select`, `Kexec`,
`RescueReady` are the steps of one boot in the order of
`init/main_parts/dispatch.rs`; `Succeed`, `Deploy`, `Switch`,
`DeleteGeneration` and the nmblctl actions are what the booted system does.
`RetryFromMenu` is the emergency menu's boot of any scanned generation
(`init/ui/emergency_actions.rs:85-256`): nothing is decided, no attempt is
recorded, `boot-once` is not consumed. `Refuse` is a boot that the policy refuses
and that restarts the machine into the rescue.
`Save` is one rewrite of `state.bin`: it succeeds, fails, or is cut short.
`StatefulHistory` records what really booted, what was authorized, how
often the machine booted by itself, and whether the success of a boot from the
menu was recorded as that of another generation (`misled`).

### Seal, refusal and panic

`Seal` is one machine over any number of boots. The kernel and the TPM keep
`capped`, `open` (the mappers), `mounts`, the cryptsetup children and the
registry `file`; the process keeps `mem`, `latch` and where it is (`pc`, `goal`,
`todo`); the boot file system keeps the `sentinel`. `Boxes` are the kinds of
machine and configuration, `Faults` what may fail.

| action | code |
|---|---|
| `Spawn`, `Unseal`, `Map`, `GiveUp`, `Register`, `ActivationFails` | one `luks-tpm` activation, its child, and the registry (`init/activation/mod.rs`, `init/policy/registry.rs`) |
| `Cap`, `CapFails`, `Close`, `CloseFails`, `Sealed`, `Abandon` | the seals of `init/policy/guard.rs`: strict before a shell, menu or rescue, best effort before a refusal |
| `Begin`, `FindSentinel`, `EnterRescue`, `LoadModules`, `LoadFails`, `Dispatch`, `ChildReady` | who asks for the rescue, and how it starts (`init/main_parts/boot_runtime.rs`, `init/rescue/mod.rs`) |
| `Refuse`, `WriteSentinel`, `Relock` | a refused boot, step by step (`init/policy/gate.rs`, `sentinel.rs`, `relock.rs`) |
| `Panic` | the re-exec of `init/panic.rs`: memory is lost, mappers and children are not |
| `PowerLoss`, `PowerOn`, `Flush` | the sentinel in the page cache, and what a restart clears |

### Recovery sessions

`RecoverySessions` is the menu of the boot console, the remote sessions and
the rescue child on one thread. A step is one poll of one session. `Commit` is
the action that ends everything: it drops the others where they stand and,
beside a rescue, stops its processes. `Idle`, `Tick`, `TimeOut` and `Notice` are
one turn of the loop of `init/ui/emergency/loop_driver.rs`, so a key can arrive
between the look at the time and the next poll. `AcceptDies` is the server that
returns early (`init/ui/remote/driver.rs`) and the fall-back menu that takes
over (`init/shell/recovery.rs`). `holds` has the terminals a forked shell
inherits (`init/sys/pty/spawn.rs`).

### Key presses

`KeyVeto` follows each key from the line discipline (`queue`) through the early
tap or the latch of the session's console (`pending` is the first event, held
back behind its notice) to the screen that gets it (`given`). `TapPoll`,
`OpenConsole`, `Disarm` are the three steps in which the tap hands over to the
console; `Tick`, `Prompt`, `Verify`, `WrongModal`, `Menu` are the screens;
`Decide` is the instant boot, the skipped selector or the countdown.

### Network rescue

`NetRescue` has everything the client sent and the servers answered as sets
(`sent`, `net`), from which the socket reads any frame any number of times.
`Acquire`, `ReadOffer`, `ReadAck`, `ReadNak`, `ReadStray`, `Tick`, `Retry`,
`GiveUp` are one exchange (`init/net/dhcp/`); `Download`, `Signature`, `Pin`,
`Confirm` are one round of `init/rescue/net/mod.rs`, where every refusal goes
back to `Pick`.

### Deviations

Next to some operators stands a deviating form (`MarkActive`,
`VerifyOnce`, ...), a mistake one could make in that code. No
specification uses it. Put in place of the operator it must break a property:
that shows that the property depends on the code being as it is. `PROJECT.json`
pairs each property with one.

## Runs

| run | states | what it shows |
|---|---|---|
| `boot_loop` | 386,448 | two generations, every crash, error, rescue request and boot from the menu: the types hold; no selector names a generation without image and signature (gc never deletes what is or will be selected); an open attempt is the running generation, unless the operator booted past it from the menu; at most two target boots without an operator or a recorded success; the selectors implement `GenerationSelection`. As long as nothing is interrupted and no rescue is requested, a generation is rolled back only after it ran, a failure is declared only after a boot that failed, and an untested generation is rolled back if there is a tested one |
| `recovery` | 293,168 | once nobody interferes, a bad new generation is replaced by the tested one, and a healthy one is confirmed |
| `boot_set` | 237,432 | one root on which a third set does not fit, a journal, a bundle of another key, a spool that changes: a request that passed the space check has room for all it still writes, given an estimate that covers the overhead; slots and selector implement `BootSetRegister`, so the selected slot always boots |
| `boot_set_mirrors` | 32,025 | two roots without a journal: every selected slot boots; an acknowledged update is on every root and survives power failures; a failed request leaves room for the next |
| `stateful_boot` | 5,738,815 | every fault and almost every command, boots from the menu included: the types hold, and an authorization boots a generation at most once |
| `stateful_deploy` | 7,794,593 | three generations of two systems with roll-backs, deletions, power failures and boots from the menu: until the success of a boot from the menu is credited to another generation, known-good systems have booted and instant boot starts no untested deployment; unattended boots without a success are bounded |
| `seal` | 160,150 | six kinds of machine, two volumes, every fault: whoever is in front of the machine, the TPM is capped and no volume it opened is open; rescue is entered at most twice per process; a durable request for rescue is honoured |
| `recovery_sessions` | 22,223 | local menu, two remote sessions, rescue child: a key that waited when the menu polled stops its reboot; a remote session ends recovery by a choice only; the local menu has its console; an unattended machine leaves recovery |
| `key_veto` | 90,245 | up to four keys at any moments, up to two volumes: a key that was read keeps the instant boot away; none of the session's keys is lost or overtaken; the countdown boots unattended machines only, and does |
| `net_rescue` | 108,750 | two exchanges, two servers, two downloads: an exchange keeps to its budget and ends; its lease is the one it asked for; the image that starts was itself verified, pinned or chosen, and confirmed |
| `key_missed`, `noisy_lan` | - | violations, see below |

### Bounds, and why they are enough

- Generation state: two ids are enough for properties about one new and one
  tested generation, and either may be deletable; the proofs cover any number
  of them. Ids are interchangeable (symmetry), except in
  `recovery`, where `Good` tells them apart. The number of boots, crashes and
  commands is unbounded. `AutomaticRollback` is on in the runs, since off
  removes behaviour; the proofs cover both.
- `boot_set`: two members per bundle give a part-way state of every copy and
  removal; two bundles for one slot, of different keys, and one for the other
  give a replacement, a mixture and a change of trust. `Capacity` 5 holds two
  sets and the overhead `Extra` 1, and the estimate `Need` is one more than the
  size, so every replacement of a full slot takes the low-space path. `boot_set_mirrors` uses
  one member per bundle and `Capacity` 4: room for two sets and the estimate of
  a third, which is what `CanRetry` needs. With less, the staging slot of a killed
  request, which the check neither counts nor clears (`transaction.rs:75-94`),
  makes it refuse later requests until someone removes the slot; the runs show
  no property of that case.
- Stateful: `MaxGen` bounds deployments, and `RingSize` 2 is small enough for
  an entry to fall off the ring. Two attempts tell an off-by-one budget from a
  right one. `Commands` splits the operator's commands over the two runs, which
  are about different questions: `stateful_boot` leaves out `delete`,
  `stateful_deploy` has only `switch`, `delete` and `menu`. The systems are
  interchangeable there (symmetry). `Faults` names what goes
  wrong: `stateful_deploy` has no write errors, since with them
  `KnownGoodHasBooted` does not hold (below).
- `Reuse` FALSE keeps NixOS from giving the number of a deleted generation
  to a new one; with TRUE the property fails (below).

- `seal`: two volumes, one of them the root, so that the order of closing and
  what hangs below the root matter. The six machines have every mode of rescue,
  bootstrap or not, with and without a TPM, and a volume that cannot be
  written. Boots, panics and power failures are unbounded. The driver of the
  TPM is bound before the first seal.
- `recovery_sessions`: two remote sessions are enough for a shell that
  inherits another's terminal and for two losers of one race. A connection is
  used once, which bounds the run. The configured countdown is not 0 and lasts
  longer than one drawing of the screen.
- `key_veto`: the longest way to a boot takes one key for the latch, one in a
  prompt's buffer, Enter, and one for a later screen. Two volumes give a prompt
  that starts after another one's answer.
- `net_rescue`: with `MaxRetries` 2, waits of one and two seconds and a budget
  of 4 both ends of an exchange happen: attempts run out, and time runs out with
  the last wait clamped. `MaxClock` stops the clock above every value that
  `BudgetKept` can need (4 + 1 * 2). One ignored frame per exchange is enough,
  since they only add up; `noisy_lan` has no such bound. Servers answer while a
  client listens and keep to one answer per request; late answers are those of
  an earlier exchange.

### Fairness

`recovery` assumes weak fairness once nobody interferes any more (`quiet`): PID 1 goes on to the end of the boot and powers on again; the holder
of the flock makes its next write; the health check and `mark-success` run
because the timer of `nmbl-generation-success` fires again and again until
the attempt is gone; a machine that hangs is reset by its watchdog or a person.
The last is an assumption about the site and not about NMBL. Nothing is assumed about crashes and
operators before that point: they may leave any reachable disk. `recovery` does
not check for deadlock, because a machine that is left alone in a rescue shell
or with a confirmed generation has nothing more to do.

`recovery_sessions` assumes that the runtime polls what is ready (`Reap`,
`Notice`, `Idle`, `Tick`, `TimeOut`, `Refuse`, each for every session) and that
time passes (`Expire`). Nothing is assumed of operators, connections or the
rescue system: it need not exit. `key_veto` assumes that the one thread takes
its next step while it has one (`Program`); nobody need press a key. It does
not check for deadlock, because a machine that shows a menu waits for its
operator. `net_rescue` assumes that time passes (`Tick`) and that a timeout
that has come is delivered (`TimesOut`), and nothing of servers, frames or the
operator.

## Proofs

`GenerationState_proofs` (for every set of generations, roll-back on or off):

- `TypeCorrect`, `SelectorsHoldBundles`, `AttemptNamesRunning`: the three
  state invariants of the run `boot_loop`.
- `Refinement`: `Spec => ImplementsSelection`.

The invariants are not inductive: the next write of a program that already
holds the lock would break them if it could be anything. `IInv` adds
`PlannedHaveBundles` (every generation about to be selected has its bundle),
`VictimsUnselected` (gc deletes nothing selected), `DirectoryLast`, `Holding`
(which program may hold the lock in which phase) and `Plan`: how far
`prepare_boot` got determines its remaining writes, and of the other programs
only `mark-success` writes `tested`, only with the generation that is running
and active. `Plan` carries the argument of `AttemptIsRunning` and of the
refinement: a stopped roll-back still leaves `active` at the proven generation
or unchanged. `AttemptIsRunning` excepts a boot from the emergency menu that
found the attempt of another generation open (`astray`): an activation that is
cut short after `active` leaves one, a later boot fails, and the menu boots the
new generation beside the old attempt. What mark-success then records may be
wrong if a second activation is cut short as well; `MenuRetry` shows it. There is one lemma per group of actions; `StepRefines` maps each step to a
step or stutter of `GenerationSelection`.

`GenerationHistory_proofs` proves `BootLoopEnds`, `HSpec => []BootLoopBounded`,
for every set of generations. What the count of unattended boots needs to know
of the selectors is in `Counted`: after one boot the attempt is open, or a
roll-back that will close it and select the proven generation is being written;
after two the running generation has nothing left to roll back to. `IInv` holds
along, since a history takes the steps of the specification.

It also proves `FirstAttempt` (`CalmFirstAttempt`), `FailureWasFailure`
(`CalmFailure`) and `RollbackComesFirst` (`CalmRollback`): what the documentation
says of first attempts, failures and roll-backs is true until something is cut
short or a rescue is requested. They rest on `CalmInv`, which says what the
disk is like as long as it is calm. Between two programs (`Settled`) an open
attempt is of the active generation and not confirmed, and the active generation
is pending or tested; an open attempt's generation did run (`Tried`), except
while the boot that opened it is on its way. While a program holds the lock it
has the writes before it that lead back there: `Preparing`, `Confirming`,
`Activating` and `Returning` list them for `prepare_boot`, `mark-success`,
`activate` and the roll-back by hand. `MarkCrash`, `ActivateCrash` and
`ForcedRescueRollback` show that each fails without the calm.

`BootSet_proofs` (for any bundles, sizes, number of roots and capacity):

- `TypeCorrect` and `SelectedStaysBootable`, under the assumption
  `Reliable == Journaled \/ ~LateFailure`: the boot file system keeps the order
  of changes, or the service does not stop between moving the selector and
  syncing it. Without it the property is false (`BootSetLateFailure.cfg`);
- `AcknowledgedStays` (`AcknowledgedIsInstalled`), when the service does not
  fail there and the spool does not change during a request;
- `NeverOutOfSpace` (`HasRoom`), when `Reliable` and the estimate covers the
  members and the overhead of an installation, `Generous`. The code does not
  ensure the latter: it only rounds each file up to 4096 bytes and adds nothing
  for the staging directory and the temporary selector, so it holds where
  rounding leaves as much. `BootSetFull` shows an exact estimate running out of
  space after the inactive set was deleted;
- `ThreeSetsSuffice` (`HasRoom`), when `Reliable` and there is room for three of
  the largest sets and the overhead, whatever the estimate is;
- `RetryHasRoom` (`CanRetry`), when `Reliable` and there is room for two of the
  largest sets and the largest estimate.

The inductive invariant is `TypeOK /\ Sound /\ Progress`. `Sound` says for both
the current and the durable selector that the slot it names holds one whole
bundle, that the selected slot is durable, and that without a journal the two
selectors differ only while the service is syncing. `Progress` says what each
phase has achieved: which members were staged, and what of them is durable.
`OutcomeSound` shows that every outcome of a power failure satisfies `Sound`.
Further invariants lie on top: `Acked` (which roots hold the
acknowledged set, at every point of the pass over them), `Fits`, `Waiting` and
`Roomy` (from the check to the selector, what is occupied and what is still to
come fit) and `Small` (no directory holds more files than the largest set).

`Refinement`, `Spec => ImplementsRegister`, is proved there too, under the same
assumption. It needs two facts more (`Authorized`): the bundle being installed was signed with the key that is trusted now, and the selector
only moves once its last move is durable. `SelectStep` is the step that changes
the register, `SaveSteps` the two that save it; a power failure takes each root
to what it booted or to what was saved, and every other step is a stutter.

`Seal_proofs` (for any volumes, machines and faults):

- `TypeCorrect`, `CappedBeforeOperator` (`InteractiveIsCapped`) and
  `ClosedBeforeOperator` (`InteractiveHasNoMapper`);
- `RescueEnds` (`RescueBounded`) and `RequestHonoured` (`RequestIsHonoured`).

`ClosedBeforeOperator` needs to know of every open mapper who remembers it: the registry in
memory, its file, the child that opened it and is still waited for, or `missed`.
A seal that has closed what memory and file name leaves only missed ones open,
and a capped register lets no further child unseal one. The invariant says so
for each place the program can be in. `RescueEnds` counts with `Entries`: the
second entry is the one that the last resort spends, and a boot that still
starts by itself has entered none. `RequestHonoured` follows from `Requested`: a
request that reached the disk stays there until a rescue console answers it,
and a boot that comes to its decision with its configuration has mounted the
volume that holds it.

`StatefulBoot_proofs` (for any systems, any number of generations, any length of
the ring and any budget; the specification is `HSpec`):

- `TypeCorrect` (`HTypeOK`) and `OneBoot` (`OneBootPerAuthorization`), with every
  command and every fault;
- `Recovery` (`RecoveryBounded`), when no write of `state.bin` fails;
- `GoodHaveBooted` (`KnownGoodHasBooted`), when also no number of a deleted
  generation is given out again. Both this property and the next one hold until
  the success of a generation that was booted from the emergency menu is
  recorded as that of another one (`misled`): the menu records no attempt, and
  `mark_boot_succeeded` credits the last one that was recorded. `StatefulMenu`
  shows what happens then;
- `InstantBoot` (`InstantBootIsProven`), when also the installer's mark reaches
  the disk and the operator sets neither a default nor a one-time entry.

No assumption can be dropped. TLC finds a boot loop beyond the budget when writes
fail: `init/main_parts/stateful.rs:261` goes on although nothing was recorded.
`StatefulWriteError`, `StatefulReuse` and `StatefulInstant` are the cases of the
others; an instant boot of a system whose mark was never written
is the last. Power may fail at any step in all of them.

`Authorized` says that an authorization still on disk was given and not used, and
that none is on disk once a boot goes on. `Recorded` says that whatever boots is
what `state.bin` names as its last attempt, a boot from the menu excepted; from that `Counted` gets that the
boots in a row are at most the roll-backs it counts, and one. `Remembered` is the
invariant of the ring: every generation in it that is still installed has
booted, and it names none that is still to be installed, which is where a number
that is given out twice would break it. `ActiveMarked` adds for instant boot that
an active generation of a system that never succeeded carries the mark.

`RecoverySessions_proofs` (for any set of remote sessions):

- `TypeCorrect`, `KeyAlwaysStops` (`KeyStopsCountdown`), `RemoteChooses`
  (`RemoteOnlyByChoice`), `ConsoleIsBack` (`ConsoleResumed`).

`KeyAlwaysStops` rests on what a key did at each point: while it waits it was
either there when the menu polled, so that the next poll takes it before the
time is looked at, or it came after; once the latch is set no menu of the
boot console has a deadline, the fall-back included.

`KeyVeto_proofs` (for any number of keys and volumes):

- `TypeCorrect`, `ReadKeyCounts` (`ReadKeyVetoes`), `NoKeyLost` (`KeysKept`).

The invariant adds to the two properties that a key is in one place only
(`Room`), that everything that was read is remembered by the tap or by the
session's latch (`Remembered`), and that nothing passes the console before its
first event (`Silent`). The last is what lets the countdown trust the latch
alone.

`NetRescue_proofs` (for any servers, images, interfaces, waits, budgets and
attempts):

- `TypeCorrect`, `LeaseWasRequested` (`LeaseIsRequested`), `ImageWasApproved`
  (`ApprovedImage`);
- `TimeIsBounded`: `BudgetKept`, assuming that no stray frame arrives
  (`~Noisy`). With them it is false: the run `noisy_lan` shows it.

A request that carries the current exchange number names the offer in hand
(`Sent`), an acknowledgement only repeats a request (`Answered`), and the
exchange number is never used again, so whatever is still on the wire from an
earlier exchange is refused. The clock and what is left of the socket's timeout
stay within the budget, plus one longest wait for every stray frame (`Timed`).
The digest in hand is that of the last download, and each later place was
reached by the answer to a question about that download (`Approved`).

All proofs use only the assumptions the modules declare of their constants and
those named above.

Every safety invariant and action property of the passing runs, and both
refinements, are stated by a theorem. Only model-checked are the liveness
properties `BadGenerationReplaced`, `HealthyGenerationConfirmed`,
`RecoveryEnds`, `UnattendedBoots` and `AcquireEnds`: liveness under fairness, like ENABLED, is
out of this prover's reach, and so TLC's bounds apply to it. Theorems about
recursive definitions would be out of reach too; none of the modules has one.

## Where code and documentation disagree

The first two are runs and listed as findings in `PROJECT.json`. The others are
kept as configurations that anyone can run; TLC reports the property violated.
The ones named `Stateful...` go with the module `MCStateful`, `BootSet...` with
`MCBootSet`, `MarkCrash`, `ActivateCrash`, `ForcedRescueRollback`, `MenuRetry` and
`IncompleteGeneration` with `MCGenerationHistory`, `RescueTwice` and
`SentinelLost` with `MCSeal`, `KeyMissed` and `BoxForgotten` with `KeyVeto`,
`NoisyLan` with `NetRescue`, and the rest with `RecoverySessions`.

| configuration | property | the code | the text |
|---|---|---|---|
| `KeyMissed` | `EarlyKeyVetoes` | after its last poll (`init/main_parts/boot_runtime.rs:296`) driver images are loaded, and raw mode then discards what arrived, before the tap could read it | `init/ui/instant_boot.rs:29-32` "a single keypress anywhere between stage 0 and the selector cancels the instant boot" |
| `NoisyLan` | `NoisyLanEnds` | the loop of `recv_dhcp` (`init/net/dhcp/socket.rs:161`) reads on after every ignored frame, each time with the whole timeout | `init/net/dhcp/mod.rs:54-55` "a noisy LAN should not let us loop forever" |
| `RescueTwice` | `RescueTriedOnce` | the error of a requested rescue is classified like a failed boot (`init/main_parts/boot_runtime.rs:75`) and enters rescue again | `init/main.rs:231-233` "never a second rescue attempt" |
| `SentinelLost` | `RefusalIsHonoured` | the sentinel is not synchronised before the restart (`init/policy/sentinel.rs:76`) | README.md:874-875 "a refused boot comes up in rescue on the next start" |
| `KeyStolen` | `EveryKeyStopsCountdown` | the relay of a remote session reads the boot console's line (`init/ui/console_relay/loop_impl.rs:196`), so its first key may not reach the menu | `init/ui/console/latch.rs`, the first input of any kind cancels the countdown |
| `FallbackConsole` (with `-continue`) | `RefusalsEnd` | a refusal shown to a remote operator ends with the connection | `init/shell/dispatch.rs`, a refused retry reboots into rescue |
| `FallbackConsole` | `FallbackHasConsole` | a local relay that is dropped with its menu leaves the console suspended for the fall-back menu, which cannot draw and reboots | `init/shell/recovery.rs`, "the local operator still has a working recovery UI" |
| `ShellLeft` | `ShellsHungUp` | a shell inherits the terminals of the sessions open when it is forked (`init/sys/pty/spawn.rs:132`) | `init/sys/pty/child.rs`, the clean-up on drop |
| `BoxForgotten` | `CheckedShowsSelector` | a second volume's prompt, submitted without the box, sets the skip again | `init/main_parts/dispatch.rs:88-89` a checked submission falls through to the selector |
| `ForcedRescueRollback` | `FirstAttemptBeforeRollback` | a requested rescue is read after the attempt was recorded (`init/main_parts/boot_runtime.rs:273`), so it uses up the first attempt and leaves it behind, and the next boot is declared failed | docs/erofs-generations.md:251-252 "the new generation gets its own first attempt on the next boot" |
| `StatefulTorn` | `UnreadableStateSkipped` | `take_rescue_exit_retry` returns the decoding error before the selector is reached (`init/main_parts/dispatch.rs:244`) | `init/main_parts/stateful.rs:61-64` "the contract is to warn and skip" |
| `StatefulSuperseded` | `RollbackTargetIsProven` | one mark: a second deployment takes it over (`init/state/io.rs:349`) | `init/state/decide.rs:21-22` "is never a rollback target" |
| `StatefulGivesUp` | `KnownGoodIsTried` | only the ring slot numbered by the attempt is looked at (`init/state/decide.rs:86`) | README.md:369-371 "boots a known-good generation from a list of the last 20 good generations" |
| `MarkCrash` | `FailureMeansFailedBoot` | `tested` is written first, `attempted` removed last (`init/generation_state.rs:63`); a crash in between is taken for a failure | docs/erofs-generations.md:232-233 "means the previous boot failed" |
| `ActivateCrash` | `UntestedRollsBack` | `active` is published before `pending` (`receive.rs:428`); a crash in between leaves an untested generation that is not rolled back | `init/rescue/automatic.rs:15-17` the roll-back "happens first ... whenever a rollback target exists" |
| `IncompleteGeneration` | `ActiveIsComplete` | a directory that an interrupted gc left is taken as installed (`tools/nmbl-erofsctl.sh:103`) and only image and signature are checked | docs/erofs-generations.md:47-48 "either the old complete generation or the new complete generation selected" |
| `MenuRetry` | `OnlyRunningIsTested` | a boot from the emergency menu records no attempt (`init/ui/emergency_actions.rs:85-256`); after two activations cut short mark-success finds the open attempt of a generation that does not run, and selected again | docs/erofs-generations.md:250-251 "The running boot can no longer mark anything tested" |
| `BootSetFull` | `HasRoom` | the check before staging counts neither the staging directory nor the temporary selector (`transaction.rs:54`, 57, 187), so staging may run out of space when the inactive set is gone | docs/boot-set-updates.md:128-129 "When even that is too small, the request fails before any change" |
| `StatefulMenu` | `RingHasBooted` | the emergency menu boots a generation without recording it, and its success is credited to the recorded one, which failed (`init/state/io.rs:264-273`) | `init/state/io.rs:319-320` "a generation in the known-good ring has booted successfully" |
| `BootSetLateFailure` | `SelectedBootable` | a request after a failed sync takes the selector it reads for durable and empties the other slot (`transaction.rs:188`) | docs/boot-set-updates.md:128-130 "The active slot stays selected and bootable" |
| `StatefulReuse` | `KnownGoodHasBooted` | the ring keeps numbers of deleted generations (`init/state/io.rs:336`) | `init/state/io.rs:319-320` "a generation in the known-good ring has booted successfully" |
| `StatefulWriteError` | `KnownGoodHasBooted` | the boot goes on when the attempt cannot be written (`init/main_parts/stateful.rs:261`), and success is credited to the older record | `init/state/io.rs:266` "The generation that just reached its success target is proven" |
| `StatefulInstant` | `InstantBootIsProven` | the mark is compared with the active profile, while the default `latest` resolves to the newest generation | lib/install-bootloader.nix:106-107 "until a boot of it succeeds, NMBL neither instant-boots it" |
| `StatefulForgotten` | `FailedUnprovenAvoided` | an operator retry overwrites the record before the failure is noted (`init/state/decide.rs:234`) | `init/state/types.rs:71-73` "a healthy boot force-picks the newest known-good generation instead" |
| `StatefulRetry` | `RetryFailureIsFinal` | a failed operator retry counts as one more failure with attempts left (`init/state/decide.rs:38`) | docs/nmblctl.md:154-155 "the next boot returns to automatic rescue" |

Smaller divergences, seen while modelling and not stated as properties: a key
that only the early tap read declines the instant boot, but the selector still
counts down; keys that wait unread when the decision is made count for nothing;
a panic in bootstrap mode falls back to built-in defaults and so loses
`require_tpm`; the strict seal also detaches an embedded `/boot` that hangs below
the system root; an embedded rescue never consumes the sentinel, since
`consume_after_rescue_booted` has no caller on that path; the shell choice of the
boot selector goes to automatic rescue; the Reboot of the wrong-password modal
returns to the menu when the boot was retried; a second download runs the whole
DHCP exchange again although `init/rescue/net/mod.rs` says it does not; a
remainder of less than a microsecond gives `SO_RCVTIMEO` 0, which means none.

## Hazards beyond the list

Also real, and without a property of their own: roll-back by hand overwrites
`previous` before it changes `active` (`tools/nmbl-erofsctl.sh:150`); a killed
install leaves its `.incoming` directory (:104); gc may delete the running
generation after two activations (:165); a configuration that cannot be read
ends the boot before the roll-back (`init/main_parts/boot_runtime.rs:233`); the
ring is indexed by the attempt (`init/state/decide.rs:86`, `StatefulGivesUp`);
an operator retry overwrites an unnoted failure (:234, `StatefulForgotten`); a
shell inherits terminals (`ShellLeft`); a boot goes on whose attempt was not
recorded (`StatefulWriteError`); a service dies before it synchronised the
selector (`BootSetLateFailure`).

## Not modelled

The contents of images, signatures and configurations (a bundle is verified or
is not), TPM commands, driver images, storage tools, the environment of the
rescue, drawing, and build-time tooling: each is a pass in sequence that keeps
no state the next boot can misread, or a pure conversion. Within the modelled
parts:

- generation state: leftovers of a killed install outside `generations/`, space
  in the store, a signed configuration that fails to load before `prepare_boot`;
- boot state: the CBOR form of `state.bin`;
- seal: the comparison of priorities, the screens, the readiness of the TPM
  driver;
- sessions: detached shells, processes of the rescue that cannot be killed, the
  bytes of the protocol, a child wait that is dropped and left to the reaper;
- keys: resizes, the wheel, the graphical consoles, editing;
- network: static addresses, packets beyond what is compared, HTTP beyond
  success and failure, remainders below a second.

## Plan

1. Done: `GenerationState`, `BootSet`, `StatefulBoot` with abstract
   specifications and histories; `Seal`, `RecoverySessions`, `KeyVeto`,
   `NetRescue`; the proofs above.
2. Done: proofs of the `Calm` properties of `GenerationHistory`, of
   `RescueBounded` and `RequestIsHonoured`, and of `StatefulBoot`.
3. `Poller`: operations queued during a pass, dropped futures, reaping; nothing
   is lost, nothing is woken twice, no child remains.
4. The staged merge as a pure operator; the configuration as a member of a
   generation with its load before `prepare_boot`.
