-------------------------------- MODULE Seal --------------------------------
(***************************************************************************)
(* One machine from power-on to a booted target, a rescue or a halt, as    *)
(* far as its TPM-unsealed volumes are concerned: cryptsetup children open *)
(* mappers, a registry in memory and in a file remembers them, and before  *)
(* any shell, menu or rescue the seal caps the lock register and closes    *)
(* what the registry names.  A refused boot leaves the rescue sentinel on  *)
(* the boot file system for the next one.  A panic re-executes the program *)
(* without its memory; the kernel's mappers, mounts and children stay.     *)
(***************************************************************************)
EXTENDS Naturals

CONSTANTS
  Mappers,    \* the volumes that `luks-tpm` activations open
  Root,       \* the one that holds the system root
  Boxes,      \* the machines considered
  Faults      \* what may fail: a subset of FaultKinds

FaultKinds == {"cap", "close", "append", "rewrite", "modules", "panic", "power"}

BoxType ==
  [tpm : BOOLEAN,           \* the machine has a TPM
   requireTpm : BOOLEAN,    \* [tpm].require_tpm
   automatic : BOOLEAN,     \* [rescue].automatic
   rescue : {"embedded", "external", "none"},   \* [rescue].mode
   bootstrap : BOOLEAN,     \* the configuration is read from a boot volume
   writable : BOOLEAN]      \* ... which is mounted read-write

ASSUME RootAssumption == Root \in Mappers
ASSUME BoxAssumption == Boxes \subseteq BoxType
ASSUME FaultAssumption == Faults \subseteq FaultKinds

VARIABLES
  box,        \* the machine
  \* kept by the kernel and the TPM until the machine restarts
  capped,     \* the lock register is capped: nothing unseals any more
  open,       \* mappers that exist
  mounts,     \* mappers with a mounted file system
  child,      \* for every mapper, what its cryptsetup child is doing
  shells,     \* a shell outlives the menu that started it
  file,       \* the registry file
  \* kept by the process
  mem,        \* the registry in memory
  latch,      \* the register was capped by this process
  lost,       \* the configuration of the boot volume is lost
  pc,         \* where the process is
  goal,       \* what it seals for
  todo,       \* mappers still to open, or still to close
  waits,      \* the mapper whose child it waits for, or none
  retry,      \* the boot is retried from the menu
  resort,     \* this rescue is the answer to the final failure of the boot
  entered,    \* times this process entered rescue on its own
  \* kept on disk
  sentinel,   \* the rescue sentinel
  \* history
  missed,     \* mappers that a panic hid from the registry
  asked       \* whether the next boot has to come up in rescue

kernel == <<capped, open, mounts, child, shells, file>>
path == <<retry, resort, entered, lost>>
vars == <<box, kernel, mem, latch, pc, goal, todo, waits, path, sentinel,
          missed, asked>>

Goals == {"none", "menu", "shell", "modal", "rescue", "dispatch", "execve", "refuse"}
Places == {"off", "start", "opening", "ready", "booted", "halted", "capping",
           "closing", "menu", "shell", "loading", "image", "console", "child",
           "marking", "relocking"}

TypeOK ==
  /\ box \in Boxes
  /\ capped \in BOOLEAN /\ shells \in BOOLEAN /\ latch \in BOOLEAN
  /\ lost \in BOOLEAN /\ retry \in BOOLEAN /\ resort \in BOOLEAN
  /\ open \in SUBSET Mappers /\ mounts \in SUBSET Mappers
  /\ file \in SUBSET Mappers /\ mem \in SUBSET Mappers
  /\ todo \in SUBSET Mappers /\ missed \in SUBSET Mappers
  /\ child \in [Mappers -> {"idle", "asking", "keyed"}]
  /\ waits \in SUBSET Mappers
  /\ pc \in Places /\ goal \in Goals
  /\ entered \in Nat
  /\ sentinel \in {"none", "cached", "durable"}
  /\ asked \in {"no", "refused", "requested"}

Init ==
  /\ box \in Boxes
  /\ capped = FALSE /\ open = {} /\ mounts = {} /\ file = {}
  /\ child = [m \in Mappers |-> "idle"]
  /\ shells = FALSE /\ mem = {} /\ latch = FALSE /\ lost = FALSE
  /\ pc = "start" /\ goal = "none" /\ todo = {} /\ waits = {}
  /\ retry = FALSE /\ resort = FALSE /\ entered = 0
  /\ sentinel = "none" /\ missed = {} /\ asked = "no"

-----------------------------------------------------------------------------
(* Configuration and paths *)

\* A process that lost its configuration runs on built-in defaults.
Automatic == box.automatic /\ ~lost
TpmRequired == box.requireTpm /\ ~lost /\ goal # "execve"

\* The sentinel's directory: on the boot volume that bootstrap mode mounts, or
\* below the system root.
SentinelInReach == IF box.bootstrap THEN ~lost ELSE Root \in mounts
SentinelWritable == SentinelInReach /\ box.writable

\* Rescue, the menu, a shell and the refusal begin with the seal.
SealFor(g) == pc' = "capping" /\ goal' = g /\ todo' = {} /\ waits' = {}
To(p) == pc' = p /\ goal' = "none" /\ todo' = {} /\ waits' = {}

EnterRescue(last) ==
  /\ SealFor("rescue")
  /\ entered' = entered + 1 /\ resort' = last
  /\ UNCHANGED <<retry, lost>>

OpenMenu == SealFor("menu") /\ UNCHANGED path

-----------------------------------------------------------------------------
(* The boot *)

\* The built-in defaults configure no volumes.
Configured == IF lost THEN {} ELSE Mappers

OpenVolumes ==
  pc' = "opening" /\ goal' = "none" /\ todo' = Configured /\ waits' = {}

Begin ==
  /\ pc = "start"
  /\ IF box.bootstrap /\ sentinel # "none"
     THEN EnterRescue(FALSE)
     ELSE OpenVolumes /\ UNCHANGED path
  /\ UNCHANGED <<box, kernel, mem, latch, sentinel, missed, asked>>

\* Before the console is open a failure goes through handle_boot_failure, but
\* for a generation declared failed.
EarlyFailure ==
  /\ pc = "start"
  /\ IF Automatic THEN \E last \in BOOLEAN : EnterRescue(last) ELSE OpenMenu
  /\ UNCHANGED <<box, kernel, mem, latch, sentinel, missed, asked>>

Spawn(m) ==
  /\ pc = "opening" /\ waits = {} /\ m \in todo /\ child[m] = "idle"
  /\ child' = [child EXCEPT ![m] = IF m \in open THEN "idle" ELSE "asking"]
  /\ waits' = {m}
  /\ UNCHANGED <<box, capped, open, mounts, shells, file, mem, latch, pc, goal,
                 todo, path, sentinel, missed, asked>>

\* The children run on their own: a panic does not end them.
Unseal(m) ==
  /\ child[m] = "asking" /\ box.tpm /\ ~capped
  /\ child' = [child EXCEPT ![m] = "keyed"]
  /\ UNCHANGED open

Map(m) ==
  /\ child[m] = "keyed"
  /\ open' = open \cup {m}
  /\ child' = [child EXCEPT ![m] = "idle"]

GiveUp(m) ==
  /\ child[m] \in {"asking", "keyed"}
  /\ child' = [child EXCEPT ![m] = "idle"]
  /\ UNCHANGED open

ChildStep ==
  /\ \E m \in Mappers : Unseal(m) \/ Map(m) \/ GiveUp(m)
  /\ pc # "off"
  /\ UNCHANGED <<box, capped, mounts, shells, file, mem, latch, pc, goal, todo,
                 waits, path, sentinel, missed, asked>>

\* The child ended well, or found its mapper in place.
Register(m) ==
  /\ pc = "opening" /\ waits = {m} /\ child[m] = "idle" /\ m \in open
  /\ mem' = mem \cup {m}
  /\ \/ m \in mem /\ UNCHANGED file
     \/ m \notin mem /\ file' = file \cup {m}
     \/ m \notin mem /\ "append" \in Faults /\ UNCHANGED file
  /\ waits' = {} /\ todo' = todo \ {m}
  /\ UNCHANGED <<box, capped, open, mounts, child, shells, latch, pc, goal,
                 path, sentinel, missed, asked>>

\* A failed session enters rescue when that is automatic; a failed retry goes
\* back to the menu it came from.
BootFails ==
  IF retry THEN To("menu") /\ UNCHANGED path
  ELSE IF Automatic THEN EnterRescue(FALSE)
  ELSE OpenMenu

ActivationFails(m) ==
  /\ pc = "opening" /\ waits = {m} /\ child[m] = "idle" /\ m \notin open
  /\ BootFails
  /\ UNCHANGED <<box, kernel, mem, latch, sentinel, missed, asked>>

\* A volume with a passphrase: the modal offers a shell, and a reboot that a
\* retried boot takes for an ordinary failure.
AskForShell ==
  /\ pc = "opening" /\ waits = {}
  /\ SealFor("modal") /\ UNCHANGED path
  /\ UNCHANGED <<box, kernel, mem, latch, sentinel, missed, asked>>

AskForReboot ==
  /\ pc = "opening" /\ waits = {}
  /\ To(IF retry THEN "menu" ELSE "off") /\ UNCHANGED path
  /\ UNCHANGED <<box, kernel, mem, latch, sentinel, missed, asked>>

\* Phase 3b, up to the file system that fails.
MountSystem(up) ==
  /\ pc = "opening" /\ waits = {} /\ todo = {}
  /\ up \subseteq Configured /\ (up # {} => Root \in up)
  /\ mounts' = mounts \cup up
  /\ IF up = Configured THEN To("ready") /\ UNCHANGED path ELSE BootFails
  /\ UNCHANGED <<box, capped, open, child, shells, file, mem, latch, sentinel,
                 missed, asked>>

\* The sentinel is looked at again once the boot volume is certainly mounted.
FindSentinel ==
  /\ pc = "ready" /\ ~retry /\ SentinelInReach /\ sentinel # "none"
  /\ EnterRescue(FALSE)
  /\ UNCHANGED <<box, kernel, mem, latch, sentinel, missed, asked>>

Boot ==
  /\ pc = "ready" /\ ~lost /\ (retry \/ ~SentinelInReach \/ sentinel = "none")
  /\ To("booted") /\ UNCHANGED path
  /\ UNCHANGED <<box, kernel, mem, latch, sentinel, missed, asked>>

SelectionFails ==
  /\ pc = "ready" /\ BootFails
  /\ UNCHANGED <<box, kernel, mem, latch, sentinel, missed, asked>>

\* A driver image, the priority gate or a signature check refuses the boot.
Refuse ==
  /\ pc \in {"start", "opening", "ready"} /\ waits = {}
  /\ SealFor("refuse") /\ UNCHANGED path
  /\ UNCHANGED <<box, kernel, mem, latch, sentinel, missed, asked>>

-----------------------------------------------------------------------------
(* The seal *)

CanCap == box.tpm \/ ~TpmRequired

\* The strict seal stops at its first failure and so does whatever it was for.
\* The modal reboots, or in a retried boot falls back to the menu.
Abandon ==
  /\ UNCHANGED path
  /\ IF goal = "modal" THEN To(IF retry THEN "menu" ELSE "off")
     ELSE IF goal = "execve" THEN To("halted")
     ELSE SealFor("refuse")

\* A seal that trusts the memory of the process alone.
SnapshotMemory == pc' = "closing" /\ todo' = mem /\ UNCHANGED <<goal, waits, path>>

Snapshot == pc' = "closing" /\ todo' = mem \cup file /\ UNCHANGED <<goal, waits, path>>

Cap ==
  /\ pc = "capping"
  /\ \/ latch /\ UNCHANGED <<capped, latch>>
     \/ ~latch /\ CanCap /\ latch' = TRUE /\ capped' = (capped \/ box.tpm)
  /\ Snapshot
  /\ UNCHANGED <<box, open, mounts, child, shells, file, mem, sentinel, missed, asked>>

\* A failure to cap taken for a missing TPM.
CapFailsOpen ==
  /\ pc = "capping" /\ ~latch
  /\ ~CanCap \/ (box.tpm /\ "cap" \in Faults)
  /\ IF goal = "refuse" \/ ~TpmRequired THEN Snapshot ELSE Abandon
  /\ UNCHANGED <<box, kernel, mem, latch, sentinel, missed, asked>>

CapFails ==
  /\ pc = "capping" /\ ~latch
  /\ ~CanCap \/ (box.tpm /\ "cap" \in Faults)
  /\ IF goal = "refuse" THEN Snapshot ELSE Abandon
  /\ UNCHANGED <<box, kernel, mem, latch, sentinel, missed, asked>>

\* What stays mounted when `m` is about to be closed.  Only the strict seal
\* detaches, and what hangs below the system root goes with it.
Kept(m) ==
  IF goal = "refuse" \/ m \notin open THEN mounts
  ELSE IF m = Root THEN {} ELSE mounts \ {m}

\* The registry file is rewritten in place; errors are ignored.
Forget(m) ==
  /\ mem' = mem \ {m}
  /\ \/ file' = file \ {m}
     \/ "rewrite" \in Faults /\ file' \in {file, {}}

Close(m) ==
  /\ pc = "closing" /\ m \in todo
  /\ mounts' = Kept(m) /\ m \notin mounts'
  /\ open' = open \ {m}
  /\ Forget(m)
  /\ todo' = todo \ {m}
  /\ UNCHANGED <<box, capped, child, shells, latch, pc, goal, waits, path,
                 sentinel, missed, asked>>

CloseFails(m) ==
  /\ pc = "closing" /\ m \in todo /\ m \in open
  /\ mounts' = Kept(m) /\ (m \in mounts' \/ "close" \in Faults)
  /\ IF goal = "refuse" THEN todo' = todo \ {m} /\ UNCHANGED <<pc, goal, waits, path>>
     ELSE Abandon
  /\ UNCHANGED <<box, capped, open, child, shells, file, mem, latch, sentinel,
                 missed, asked>>

\* The modal's shell left without a place to go.
AfterStray ==
  [menu |-> "menu", shell |-> "shell", modal |-> "prompt", rescue |-> "loading",
   dispatch |-> "image", execve |-> "console", refuse |-> "marking", none |-> "halted"]

After == [menu |-> "menu", shell |-> "shell", modal |-> "shell", rescue |-> "loading",
          dispatch |-> "image", execve |-> "console", refuse |-> "marking", none |-> "halted"]

Sealed ==
  /\ pc = "closing" /\ todo = {}
  /\ pc' = After[goal]
  /\ asked' = IF goal = "execve" THEN "no" ELSE asked
  /\ UNCHANGED <<box, kernel, mem, latch, goal, todo, waits, path, sentinel, missed>>

-----------------------------------------------------------------------------
(* Menu, shell and rescue *)

ChooseShell ==
  /\ pc = "menu" /\ SealFor("shell") /\ UNCHANGED path
  /\ UNCHANGED <<box, kernel, mem, latch, sentinel, missed, asked>>

ChooseReboot ==
  /\ pc \in {"menu", "ready"} /\ To("off") /\ UNCHANGED path
  /\ UNCHANGED <<box, kernel, mem, latch, sentinel, missed, asked>>

ChooseRetry ==
  /\ pc = "menu"
  /\ OpenVolumes
  /\ retry' = TRUE /\ UNCHANGED <<resort, entered, lost>>
  /\ UNCHANGED <<box, kernel, mem, latch, sentinel, missed, asked>>

\* A shell ends, or is left running on other consoles.
LeaveShell ==
  /\ pc = "shell" /\ shells' \in {shells, TRUE}
  /\ IF goal = "modal" /\ ~retry THEN OpenMenu ELSE To("menu") /\ UNCHANGED path
  /\ UNCHANGED <<box, capped, open, mounts, child, file, mem, latch, sentinel,
                 missed, asked>>

LoadModules ==
  /\ pc = "loading" /\ SealFor("dispatch") /\ UNCHANGED path
  /\ UNCHANGED <<box, kernel, mem, latch, sentinel, missed, asked>>

\* Every failure to load a module taken for a failed boot.
LoadFailsAgain ==
  /\ pc = "loading" /\ "modules" \in Faults /\ entered < 4
  /\ IF Automatic THEN EnterRescue(TRUE) ELSE OpenMenu
  /\ UNCHANGED <<box, kernel, mem, latch, sentinel, missed, asked>>

\* A module that does not load is a boot error like any other, which may enter
\* rescue; only the last resort goes to the menu.
LoadFails ==
  /\ pc = "loading" /\ "modules" \in Faults
  /\ IF Automatic /\ ~resort THEN EnterRescue(TRUE) ELSE OpenMenu
  /\ UNCHANGED <<box, kernel, mem, latch, sentinel, missed, asked>>

\* The request consumed when the rescue starts, not when its console is ready.
DispatchConsumes ==
  /\ pc = "image" /\ UNCHANGED path
  /\ \/ box.rescue = "embedded" /\ SealFor("execve")
     \/ box.rescue = "none" /\ To("halted")
     \/ box.rescue = "external" /\ (SealFor("refuse") \/ To("halted") \/ To("child"))
  /\ sentinel' = IF SentinelWritable THEN "none" ELSE sentinel
  /\ UNCHANGED <<box, kernel, mem, latch, missed, asked>>

Dispatch ==
  /\ pc = "image" /\ UNCHANGED path
  /\ \/ box.rescue = "embedded" /\ SealFor("execve")
     \/ box.rescue = "none" /\ To("halted")
     \* untrusted; neither image can be mounted; a child runs in the image
     \/ box.rescue = "external" /\ (SealFor("refuse") \/ To("halted") \/ To("child"))
  /\ UNCHANGED <<box, kernel, mem, latch, sentinel, missed, asked>>

\* The child reports its console; the request is removed where it was pinned,
\* unless the boot state cannot be written first.
ChildReady ==
  /\ pc = "child"
  /\ asked' = "no"
  /\ \/ SentinelWritable /\ sentinel' = "none"
     \/ UNCHANGED sentinel
  /\ UNCHANGED <<box, kernel, mem, latch, pc, goal, todo, waits, path, missed>>

ChildEnds ==
  /\ pc = "child" /\ To("off") /\ UNCHANGED path
  /\ UNCHANGED <<box, kernel, mem, latch, sentinel, missed, asked>>

-----------------------------------------------------------------------------
(* The refusal *)

WriteSentinel ==
  /\ pc = "marking"
  /\ IF SentinelWritable
     THEN /\ sentinel' = IF sentinel = "none" THEN "cached" ELSE sentinel
          /\ asked' = IF asked = "no" THEN "refused" ELSE asked
     ELSE UNCHANGED <<sentinel, asked>>
  /\ pc' = "relocking"
  /\ UNCHANGED <<box, kernel, mem, latch, goal, todo, waits, path, missed>>

\* Every configured volume is closed if it can be; then the machine restarts.
Relock ==
  /\ pc = "relocking"
  /\ open' \in SUBSET open /\ open \ open' \subseteq Configured \ mounts
  /\ To("off") /\ UNCHANGED path
  /\ UNCHANGED <<box, capped, mounts, child, shells, file, mem, latch, sentinel,
                 missed, asked>>

-----------------------------------------------------------------------------
(* The machine *)

Running == pc \notin {"off", "booted", "halted", "console"}

\* The hook re-executes the program, which reports the panic to the menu or,
\* where that is automatic, enters rescue.
Panic ==
  /\ "panic" \in Faults /\ Running
  /\ mem' = {} /\ latch' = FALSE /\ lost' = box.bootstrap
  /\ shells' = (shells \/ pc \in {"shell", "child"})
  /\ missed' = missed \cup (open \ file) \cup {m \in Mappers : child[m] # "idle"}
  /\ retry' = FALSE
  /\ IF box.automatic /\ ~box.bootstrap
     THEN SealFor("rescue") /\ entered' = 1 /\ resort' = TRUE
     ELSE SealFor("menu") /\ entered' = 0 /\ resort' = FALSE
  /\ UNCHANGED <<box, capped, open, mounts, child, file, sentinel, asked>>

Flush ==
  /\ sentinel = "cached" /\ sentinel' = "durable" /\ asked' = "requested"
  /\ UNCHANGED <<box, kernel, mem, latch, pc, goal, todo, waits, path, missed>>

PowerLoss ==
  /\ "power" \in Faults /\ pc # "off" /\ To("off") /\ UNCHANGED path
  /\ UNCHANGED <<box, kernel, mem, latch, sentinel, missed, asked>>

\* `nmblctl reboot-rescue` on the booted target.
RequestRescue ==
  /\ pc = "booted" /\ box.rescue # "none"
  /\ sentinel' = "durable" /\ asked' = "requested"
  /\ To("off") /\ UNCHANGED path
  /\ UNCHANGED <<box, kernel, mem, latch, missed>>

ShutDown ==
  /\ pc \in {"booted", "halted", "console"} /\ To("off") /\ UNCHANGED path
  /\ UNCHANGED <<box, kernel, mem, latch, sentinel, missed, asked>>

\* No program synchronises the boot volume before the machine restarts.
PowerOn ==
  /\ pc = "off"
  /\ To("start")
  /\ capped' = FALSE /\ open' = {} /\ mounts' = {} /\ file' = {} /\ shells' = FALSE
  /\ child' = [m \in Mappers |-> "idle"]
  /\ mem' = {} /\ latch' = FALSE /\ lost' = FALSE /\ retry' = FALSE
  /\ resort' = FALSE /\ entered' = 0 /\ missed' = {}
  /\ sentinel' = IF sentinel = "cached" THEN "none" ELSE sentinel
  /\ UNCHANGED <<box, asked>>

Next ==
  \/ Begin \/ EarlyFailure \/ AskForShell \/ AskForReboot \/ ChildStep
  \/ \E m \in Mappers : Spawn(m) \/ Register(m) \/ ActivationFails(m)
  \/ \E up \in SUBSET Mappers : MountSystem(up)
  \/ FindSentinel \/ Boot \/ SelectionFails \/ Refuse
  \/ Cap \/ CapFails \/ Sealed
  \/ \E m \in Mappers : Close(m) \/ CloseFails(m)
  \/ ChooseShell \/ ChooseReboot \/ ChooseRetry \/ LeaveShell
  \/ LoadModules \/ LoadFails \/ Dispatch \/ ChildReady \/ ChildEnds
  \/ WriteSentinel \/ Relock
  \/ Panic \/ Flush \/ PowerLoss \/ RequestRescue \/ ShutDown \/ PowerOn

Spec == Init /\ [][Next]_vars

-----------------------------------------------------------------------------
(* Properties *)

\* An operator, or a shell left behind, is in front of the machine.
Interactive == pc \in {"menu", "shell", "child", "console"} \/ shells

\* Nothing interactive runs before the lock register is capped, whatever path
\* led there and however often the program panicked.
InteractiveIsCapped == Interactive /\ box.tpm => capped

\* No TPM-unsealed volume is open beside anything interactive, but for those
\* whose record a panic destroyed: a mapper the child maps after the panic, or
\* one whose line could not be written to the registry file.
InteractiveHasNoMapper == Interactive => open \subseteq missed

\* Entering rescue on a failure ends: at most one more attempt follows, then
\* the menu.
RescueBounded == entered <= 2

\* A boot that nobody attends to starts no generation between a request for
\* rescue that reached the disk and the rescue console that answers it.
RequestIsHonoured ==
  [][asked = "requested" /\ pc = "ready" /\ pc' = "booted" => retry]_vars

\* README.md, "The rescue sentinel": "The refuse path writes this file, so a
\* refused boot comes up in rescue on the next start."
RefusalIsHonoured ==
  [][asked = "refused" /\ pc = "ready" /\ pc' = "booted" => retry]_vars

\* main.rs on handle_boot_failure: "A rescue that itself fails falls back to
\* the menu (never a second rescue attempt)."
RescueTriedOnce == entered <= 1
=============================================================================
