---------------------------- MODULE RadioJournal ---------------------------
(***************************************************************************)
(* The radio devnode, the recovery journal (btf_pending_enable.txt) and    *)
(* everything that touches either: the usb-cycle (pnp/cycle.rs, R2), the   *)
(* hub-port cycle (pnp/hub.rs, R4), the repair pass (pnp/recovery.rs,      *)
(* rung 0, startup and --recover), and the part of worker.rs::recover_link *)
(* and app.rs that decides when each of them runs.                         *)
(*                                                                         *)
(* Several processes can run these cores at once: the daemon, and one-shot *)
(* tools (--cycle, --recover) that take no lock.  One step is one call     *)
(* that reads or changes the devnode or the marker file.  Timers are       *)
(* abstracted: whether a rung or rung 0 is due is a free choice, except    *)
(* for the per-episode bookkeeping of R2 and R4, which is kept.            *)
(***************************************************************************)
EXTENDS Integers, FiniteSets

CONSTANTS
  Port,             \* USB ports; a devnode per port the dongle was ever in
  Daemon,           \* the resident process
  Tool,             \* one-shot processes that may run beside it
  MaxEnable,        \* R1_REENABLE_ATTEMPTS (5 in the code)
  OtherRadio,       \* TRUE: another radio keeps the peer enumerable
  SurpriseRemoval   \* TRUE: the dongle may vanish inside a repair pass

ASSUME RadioJournalAssumption ==
  /\ Daemon \notin Tool
  /\ MaxEnable \in Nat \ {0}
  /\ OtherRadio \in BOOLEAN
  /\ SurpriseRemoval \in BOOLEAN

Proc == Tool \cup {Daemon}
NoPort == "no port"

VARIABLES
  node,       \* node[p]: started, stopped (a fault, 3010) or disabled (persistent)
  plugged,    \* ports at which the dongle is present
  journal,    \* journal_present()
  usbOff,     \* btf_no_usb_cycle.txt present
  pc,         \* pc[x]: the step process x takes next
  job,        \* job[x]: the core x is running
  port,       \* port[x]: the devnode a cycle picked
  tries,      \* tries[x]: enable attempts made
  ok,         \* ok[x]: the verdict the core will return
  scan,       \* scan[x]: devnodes the repair pass still has to look at
  owns,       \* owns[x]: owns_disable, read once when the repair pass began
  bad,        \* bad[x]: still_disabled > 0
  elevated,   \* the daemon runs elevated
  armedSeen,  \* SharedState::recovery_armed, the daemon's copy of journal;
              \* "unread" while recovery_last_ms = 0, before the first rung 0
  r2Used,     \* R2 was attempted in this episode
  cycled,     \* r2_cycled_in_episode
  ours        \* history: ports left disabled by us, enabled by nobody since

files == <<journal, usbOff>>
hardware == <<node, plugged, ours>>
frame == <<job, port, tries, ok, scan, owns, bad>>
episode == <<armedSeen, r2Used, cycled>>
vars == <<hardware, files, pc, frame, elevated, episode>>

Started(p) == p \in plugged /\ node[p] = "started"

\* perform_poll reaches the peer only over a radio the stack enumerates.
RadioEnumerated == OtherRadio \/ \E p \in Port : Started(p)

\* radio_needs_repair: a persistent disable is ours to undo only when owned.
NeedsRepair(state, owned) == state = "stopped" \/ (state = "disabled" /\ owned)

Job == {"none", "cycle", "hub", "repair", "startup"}
PC == {"idle", "startup", "gate", "choose", "rungs", "r4", "connect",
       "arm", "restart", "disable", "verify", "enable", "walk", "reenum",
       "repair", "disarm", "return"}

TypeOK ==
  /\ node \in [Port -> {"started", "stopped", "disabled"}]
  /\ plugged \in SUBSET Port
  /\ journal \in BOOLEAN /\ usbOff \in BOOLEAN
  /\ pc \in [Proc -> PC]
  /\ job \in [Proc -> Job]
  /\ port \in [Proc -> Port \cup {NoPort}]
  /\ tries \in [Proc -> 0..MaxEnable]
  /\ ok \in [Proc -> BOOLEAN]
  /\ scan \in [Proc -> SUBSET Port]
  /\ owns \in [Proc -> BOOLEAN]
  /\ bad \in [Proc -> BOOLEAN]
  /\ elevated \in BOOLEAN
  /\ armedSeen \in {"unread", "armed", "clear"}
  /\ r2Used \in BOOLEAN /\ cycled \in BOOLEAN
  /\ ours \in SUBSET Port

\* A healthy machine: the dongle in one port, no marker file, daemon polling.
Init ==
  /\ node = [p \in Port |-> "started"]
  /\ \E p \in Port : plugged = {p}
  /\ journal = FALSE /\ usbOff = FALSE
  /\ pc = [x \in Proc |-> "idle"]
  /\ job = [x \in Proc |-> "none"]
  /\ port = [x \in Proc |-> NoPort]
  /\ tries = [x \in Proc |-> 0]
  /\ ok = [x \in Proc |-> FALSE]
  /\ scan = [x \in Proc |-> {}]
  /\ owns = [x \in Proc |-> FALSE]
  /\ bad = [x \in Proc |-> FALSE]
  /\ elevated \in BOOLEAN
  /\ armedSeen = "unread" /\ r2Used = FALSE /\ cycled = FALSE
  /\ ours = {}

Goto(x, to) == pc' = [pc EXCEPT ![x] = to]
Step(x, from, to) == pc[x] = from /\ Goto(x, to)

\* The core of x ends: its verdict is noted, then it disarms or returns.
Conclude(x, next, verdict) ==
  /\ Goto(x, next)
  /\ ok' = [ok EXCEPT ![x] = verdict]

\* The core of x is left and its locals are gone.
ResetFrame(x) ==
  /\ job' = [job EXCEPT ![x] = "none"]
  /\ port' = [port EXCEPT ![x] = NoPort]
  /\ tries' = [tries EXCEPT ![x] = 0]
  /\ ok' = [ok EXCEPT ![x] = FALSE]
  /\ scan' = [scan EXCEPT ![x] = {}]
  /\ owns' = [owns EXCEPT ![x] = FALSE]
  /\ bad' = [bad EXCEPT ![x] = FALSE]

-----------------------------------------------------------------------------
(* The marker file: journal_arm, journal_disarm.                           *)

\* Mutant: a marker that could not be written does not stop the cycle.
ArmFailsIgnored(x) ==
  /\ pc[x] = "arm"
  /\ Goto(x, IF job[x] = "hub" THEN "walk" ELSE "restart")
  /\ UNCHANGED <<hardware, journal, usbOff, frame, elevated, episode>>

\* A failed write may still have created the file, and its existence counts.
ArmFails(x) ==
  /\ pc[x] = "arm"
  /\ Conclude(x, "return", FALSE)
  /\ journal' \in {journal, TRUE}
  /\ UNCHANGED <<hardware, usbOff, job, port, tries, scan, owns, bad, elevated,
                 episode>>

Arm(x) ==
  /\ pc[x] = "arm"
  /\ Goto(x, IF job[x] = "hub" THEN "walk" ELSE "restart")
  /\ journal' = TRUE
  /\ UNCHANGED <<hardware, usbOff, frame, elevated, episode>>

DisarmFails(x) ==
  /\ Step(x, "disarm", "return")
  /\ UNCHANGED <<hardware, files, frame, elevated, episode>>

Disarm(x) ==
  /\ Step(x, "disarm", "return")
  /\ journal' = FALSE
  /\ UNCHANGED <<hardware, usbOff, frame, elevated, episode>>

-----------------------------------------------------------------------------
(* cycle_csr_radio_once.                                                   *)

CycleFrame(x) == UNCHANGED <<plugged, job, port, scan, owns, bad, elevated,
                             episode>>

\* The first CSR radio devnode present, or nothing to cycle: none is present,
\* or the query fails.
BeginCore(x, core) ==
  /\ job' = [job EXCEPT ![x] = core]
  /\ tries' = [tries EXCEPT ![x] = 0]
  /\ \/ /\ Conclude(x, "return", FALSE)
        /\ UNCHANGED port
     \/ \E p \in plugged :
          /\ port' = [port EXCEPT ![x] = p]
          /\ Goto(x, "arm")
          /\ UNCHANGED ok
  /\ UNCHANGED <<hardware, files, scan, owns, bad, elevated, armedSeen, cycled>>

\* What pnputil /restart-device may leave behind: it never sets nor clears
\* the persistent disable, and it cannot reach an unplugged node.
AfterRestart(p) ==
  IF p \in plugged /\ node[p] # "disabled" THEN {node[p], "stopped", "started"}
                                           ELSE {node[p]}

\* Exit 0, and DN_STARTED verified.
RestartVerified(x) ==
  /\ pc[x] = "restart"
  /\ port[x] \in plugged /\ node[port[x]] # "disabled"
  /\ node' = [node EXCEPT ![port[x]] = "started"]
  /\ Conclude(x, "disarm", TRUE)
  /\ UNCHANGED <<files, tries, ours>> /\ CycleFrame(x)

\* Exit 0 too fast: a restart is still queued behind a reboot.  The journal is
\* disarmed over a started radio, then the off marker is written; either file
\* operation may fail unseen, and a crash between the two looks the same.
RestartNoOp(x) ==
  /\ pc[x] = "restart"
  /\ journal' \in IF Started(port[x]) THEN {FALSE, journal} ELSE {journal}
  /\ usbOff' \in {usbOff, TRUE}
  /\ Conclude(x, "return", FALSE)
  /\ UNCHANGED <<node, tries, ours>> /\ CycleFrame(x)

\* 3010: half-stopped, journal left armed.
RestartReboot(x) ==
  /\ pc[x] = "restart"
  /\ usbOff' \in {usbOff, TRUE}
  /\ \E s \in AfterRestart(port[x]) : node' = [node EXCEPT ![port[x]] = s]
  /\ Conclude(x, "return", FALSE)
  /\ UNCHANGED <<journal, tries, ours>> /\ CycleFrame(x)

\* No pnputil, its timeout, another exit code, or an unverified restart.
RestartFails(x) ==
  /\ Step(x, "restart", "disable")
  /\ \E s \in AfterRestart(port[x]) : node' = [node EXCEPT ![port[x]] = s]
  /\ UNCHANGED <<files, tries, ok, ours>> /\ CycleFrame(x)

\* The devnode takes the persistent disable; a node the user had disabled
\* already does not become ours.
SetDisabled(p) ==
  /\ p \in plugged
  /\ node' = [node EXCEPT ![p] = "disabled"]
  /\ ours' = IF node[p] = "disabled" THEN ours ELSE ours \cup {p}

\* DIF_PROPERTYCHANGE or CM_Disable_DevNode was accepted, with or without effect.
DisableAccepted(x) ==
  /\ Step(x, "disable", "verify")
  /\ \/ SetDisabled(port[x])
     \/ UNCHANGED <<node, ours>>
  /\ UNCHANGED <<files, tries, ok>> /\ CycleFrame(x)

\* Mutant: the abort paths disarm whatever the radio looks like.
AbortDisableBlindly(x) == Conclude(x, "disarm", FALSE)

\* The abort paths disarm only over a radio verified STARTED.
AbortDisable(x) ==
  Conclude(x, IF Started(port[x]) THEN "disarm" ELSE "return", FALSE)

DisableRejected(x) ==
  /\ pc[x] = "disable"
  /\ AbortDisable(x)
  /\ UNCHANGED <<node, files, tries, ours>> /\ CycleFrame(x)

DisableObserved(x) ==
  /\ Step(x, "verify", "enable")
  /\ port[x] \in plugged /\ node[port[x]] = "disabled"
  /\ UNCHANGED <<node, files, tries, ok, ours>> /\ CycleFrame(x)

\* Not observed in time: CM_Disable_DevNode is tried, and observed.
DisableRetried(x) ==
  /\ Step(x, "verify", "enable")
  /\ SetDisabled(port[x])
  /\ UNCHANGED <<files, tries, ok>> /\ CycleFrame(x)

\* Neither: abort WITHOUT enabling.
DisableNotObserved(x) ==
  /\ pc[x] = "verify"
  /\ ~(port[x] \in plugged /\ node[port[x]] = "disabled")
  /\ AbortDisable(x)
  /\ UNCHANGED <<node, files, tries, ours>> /\ CycleFrame(x)

EnableStarts(x) ==
  /\ pc[x] = "enable" /\ tries[x] < MaxEnable
  /\ port[x] \in plugged
  /\ node' = [node EXCEPT ![port[x]] = "started"]
  /\ ours' = ours \ {port[x]}
  /\ Conclude(x, "disarm", TRUE)
  /\ UNCHANGED <<files, tries>> /\ CycleFrame(x)

\* Mutant: one attempt too many.
EnableFailsOnceMore(x) ==
  /\ pc[x] = "enable"
  /\ tries' = [tries EXCEPT ![x] = @ + 1]
  /\ UNCHANGED <<node, ours, files, pc, ok>> /\ CycleFrame(x)

\* Mutant: an attempt that the devnode refused is not counted.
EnableFailsUncounted(x) ==
  /\ pc[x] = "enable" /\ tries[x] < MaxEnable
  /\ \/ UNCHANGED <<node, ours>>
     \/ /\ port[x] \in plugged
        /\ node' = [node EXCEPT ![port[x]] = "stopped"]
        /\ ours' = ours \ {port[x]}
  /\ UNCHANGED <<files, pc, ok, tries>> /\ CycleFrame(x)

\* Rejected, or accepted (the flag is cleared) but never STARTED.
EnableFails(x) ==
  /\ pc[x] = "enable" /\ tries[x] < MaxEnable
  /\ tries' = [tries EXCEPT ![x] = @ + 1]
  /\ \/ UNCHANGED <<node, ours>>
     \/ /\ port[x] \in plugged
        /\ node' = [node EXCEPT ![port[x]] = "stopped"]
        /\ ours' = ours \ {port[x]}
  /\ UNCHANGED <<files, pc, ok>> /\ CycleFrame(x)

\* The attempts are used up: the journal stays armed.
EnableGivesUp(x) ==
  /\ pc[x] = "enable" /\ tries[x] = MaxEnable
  /\ Conclude(x, "return", FALSE)
  /\ UNCHANGED <<node, files, tries, ours>> /\ CycleFrame(x)

Cycle(x) ==
  \/ RestartVerified(x) \/ RestartNoOp(x) \/ RestartReboot(x) \/ RestartFails(x)
  \/ DisableAccepted(x) \/ DisableRejected(x) \/ DisableObserved(x)
  \/ DisableRetried(x) \/ DisableNotObserved(x)
  \/ EnableStarts(x) \/ EnableFails(x) \/ EnableGivesUp(x)

-----------------------------------------------------------------------------
(* cycle_csr_hub_port_once.                                                *)

\* The dongle hangs on no scanned hub port: nothing was touched.
WalkFindsNothing(x) ==
  /\ pc[x] = "walk"
  /\ Conclude(x, "disarm", FALSE)
  /\ UNCHANGED <<hardware, files, job, port, tries, scan, owns, bad, elevated,
                 episode>>

\* VBUS is cycled: the dongle may be gone for now; a fault may heal or not,
\* a persistent disable survives.
WalkCycles(x) ==
  /\ Step(x, "walk", "reenum")
  /\ plugged' \in {plugged, plugged \ {port[x]}}
  /\ \E s \in AfterRestart(port[x]) : node' = [node EXCEPT ![port[x]] = s]
  /\ UNCHANGED <<ours, files, frame, elevated, episode>>

\* Presence is the whole check: the devnode need not be started.
Reenumerated(x) ==
  /\ pc[x] = "reenum"
  /\ plugged # {}
  /\ Conclude(x, "disarm", TRUE)
  /\ UNCHANGED <<hardware, files, job, port, tries, scan, owns, bad, elevated,
                 episode>>

NotReenumerated(x) ==
  /\ pc[x] = "reenum"
  /\ plugged = {}
  /\ Conclude(x, "return", FALSE)
  /\ UNCHANGED <<hardware, files, job, port, tries, scan, owns, bad, elevated,
                 episode>>

HubCycle(x) == WalkFindsNothing(x) \/ WalkCycles(x) \/ Reenumerated(x)
               \/ NotReenumerated(x)

-----------------------------------------------------------------------------
(* recover_disabled_radio.                                                 *)

\* Ownership is read once; "found" is the snapshot of the devnodes present.
\* Nothing found (not elevated, the query failed, no radio): journal kept.
BeginRepair(x, core, forced, found) ==
  /\ job' = [job EXCEPT ![x] = core]
  /\ owns' = [owns EXCEPT ![x] = forced \/ journal]
  /\ bad' = [bad EXCEPT ![x] = FALSE]
  /\ ok' = [ok EXCEPT ![x] = FALSE]
  /\ scan' = [scan EXCEPT ![x] = found]
  /\ Goto(x, IF found = {} THEN "return" ELSE "repair")
  /\ UNCHANGED <<hardware, files, port, tries, elevated, episode>>

\* One snapshotted devnode; a status query fails when it is gone by now, and
\* a failed query means "no repair".
RepairSkips(x, p) ==
  /\ pc[x] = "repair" /\ p \in scan[x]
  /\ p \notin plugged \/ ~NeedsRepair(node[p], owns[x])
  /\ scan' = [scan EXCEPT ![x] = @ \ {p}]
  /\ UNCHANGED <<hardware, files, pc, job, port, tries, ok, owns, bad, elevated,
                 episode>>

\* enable_devnode_verified, then pnputil /enable-device and /restart-device.
RepairStarts(x, p) ==
  /\ pc[x] = "repair" /\ p \in scan[x]
  /\ p \in plugged /\ NeedsRepair(node[p], owns[x])
  /\ node' = [node EXCEPT ![p] = "started"]
  /\ ours' = ours \ {p}
  /\ ok' = [ok EXCEPT ![x] = TRUE]
  /\ scan' = [scan EXCEPT ![x] = @ \ {p}]
  /\ UNCHANGED <<plugged, files, pc, job, port, tries, owns, bad, elevated, episode>>

RepairRefused(x, p) ==
  /\ pc[x] = "repair" /\ p \in scan[x]
  /\ p \in plugged /\ NeedsRepair(node[p], owns[x])
  /\ bad' = [bad EXCEPT ![x] = TRUE]
  /\ scan' = [scan EXCEPT ![x] = @ \ {p}]
  /\ \/ UNCHANGED <<node, ours>>
     \/ /\ node' = [node EXCEPT ![p] = "stopped"]
        /\ ours' = ours \ {p}
  /\ UNCHANGED <<plugged, files, pc, job, port, tries, ok, owns, elevated, episode>>

\* Mutant: the marker goes only when this pass repaired something.
RepairDoneIfRepaired(x) ==
  /\ Step(x, "repair", "disarm")
  /\ scan[x] = {} /\ ~bad[x] /\ ok[x]
  /\ UNCHANGED <<hardware, files, frame, elevated, episode>>

\* radio_recovery_done: nothing left disabled, the marker goes.
RepairDone(x) ==
  /\ Step(x, "repair", "disarm")
  /\ scan[x] = {} /\ ~bad[x]
  /\ UNCHANGED <<hardware, files, frame, elevated, episode>>


RepairIncomplete(x) ==
  /\ pc[x] = "repair"
  /\ scan[x] = {} /\ bad[x]
  /\ Conclude(x, "return", FALSE)
  /\ UNCHANGED <<hardware, files, job, port, tries, scan, owns, bad, elevated,
                 episode>>

RepairNode(x, p) == RepairSkips(x, p) \/ RepairStarts(x, p) \/ RepairRefused(x, p)
Repair(x) == RepairDone(x) \/ RepairIncomplete(x) \/ \E p \in Port : RepairNode(x, p)

-----------------------------------------------------------------------------
(* The daemon: app.rs startup and one recover_link pass.                   *)

\* Startup repairs only when the marker exists.
StartupRepair ==
  /\ pc[Daemon] = "startup" /\ journal
  /\ \E found \in {{}, IF elevated THEN plugged ELSE {}} :
       BeginRepair(Daemon, "startup", FALSE, found)

StartupClean ==
  /\ Step(Daemon, "startup", "idle") /\ ~journal
  /\ UNCHANGED <<hardware, files, frame, elevated, episode>>

\* A poll that finds the peer without audio.  No radio, no recover_link.
Poll ==
  /\ Step(Daemon, "idle", "gate")
  /\ RadioEnumerated
  /\ UNCHANGED <<hardware, files, frame, elevated, episode>>

\* should_retry_recovery says "now"; the pass sees the radio ...
RungZero ==
  /\ pc[Daemon] = "gate"
  /\ elevated /\ plugged # {}
  /\ BeginRepair(Daemon, "repair", FALSE, plugged)

\* ... or nothing.
RungZeroBlind ==
  /\ pc[Daemon] = "gate"
  /\ BeginRepair(Daemon, "repair", FALSE, {})

\* should_retry_recovery says "not yet", which it never does the first time.
RungZeroNotDue ==
  /\ Step(Daemon, "gate", "choose")
  /\ armedSeen # "unread"
  /\ UNCHANGED <<hardware, files, frame, elevated, episode>>

\* recovery_blocks_escalation looks at the cached flag.
Blocked ==
  /\ Step(Daemon, "choose", "idle")
  /\ armedSeen = "armed"
  /\ UNCHANGED <<hardware, files, frame, elevated, episode>>

\* Audio request, grace, page: the pass may end here.
PassEnds ==
  /\ Step(Daemon, "choose", "idle")
  /\ armedSeen # "armed"
  /\ UNCHANGED <<hardware, files, frame, elevated, episode>>

EnterLadder ==
  /\ Step(Daemon, "choose", "rungs")
  /\ armedSeen # "armed"
  /\ UNCHANGED <<hardware, files, frame, elevated, episode>>

\* R2: one attempt per episode, off with the marker file.
StartUsbCycle ==
  /\ pc[Daemon] = "rungs"
  /\ ~r2Used /\ ~usbOff
  /\ r2Used' = TRUE
  /\ \/ elevated /\ BeginCore(Daemon, "cycle")
     \/ /\ ~elevated
        /\ Goto(Daemon, "r4")
        /\ UNCHANGED <<hardware, files, frame, elevated, armedSeen, cycled>>

SkipUsbCycle ==
  /\ Step(Daemon, "rungs", "r4")
  /\ UNCHANGED <<hardware, files, frame, elevated, episode>>

\* Mutant: R4 does not wait for a verified R2.
StartHubCycleAnyway ==
  /\ pc[Daemon] = "r4"
  /\ elevated
  /\ BeginCore(Daemon, "hub")
  /\ UNCHANGED r2Used

\* R4: only after a verified R2 of this episode.
StartHubCycle ==
  /\ pc[Daemon] = "r4"
  /\ cycled /\ elevated
  /\ BeginCore(Daemon, "hub")
  /\ UNCHANGED r2Used

SkipHubCycle ==
  /\ Step(Daemon, "r4", "connect")
  /\ UNCHANGED <<hardware, files, frame, elevated, episode>>

Connect ==
  /\ Step(Daemon, "connect", "idle")
  /\ UNCHANGED <<hardware, files, frame, elevated, episode>>

\* The pass goes on with what the core returned.
UsbCycleReturns ==
  /\ pc[Daemon] = "return" /\ job[Daemon] = "cycle"
  /\ Goto(Daemon, IF ok[Daemon] THEN "idle" ELSE "r4")
  /\ cycled' = (cycled \/ ok[Daemon])
  /\ ResetFrame(Daemon)
  /\ UNCHANGED <<hardware, files, elevated, armedSeen, r2Used>>

HubCycleReturns ==
  /\ pc[Daemon] = "return" /\ job[Daemon] = "hub"
  /\ Goto(Daemon, IF ok[Daemon] THEN "idle" ELSE "connect")
  /\ ResetFrame(Daemon)
  /\ UNCHANGED <<hardware, files, elevated, episode>>

\* Startup discards the outcome.
StartupReturns ==
  /\ Step(Daemon, "return", "idle") /\ job[Daemon] = "startup"
  /\ ResetFrame(Daemon)
  /\ UNCHANGED <<hardware, files, elevated, episode>>

\* Rung 0 refreshes the cached flag and ends the pass when something was repaired.
RepairReturns ==
  /\ pc[Daemon] = "return" /\ job[Daemon] = "repair"
  /\ armedSeen' = IF journal THEN "armed" ELSE "clear"
  /\ Goto(Daemon, IF ok[Daemon] THEN "idle" ELSE "choose")
  /\ ResetFrame(Daemon)
  /\ UNCHANGED <<hardware, files, elevated, r2Used, cycled>>

\* Three stable polls with target audio close the episode.
EpisodeCloses ==
  /\ pc[Daemon] = "idle" /\ RadioEnumerated
  /\ r2Used' = FALSE /\ cycled' = FALSE
  /\ UNCHANGED <<hardware, files, pc, frame, elevated, armedSeen>>

\* The beginning of a pass, the gate of R2, and every other step.
UsbCycleGate == StartUsbCycle \/ SkipUsbCycle
PassElsewhere ==
  \/ StartupRepair \/ StartupClean
  \/ RungZero \/ RungZeroBlind \/ RungZeroNotDue
  \/ Blocked \/ PassEnds \/ EnterLadder
  \/ StartHubCycle \/ SkipHubCycle \/ Connect
  \/ UsbCycleReturns \/ HubCycleReturns \/ StartupReturns \/ RepairReturns
Pass == Poll \/ UsbCycleGate \/ PassElsewhere

-----------------------------------------------------------------------------
(* The one-shot tools, elevated or they abort at once.                     *)

ToolStarts(x) ==
  /\ pc[x] = "idle"
  /\ \/ BeginCore(x, "cycle") /\ UNCHANGED r2Used
     \/ \E found \in {{}, plugged} : BeginRepair(x, "repair", TRUE, found)

ToolExits(x) ==
  /\ Step(x, "return", "idle")
  /\ ResetFrame(x)
  /\ UNCHANGED <<hardware, files, elevated, episode>>

-----------------------------------------------------------------------------
(* The world.                                                              *)

\* A process is killed at any step; what it did stays done.
DaemonRestarts ==
  /\ Goto(Daemon, "startup")
  /\ ResetFrame(Daemon)
  /\ elevated' \in BOOLEAN
  /\ armedSeen' = "unread" /\ r2Used' = FALSE /\ cycled' = FALSE
  /\ UNCHANGED <<hardware, files>>

ToolKilled(x) ==
  /\ pc[x] # "idle"
  /\ Goto(x, "idle")
  /\ ResetFrame(x)
  /\ UNCHANGED <<hardware, files, elevated, episode>>

RepairRunning == \E x \in Proc : pc[x] = "repair"

Unplug(p) ==
  /\ p \in plugged
  /\ SurpriseRemoval \/ ~RepairRunning
  /\ plugged' = plugged \ {p}
  /\ UNCHANGED <<node, ours, files, pc, frame, elevated, episode>>

\* A replug starts a stopped node or leaves it faulty; a disable survives.
Plug(p) ==
  /\ plugged = {}
  /\ plugged' = {p}
  /\ \E s \in IF node[p] = "disabled" THEN {"disabled"} ELSE {"started", "stopped"} :
       node' = [node EXCEPT ![p] = s]
  /\ UNCHANGED <<ours, files, pc, frame, elevated, episode>>

\* Device Manager.
UserDisables(p) ==
  /\ p \in plugged /\ node[p] # "disabled"
  /\ node' = [node EXCEPT ![p] = "disabled"]
  /\ UNCHANGED <<plugged, ours, files, pc, frame, elevated, episode>>

UserEnables(p) ==
  /\ p \in plugged /\ node[p] = "disabled"
  /\ node' = [node EXCEPT ![p] = "started"]
  /\ ours' = ours \ {p}
  /\ UNCHANGED <<plugged, files, pc, frame, elevated, episode>>

UserDeletesUsbOff ==
  /\ usbOff
  /\ usbOff' = FALSE
  /\ UNCHANGED <<hardware, journal, pc, frame, elevated, episode>>

World ==
  \/ EpisodeCloses \/ UserDeletesUsbOff
  \/ \E p \in Port : Unplug(p) \/ Plug(p) \/ UserDisables(p) \/ UserEnables(p)
  \/ \E x \in Tool : ToolStarts(x) \/ ToolExits(x) \/ ToolKilled(x)

Core(x) == Arm(x) \/ ArmFails(x) \/ Disarm(x) \/ DisarmFails(x)
           \/ Cycle(x) \/ HubCycle(x) \/ Repair(x)

Next == Pass \/ DaemonRestarts \/ World \/ \E x \in Proc : Core(x)

\* The worker polls and a pass runs to its end; a due repair is not put off for
\* ever (its backoff is capped), its device query and its enable succeed now
\* and then, and so does deleting the marker.  Neither the user, nor the plug,
\* nor a crash is fair.
Fairness ==
  /\ WF_vars(Pass) /\ WF_vars(Core(Daemon))
  /\ SF_vars(RungZero) /\ SF_vars(Repair(Daemon))
  /\ \A p \in Port : SF_vars(RepairStarts(Daemon, p))
  /\ SF_vars(RepairDone(Daemon)) /\ SF_vars(Disarm(Daemon))

Spec == Init /\ [][Next]_vars /\ Fairness

\* The user leaves a radio that we hold disabled where it is: it may be pulled
\* out, though not from under a repair pass, and goes back into its own port.
\* A radio that we do not hold disabled moves as it likes.
CarefulUser ==
  ours # {} =>
    /\ plugged' \ plugged \subseteq ours
    /\ RepairRunning => plugged \subseteq plugged'

CarefulSpec == Init /\ [][Next /\ CarefulUser]_vars

-----------------------------------------------------------------------------
(* Properties.                                                             *)

\* A devnode left disabled by us is covered by the marker in every state a
\* crash can expose (cycle.rs arms before it disables; recovery.rs: the marker
\* means "a persistent disable of ours is unaccounted for").
DisableIsJournalled == ours # {} => journal

\* R4 never cuts the power of a radio that one of our own disables holds down:
\* it waits for a verified R2 of the same episode, and an episode has one R2.
HubCycleSparesOurDisable ==
  pc[Daemon] \in {"walk", "reenum"} => ours = {}

\* The strengthening that makes the two inductive for one process.
\* The dongle is in one port at a time, and while a disable of ours stands it
\* is in that port or in none.
DisableStaysWithDongle ==
  /\ \A p, q \in plugged : p = q
  /\ \A p, q \in ours : p = q
  /\ ours # {} => plugged \subseteq ours
  /\ \A p \in ours : node[p] = "disabled"

\* Between cores no core is entered, and a usb-cycle is the first of its episode.
Bookkeeping ==
  /\ pc[Daemon] \in {"idle", "startup", "gate", "choose", "rungs", "r4", "connect"}
       => job[Daemon] = "none"
  /\ pc[Daemon] \in {"restart", "disable", "verify", "enable"}
       => job[Daemon] = "cycle" /\ journal
  /\ pc[Daemon] = "arm" => job[Daemon] \in {"cycle", "hub"}
  /\ job[Daemon] = "cycle" => r2Used /\ ~cycled
  /\ cycled => r2Used

\* A repair pass that has given up on no devnode still has ours before it.
RepairCoversDisable ==
  pc[Daemon] = "repair" =>
    /\ ~bad[Daemon] => ours \subseteq scan[Daemon] \cap plugged
    /\ ~owns[Daemon] => ours = {}

\* Where the code is about to trust the radio, no disable of ours is left.
TrustsRadio ==
  \/ pc[Daemon] = "disarm"
  \/ pc[Daemon] = "arm" /\ job[Daemon] = "hub"
  \/ pc[Daemon] = "return" /\ job[Daemon] = "cycle" /\ ok[Daemon]
  \/ cycled

DisableAccountedFor == TrustsRadio => ours = {}

IInv ==
  /\ DisableIsJournalled
  /\ HubCycleSparesOurDisable
  /\ DisableStaysWithDongle
  /\ Bookkeeping
  /\ RepairCoversDisable
  /\ DisableAccountedFor

\* While the marker exists every escalation rung is blocked (recovery.rs), so
\* no pass stands before the rungs with a marker on disk.
LadderBlockedByJournal == pc[Daemon] = "rungs" => ~journal

\* Repair before escalate: with the dongle in, the process elevated and passes
\* starting again and again, a marker does not outlive every repair, whatever
\* crashes, refusals and user changes come between (recovery.rs: the repair
\* pass keeps trying to bring the radio back).
PassesStart == []<>(pc[Daemon] = "gate")
RadioReachable == <>[](elevated /\ plugged # {})
JournalSettles == (PassesStart /\ RadioReachable) => (journal ~> ~journal)

\* A core and a pass are straight lines of synchronous calls inside the only
\* poll loop (worker.rs: recover_link): whatever the devnodes, the stack, the
\* user and the other processes do, each step of a process leaves a stage for
\* good or uses up one of its calls, until it is done; unless it is killed.
StagesAfterCore(core) ==
  CASE core = "repair" -> 18 [] core = "cycle" -> 9 [] core = "hub" -> 1 [] OTHER -> 0

StagesOfCore(p) ==
  CASE p = "return" -> 1 [] p = "disarm" -> 2 [] p \in {"enable", "repair", "reenum"} -> 3
    [] p \in {"verify", "walk"} -> 4 [] p = "disable" -> 5 [] p = "restart" -> 6
    [] OTHER -> 7

StagesLeft(p, core) ==
  CASE p = "idle" -> 0 [] p = "connect" -> 1 [] p = "r4" -> 9 [] p = "rungs" -> 17
    [] p = "choose" -> 18 [] p \in {"gate", "startup"} -> 22
    [] OTHER -> StagesOfCore(p) + StagesAfterCore(core)

UsesUpCall(x) ==
  /\ pc'[x] = pc[x] /\ job'[x] = job[x]
  /\ \/ pc[x] = "enable" /\ tries'[x] = tries[x] + 1 /\ tries'[x] <= MaxEnable
     \/ pc[x] = "repair" /\ scan'[x] \subseteq scan[x] /\ scan'[x] # scan[x]

RunsOut(x) ==
  \/ StagesLeft(pc'[x], job'[x]) < StagesLeft(pc[x], job[x])
  \/ UsesUpCall(x)

Untouched(x) ==
  UNCHANGED <<pc[x], job[x], port[x], tries[x], ok[x], scan[x], owns[x], bad[x]>>

WorkRunsOut ==
  [][\A x \in Proc :
       /\ Core(x) => RunsOut(x)
       /\ pc[x] # "idle" => RunsOut(x) \/ Untouched(x) \/ pc'[x] = "startup"]_vars

\* "The repair rung KEEPS RETRYING ... because the journal is still armed"
\* (cycle.rs): while our disable, its marker, the elevation, the dongle and the
\* process stay, repair passes keep coming.
RepairKeepsRetrying ==
  <>[](ours # {} /\ journal /\ elevated /\ plugged # {} /\ pc[Daemon] # "startup")
    => []<>(pc[Daemon] = "repair")

\* The write-ahead discipline both markers follow: this one covers every port.
Undo == INSTANCE UndoJournal WITH
  Resource <- Port,
  promised <- IF journal THEN Port ELSE {},
  damaged  <- ours

ImplementsUndoJournal == Undo!Spec
=============================================================================
