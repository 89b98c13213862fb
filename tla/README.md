# Bluetooth Force: TLA+ models, checks and proofs

Bluetooth Force is a Windows daemon that keeps one pair of Bluetooth earbuds
connected: it polls the stack, repairs and escalates when the link is down, and
plays silence when it is up.  This directory models its control, checks the
models with TLC and proves the central results with TLAPS.

## 1. Inventory

Paths are relative to `src/src/`.

| Component | Code | State it keeps | Operations | Correct means |
|---|---|---|---|---|
| Profile-driver reconnect | `connect_fsm.rs`, `connect.rs` | installed drivers (OS), `btf_pending_service_enable.txt` | `drive_connect`, `toggle_profile`, `reenable_profile`, `debt_arm/clear/profile`, `repay_debt` | a driver we removed is named on disk until it is back, and comes back |
| Radio journal, rung 0 | `pnp/recovery.rs`, `pnp/devnode.rs` | `btf_pending_enable.txt`, devnode states | `journal_arm/disarm`, `recover_disabled_radio` | a disable of ours is covered by the marker and is repaired |
| usb-cycle R2, `--cycle` | `pnp/cycle.rs`, `modes/cycle.rs` | radio devnode, `btf_no_usb_cycle.txt` | restart, disable, verify, enable | no exit forgets a stopped radio |
| hub-port cycle R4 | `pnp/hub.rs` | port power | walk, cycle, wait for re-enumeration | never on a radio we hold disabled |
| earbud restart R3 | `pnp/restart.rs` | earbud devnodes | pnputil or disable/enable | nodes come back |
| Poll worker, ladder | `worker.rs`, `ladder.rs`, `state.rs` | `SharedState`: episode clocks, counters, breakers | `perform_poll`, `recover_link`, rungs -1, 0, R1 to R4, connect | order, cooldowns and bounds of the rungs |
| Keepalive | `audio.rs`, `endpoint.rs` | render thread, streak, streaming flag | `start`, `stop`, `run_session` | one session at a time; the flags mean what the poll reads into them |
| Page hold | `page.rs`, `page_fsm.rs` | one held socket | `page_hold`, `close_held` | never two, never leaked |
| Wake sources | `wake.rs`, `window.rs` | resume and device events, debounce clocks | `signal`, the wait in `worker::run` | no lost wake, no feedback loop |
| Log suppression | `dedup.rs`, `log.rs` | 32 slots | `Dedup::check` | a suppressed line is counted |
| Start and stop | `app.rs`, `main.rs` | singleton mutex, running flag | `run_daemon` | repair first, join last |
| Native audio request | `audio_connect.rs` | its cadence | `ONESHOT_RECONNECT` | an accepted request ends the pass |
| Diagnostics, autostart, string helpers, FFI | `health.rs`, `modes/*`, `autostart*.rs`, `mac.rs`, `redact.rs`, `text.rs`, `sys/*` | none | reports and conversions | unit-tested; not modelled |

Interaction: the main thread (message loop) sets two events; the poll worker
waits on them, owns `SharedState` and calls everything else; the keepalive runs
in a thread of its own and shares three atomics with the worker.  The marker
files are shared with the next run of the program and with the one-shot modes
(`--cycle`, `--recover`, ...), which take no lock.

What is hard here: a crash between two persistent changes; a marker, a devnode
and a cached flag that disagree; two processes on one marker; rungs that rely on
bookkeeping of earlier passes; the keepalive's flags read by the other thread;
clocks.  `PROJECT.json` lists the hazards, each at its line.

## 2. Modules

| Module | Models |
|---|---|
| `UndoJournal` | abstract: a promise to undo outlives the damage |
| `ServiceDebt` | the profile-driver reconnect and its marker; implements `UndoJournal` |
| `RadioJournal` | R2, R4, rung 0, the radio marker, startup, one-shot tools; implements `UndoJournal` |
| `Breaker` | the operations of `CircuitBreaker`, told a time that may be old |
| `PacedRadio` | `RadioJournal` with a clock and the breaker of R2 in front of R2 |
| `ExclusiveStream` | abstract: one session at a time, under a flag that falls first |
| `Keepalive` | worker and render threads of the silent keepalive; implements `ExclusiveStream` |
| `Ladder` | the rungs R1 to R4 and the episode they belong to |
| `Reconnect` | the poll loop, wake events, page hold, driver toggles at their pace, shutdown |
| `ServiceDebtProofs`, `RadioJournalProofs`, `PacedRadioProofs`, `KeepaliveProofs`, `LadderProofs`, `ReconnectProofs` | the theorems |
| `MCServiceDebt`, `MCRadioJournal`, `MCPacedRadio`, `MCKeepalive`, `MCLadder`, `MCReconnect` | the instances for TLC |

The modules cut `recover_link` by concern, not by line.  Each keeps the whole
order of a pass and replaces what another module decides by a free choice with
the same outcomes: `Ladder` does not know why a pass ends above the rungs
(`PollEndsEarly`), `Reconnect` does not know which rung is due (`RungRuns` or
`RungsPass`), `Keepalive` knows three routes of a poll.  A property proved with
free choices holds for the code's choices too.

Every module holds a few actions whose comment begins with "Mutant:".  They are
no part of `Next`: they are faults that a property must notice when one of them
replaces the action below it, and `PROJECT.json` pairs them.

### ServiceDebt

`driver` and `marker` are durable, everything else belongs to the worker.
`pc` names the next call with an effect: `idle` (between polls), `rungs`
(after rung -1), `enable` (the loop of `drive_connect`), `arm`, `disable`,
`reenable`, `clear` (the steps of `toggle_profile`).  `owed` is history: the
drivers we removed that nobody has put back.  A failed `File::create` or write
may leave the old marker, none, or the new one; a failed remove leaves it.
`CrashRestart` may happen at any step.  `reach` abstracts what a poll finds.
Waits, the toggle rate limit and the breaker are free choices.

### RadioJournal

`node[p]` is the devnode of the dongle in port `p`: started, stopped (a fault,
or the half-stop of exit code 3010) or disabled (persistent).  Each process
runs one core at a time, with its locals (`port`, `tries`, `ok`, `scan`,
`owns`, `bad`).  One step is one call that reads or changes a devnode or the
marker.  The daemon's part follows `recover_link`: `gate` (rung 0 due?),
`choose` (blocked? audio, grace, page), `rungs`, `r4`, `connect`.  `armedSeen` is
the cached `recovery_armed`; `r2Used` and `cycled` are what
`usb_cycle_left_in_episode` and `r2_cycled_in_episode` amount to.  `ours` is
history: ports we left disabled.  The user can disable, enable, unplug and
replug at any step.  Timers are free choices, except that rung 0 is always due
the first time.  `SurpriseRemoval` lets the dongle vanish inside a repair pass;
`OtherRadio` says whether another radio keeps the peer enumerable.

R1 and R3 touch other devices; here they are ways to end a pass (`PassEnds`).

`CarefulUser` restricts the user of `CarefulSpec`, and only while a dongle is
held disabled by us: it may be pulled out, though not from under a repair pass,
and goes back into its own port.  `Spec` leaves the user free.

### Breaker and PacedRadio

`recover_link` reads the clock once, and `allow(now)` of R2 is told that time,
after rung 0, a page, R1 and R3 may have taken minutes.  `windowAge` and
`coolLeft` are what the breaker knows at the last reading, `lag` how long ago it
was; `ReadClock` brings them up to date, at the `Poll` that begins a pass.
`Admit`, `Trip` and `StaysOpen` are the three exits of `allow`.  The breaker is
asked last but one: `btf_no_usb_cycle.txt` is looked at after the call has been
counted, so `PacedSkip` may use up an admission.  A new process has a new
breaker.  `Tick` may come between any two steps.  History: a watch of length
`Window` that begins at any time (`BeginWatch`) and the usb-cycles it has seen
(`made`).

### Keepalive

Two kinds of process.  The worker: `wpc` is the loop of `worker::run` around
the keepalive (`wait`, the watchdog sample, `poll`, `start`, `ready`,
`recover`) and the three steps of `stop` (lower `want_run`; reset the streak;
take the handle and join), to which `after` is the return address; `exit` is
after the last `stop` of `run_daemon`.  A render thread: `tpc[t]` follows `run`
(`top`, `resolve`, `publish`) and `run_session` (`open`, `prepare`, `write`,
`flag`, `play`, `nap`, `rearm`) with the two halves of `SessionGuard::drop`
(`drop` lowers `target_streaming`, `close` resets and closes the device).  One
step is one access to `want_run`, `target_streaming` or `consec_fails`, or one
call that changes the device, so every interleaving of the two threads over the
atomics is explored.  The world moves on its own: the link goes up, down or
away; the endpoint is missing, refusing or working; the driver finishes a
buffer; the user quits.

Abstractions: waits have no length, so a backoff of any length is covered; the
streaming verdict is a Boolean; endpoint enumeration and the order of formats
are their outcome.  `Thread` has one more member than `stop` lets live, so that
a thread which is not joined would be seen next to its successor.

### Ladder

`pc` is the gate at which a pass stands: `wait`, `r1`, `r3`, `r2`, `r4`,
`connect`.  A timestamp of `SharedState` is kept as its age in units of the poll
wait, cut off where no gate tells more (`armed` is `now - r1_armed_ms`, `r2Last`
is `now - r2_last_cycle_ms`, ...); "0 = never" is the oldest age.  A deadline is
the time left (`force`).  A poll comes after any wait, also at once.

A pass takes time, but its gates do not see it: `recover_link` reads the clock
once (`now`, worker.rs:482) and gives that time to every gate.  So the ages stand
still in a pass and `lag` counts what it has taken (`PassLags`, up to `PassMax`,
at the gates of R3 and R2, where it shows); what is stamped with a new reading of
the clock (the end of R3, the forced restarts) is stamped `lag` later, and the
wait after the pass lets the ages catch up before the next poll.

Kept as in the code: the opening and closing of the episode (`link_stable_polls`), the flap
count and the storm that moves `r1_armed_ms` back, `usb_cycle_left_in_episode`
(`cycleLeft`), `r2_cycled_in_episode`, the mutes after rejections or failures in
a row, the two freezes (`btf_freeze.txt` behind its cached verdict, the absent
peer), the forced restart queued by a verified cycle or an inert connect, and
the connectable flag that R1 turns off and on.  Free: the circuit breakers'
refusals, `btf_no_usb_cycle.txt`, and every verdict of a call.  History:
`tried` and `cycles` (what was done in this episode), `clear` (the real time
since the last look at the freeze file, if it found none) and `row` (polls in a
row at which the target streamed, of those that found it).

### Reconnect

The worker's loop with the two auto-reset events of `wake.rs` and their
priority, the debounce, the self-echo and the unpark floor, both wait lengths
and failed waits; `page_hold` with its cadence, the settle deadline and the one
held socket; the driver toggle with its interval, its doubling and its stamps;
and `run_daemon`'s shutdown (`mpc`).  Time is explicit: `Tick` lets it pass
while the worker waits, sleeps or sits in a blocking call of at most `CallMax`
ticks; a wait that is over ends before the next tick.  The machine may sleep
anywhere, also in the middle of a page (`Sleep`): for so short a time that no
gate can tell, or for longer than every interval, which `GetTickCount64` counts.
`PBT_APMRESUMEAUTOMATIC` is a step of its own (`slept` says that it is still
owed): the worker may be woken by its timer or a device event, and poll on the
old hold, before the window gets it.  `HoldIsFresh` promises nothing for that
stretch.  `open` is what Winsock has open, `held` what `SharedState` stores,
`stale` the open sockets from before the last sleep.  History: `sincePoll`,
`sinceToggle`, `answered`, `quitAge`, `stale`.

A usb or port cycle also kills the held socket underneath; the code goes on
recording it as held, and so does the model.

## 3. Runs

| Run | Question | Instance | Result |
|---|---|---|---|
| `service_debt` | marker covers debt, debt outranks rungs, verdicts are honest, debt is repaid, a pass runs out, refinement | 2 profiles, 2 attempts | passes, 31 thousand states |
| `radio_journal` | marker covers our disables, R4 spares them, usb-cycles bounded, refinement | 2 ports, surprise removal, 2 attempts, daemon alone, careful user; window 3, 2 cycles, cooldown 3 | passes, 2.7 million states |
| `radio_tools` | the marker settles and every core runs out, with tools beside the daemon | 1 port, 1 attempt, 1 tool, surprise removal | passes, 132 thousand states |
| `keepalive` | one session, silence after stop, a stop drains and returns, streams return, dead audio escalates, refinement | 2 threads, 2 dead sessions, 3 failures counted | passes, 63 thousand states |
| `ladder` | one usb-cycle per episode, rung order, freeze, the climb over a flapping outage, a deaf radio hears again | see Bounds | passes, 1.0 million states |
| `reconnect` | polls keep coming, toggles spaced, settle respected, sockets neither leaked nor lost nor kept over a sleep, the quit leads out, shutdown | 2 sockets, see Bounds | passes, 1.1 million states |
| `debt_while_streaming` | does every poll that finds the peer repay? | 2 profiles, 1 attempt | no |
| `sole_radio_stranded` | does the repair rung keep retrying? | no other radio | no |
| `stale_armed_flag` | does the marker block every rung? | 1 port | no |
| `port_change` | does the marker cover our disables over a replug? | 2 ports | no |
| `two_processes` | and beside `--cycle`? | 1 port, 1 tool | no |
| `audio_dead` | is the audio-dead route taken only in silence? | as `keepalive` | no |

The last six state what a comment or a log message of the program says and
find it false; `PROJECT.json` quotes the line and describes each trace.

Bounds.  No state constraint is used: the state spaces are finite as they stand.
The profiles differ only by position; two of them show an order, a successor and
another profile's marker.  Two attempts show a first, a retry and an end.  Two
ports show a dongle in another port than the one it was left disabled in; the
run `port_change` shows what breaks there without a careful user.  A window and
a cooldown of three ticks let calls fall at the beginning, inside and at the end
of either, before and after a lag; two is the real number of cycles, and four in
one watch are reached.  One tool is enough for two processes on one file.  Two render threads show
a successor beside a predecessor.  In `ladder` the arm times are 1, 2, 3, 4,
so that every gate opens at a time of its own; the cooldowns are 1 or 2, which
keeps the orders that `LadderAssumption` names; a pass takes at most one unit, and
R4's spacing is longer than a pass and the delay of a forced restart together,
as in the code (300 s against 15 s), else R4 would put the restart off for ever; two
stable polls show a first and a last, two rejections of R1 a retry and a mute,
and limits of one make the other mutes, the freezes and the storm happen.  In `reconnect` each interval is 1 to 3 ticks with the orders
of the code among those that meet in one test (`Poll <= Idle`,
`ToggleMin <= ToggleMax`), so events fall before, at and after each limit; two
sockets show a replacement.  The safety properties of these two modules are also
proved for every value of the constants.

Fairness.  `ServiceDebt`: polls of a peer found down recur (strong, since a
crash or a change of reach may preempt any one of them), the running pass
continues (weak), and a re-enable succeeds now and then (strong: the stack's
1060 blackouts end).  `RadioJournal`: passes and cores continue (weak); a due
repair, its query, its enable and the file removal succeed now and then
(strong: the retry delay is capped at 60 s and no breaker limits it).
`Keepalive`: both threads are scheduled (weak); the session breaker cools down,
so a thread that keeps asking is let through (strong on `BreakerAllows`), and a
spawn succeeds now and then (strong).  `Ladder`: the
breakers of R1, R3 and R4 cool down (strong on the tries).  Nothing is assumed of
R2, whose breaker and `btf_no_usb_cycle.txt` may stand in its way for good: the
program writes that file itself (`cycle.rs:109`, `cycle.rs:116`) and only the
user deletes it.  `Reconnect`: time passes, both threads run,
blocking calls return (weak), and a pass falls through its four rungs
(`RungsPass`, strong, because the model lets rung after rung fail without
counting them).  Users, plugs, crashes, links, endpoints, tools, events and the
quit are never fair.

Premises of the liveness properties, which are about the world and not the
code.  `JournalSettles`: the dongle stays in, the process stays elevated, and
passes keep starting; `sole_radio_stranded` shows that the last is needed.
`StreamReturns` and `DeadAudioEscalates`: the link stays up over an endpoint
that keeps working, or keeps refusing.  `LadderClimbs` and `RadioHearsAgain`:
the target never streams at two polls in a row (`row < 2`; it may flap as it
likes otherwise), nobody freezes the rungs, time goes on, passes keep reaching
the rungs, and forced restarts leave the usb-cycle its quiet time now and then.
The climb then means: R1, R3 and R4 are tried in this episode or muted, and the
usb-cycle is tried, muted, or due at its gate.

Deadlock is checked everywhere but in `reconnect`, where `main` returns.

## 4. Proofs

| Theorem | Says | Assumes |
|---|---|---|
| `ServiceDebtProofs!TypeCorrect` | `Spec => []TypeOK` | nothing more |
| `MarkerAlwaysCoversDebt`, `RepaymentOutranksLadder`, `VerdictsAreHonest` | the three invariants | `~MarkerReadFails` |
| `ServiceDebtProofs!Refinement` | `Spec => ImplementsUndoJournal` | `~MarkerReadFails` |
| `RadioJournalProofs!TypeCorrect` | `Spec => []TypeOK` | nothing more |
| `DisableAlwaysJournalled`, `HubCycleAlwaysSpares` | the two invariants, for `CarefulSpec` | `Alone` |
| `RadioJournalProofs!Refinement` | `CarefulSpec => ImplementsUndoJournal` | `Alone` |
| `FixedDonglePromises` | the three, for `Spec` | `Alone`, `FixedDongle` |
| `PacedTypeCorrect`, `UsbCyclesAreBounded` | `PacedTypeOK`, `UsbCycleStormBound`, for `RealTime`: any user | nothing more |
| `PacedIsCareful`, `PacedPromises` | `PacedSpec => RealTime /\ CarefulSpec`, and the three promises | nothing more; `Alone` |
| `KeepaliveProofs!TypeCorrect`, `StopIsSilent`, `StopAlwaysDrains`, `Refinement` | `TypeOK`, `IdleIsSilent`, `StopDrains`, `ImplementsExclusiveStream` | nothing more |
| `PassAlwaysRunsOut`, `WorkAlwaysRunsOut` | `Spec => PassRunsOut`, `Spec => WorkRunsOut` | nothing more |
| `LadderProofs!TypeCorrect`, `CyclesAreSingle`, `RungsKeepOrder`, `FreezeIsHonoured` | `TypeOK` and the three safety properties | nothing more |
| `ReconnectProofs!TypeCorrect`, `SocketsNeverLeak`, `HoldOutlivesPages`, `HoldsAreFresh`, `TogglesAreSpaced`, `SettlingIsRespected`, `PollsAreBounded`, `QuitsArePrompt`, `QuitAlwaysLeadsOut` | `TypeOK` and the eight safety properties | nothing more |

The constants are arbitrary within each module's ASSUME: any number of profiles
and of attempts, any ports and tools, any threads, times, limits, intervals and
sockets.  `Alone` says that no tool runs beside the daemon; `FixedDongle` that
there is one port and no removal inside a repair pass.  `DisableIsJournalled`
needs each of them: without `Alone` it is false (run `two_processes`), and
without a careful user or a fixed dongle too (run `port_change`).  The careful
user is the weaker of the two: with a fixed dongle every user is careful.

`ServiceDebt`.  `MarkerCoversDebt` is not inductive: a marker may be rewritten
when nothing is owed.  `IInv` adds that nothing is owed where the pass may arm,
disable or clear, and that the profile in hand is the marked one where it is
being re-enabled or about to be disabled.  `VerdictInv` says where an old
verdict may stand beside a debt: only inside the toggle that has made it.  The
refinement maps `promised` to the marked profile and `damaged` to `owed`; every
step that leaves `owed` alone is a `Remark` by the invariant, the others are
`Damage` or `Undo`.  `PassRunsOut` is the safety half of a pass that ends: each
step leaves a stage for good or uses up one of the calls of its stage.

`RadioJournal`.  The argument has four parts.  `DisableStaysWithDongle`: while
a disable of ours stands, the dongle is in that port or in none.  `Bookkeeping`:
a usb-cycle runs only under the marker and is the first of its episode, so
`cycled` is false while it runs.  `RepairCoversDisable`: a repair pass that has
given up on nothing still has our disables among the devnodes it will look at,
and a pass that owns nothing meets none.  `DisableAccountedFor`: where the code
is about to remove the marker, or to trust a verified cycle, no disable of ours
is left.  Together they are inductive and imply both invariants.
`WorkRunsOut` needs none of this, only the types: it numbers the stages of the
cores and of the pass so that each step of a process goes down, or stays and
uses up one of its enable attempts or one of the devnodes it has to look at; no
step of another process, of the user or of the devices touches these numbers.
It holds beside any tools and under any user.

`PacedRadio`.  The window tumbles, so a stretch of its length may see the end of
one window and the beginning of the next: the bound is twice the limit, and TLC
reaches it.  `StormBound` is not inductive.  `OlderWatch` relates what a watch
has seen to the count of the window in force, or to that count and one full
window before it, and says that it is over before an open breaker closes again;
for that the cooldown must not be shorter than the window, which holds for all
six breakers (`config.rs`).  `YoungerWatch` is for a watch that began between
the reading of the clock and the call: it may count a call whose time of asking
lies before it.  That such a call is the only one needs `GateInv`: a pass asks
once, and there is no way back to the gate but over a new reading.  The theorem
holds for the code's ten minutes, beside any tools and with any user; like the
breaker, it is about one process: a restart forgets the count.

`Keepalive`.  `SessionInv`: a thread that exists is the one of the handle
(`OneThread`), what is open on the device follows from where that thread is
(`DeviceFollows`), and the flag is up only inside a session that has still to
lower it (`FlagInSession`).  The refinement maps `holders` to the threads with
an open device: the worker never moves it, and each step of the render thread
is one of `Open`, `Raise`, `Lower`, `Close` or a stutter.  `StopDrains` is what a
proof can say of `StopReturns`: once `want_run` is down (`AskedToEnd`), each step
of a render thread lowers its distance to the exit, so a stop waits for a bounded
number of steps; that the thread takes them is the scheduler's part.

`Ladder`.  One short invariant for each property.  `CycleInv`: a cycle of this
episode is no older than the episode, so a storm, which moves the start back to
`R1Arm` and never further, does not earn a second one.  `OrderInv`: the
per-episode flags imply what was tried in this episode and are down outside one.
`FreezeInv`: a "no file" that a pass still believes is as old as the pass's own
clock says, or older by `lag`, what the pass has taken since; and the verdict
that R2 and R4 use is the one R3's gate has renewed.  Hence `FreezeHolds` as the
code has it: the look was younger than the recheck time when the pass began.

`Reconnect`.  `SocketsInv`: outside an attempt the held socket is all there is,
inside one there is one more.  `FreshInv`: as long as any open socket is from
before a sleep, the broadcast is owed, signalled or being handled, and the step
that ends its handling closes the one socket there is then.  `ToggleInv`: until the echo time is over since a
re-install its own stamps are as young, so no event counts as news and none
cancels the rate limit.  `SettleInv`: deadline and time since the answer add
up.  `PollsInv`: where a device event may send the worker back to its wait, the
last poll is as recent as the last accepted event.  `QuitInv`: after the quit
the resume event stays set, so only a delay already begun is slept out.
`QuitLeadsOut` numbers the places of the worker like `WorkRunsOut`: after the
quit each step goes down, but that the rungs may follow one another (the model
does not count them; the code has four).

Liveness under fairness (`DebtIsRepaid`, `JournalSettles`, `StopReturns`,
`QuitEnds`, `StreamReturns`, `DeadAudioEscalates`, `LadderClimbs`,
`RadioHearsAgain`, `ShutdownCompletes`) stays with TLC: the prover does not
handle it.  Of four of them a theorem holds the code's share, the bound on the
steps that fairness then drives to their end: `StopDrains` for `StopReturns`,
`QuitLeadsOut` for `ShutdownCompletes`, `PassRunsOut` for `DebtIsRepaid` and
`WorkRunsOut` for `JournalSettles`.

## 5. Divergences seen while modelling

Six have a run of their own (section 3).  The others, met while reading for the
models, are left here for the code's owners.

- Rung -1 re-installs a driver without stamping `self_churn_last_ms`
  (`worker.rs:501-513`); its own device events count as news.
- `link_up_since_ms` is zeroed before the grace test on the audio-dead route
  (`worker.rs:598`), so that route has no grace.
- A device event inside the debounce window is taken without a poll; the last of
  a burst waits for the timer, up to 20 s (`worker.rs:70-74`).
- `stop` resets the streak before it joins; a session that ends in between leaves
  its streak to the next thread, where `audio.rs:122` says that a restarted
  worker rebuilds it.
- A flap storm moves the start of an episode, and an episode whose last cycle is
  younger than that loses its R2, and R4 with it (`worker.rs:654-655`,
  `ladder.rs:219-221`).
- `stall_report` is not printed while hub-port cycles keep succeeding
  (`worker.rs:929-936`).
- `LINK_STABLE_POLLS_TO_CLOSE` is documented as "this many consecutive connected
  polls" (`config.rs:146`).  A poll that finds no radio, or finds the target in no
  radio's list, resets nothing (`worker.rs:278`, `worker.rs:317`), so polls that
  close an episode may have any number of those between them (`PollFindsNobody`
  in `Ladder`, where no property asks for "consecutive").
- The three rungs behind `btf_freeze.txt` compare its verdict with the time at which
  the pass began (`worker.rs:686`, 721, 763): a file put there while a pass is under
  way is seen `FREEZE_RECHECK_MS` and the rest of the pass later at worst.
- Between the wake of the machine and the delivery of the broadcast a poll may rely
  on a hold that the sleep has killed (`window.rs:58-62`, `worker.rs:60-64`).
- R1 muted after three rejections may leave incoming connections off.
- Evicting a slot of `dedup.rs` loses the count it still owes.
- `run_session`'s doc says "true if the device opened"; a failed prepare or write
  returns false.

## 6. Not modelled

- The circuit breakers but R2's: the same code with other constants, each a free
  refusal here.  `Breaker` is ready to be put in front of them too; what it adds
  is a bound on how often they let a call through.  The backoff functions
  (`ladder.rs`) are free waits.
- `pnputil` runs that outlive their timeout and take effect later
  (`devnode.rs:253`); they would be an actor of their own in `RadioJournal`, whose
  proofs rest on calls that end before they return.
- The inside of R3 (`restart.rs`): its path B disables an earbud devnode without
  a marker, so there is no promise to check; when it runs and what it reports is
  in `Ladder`.
- The walk over hubs (`hub.rs`) and the Winsock calls of a page: one step each
  with their outcomes.
- Log suppression (`dedup.rs`), the stall report and all wording.
- The singleton mutex and the choice of a mode by argument.
- Autostart registration, redaction, device-id parsing, the read-only
  diagnostics modes, the proof-of-concept crate and the FFI declarations: they
  keep no state that another part reads.  What the Windows calls do is assumed,
  as the comments of the modules say, from how the code uses them.
