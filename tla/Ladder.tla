------------------------------- MODULE Ladder -------------------------------
(***************************************************************************)
(* The four escalation rungs of recover_link (worker.rs, ladder.rs) and    *)
(* the episode they belong to: the arm clock, the cooldowns, the           *)
(* per-episode flags, the flap hysteresis, the two freezes, the mutes and  *)
(* the forced earbud restart.                                              *)
(*                                                                         *)
(* A timestamp is its age, counted in units of the wait between polls and  *)
(* stopped where no gate can tell more (an absent timestamp, the 0 of the  *)
(* code, is the oldest age); a deadline is the time left.  A poll may come *)
(* at once, as after a device event.                                       *)
(*                                                                         *)
(* recover_link reads the clock once (`now`): its gates compare with the   *)
(* time at which the pass began, while a repair, a page and the rungs      *)
(* above may have taken minutes.  So the ages stand still in a pass and    *)
(* `lag` counts what has passed since; it is made up for before the next   *)
(* poll.  What a poll finds and what a call answers is free; so are the    *)
(* refusals of the circuit breakers.                                       *)
(***************************************************************************)
EXTENDS Integers

CONSTANTS
  R1Arm, R3Arm, R2Arm, R4Arm,        \* R1_ARM_MS ... R4_ARM_MS
  R1Cool, R2Min, R3Min, R4Min,       \* R1_COOLDOWN_MS, R2_MIN_INTERVAL_MS, ...
  Quiet,                             \* R2_POST_R3_QUIET_MS
  PostCycle,                         \* R3_POST_CYCLE_DELAY_MS
  Recheck,                           \* FREEZE_RECHECK_MS
  StablePolls, FlapForce,            \* LINK_STABLE_POLLS_TO_CLOSE, FLAP_FORCE_R1_AFTER
  R3Max, AbsentAfter,                \* R3_MAX_PER_EPISODE, PEER_ABSENT_FREEZE_AFTER
  R1Dead, R2Dead, R4Dead,            \* R1_DEAD_REJECTIONS, R2_DEAD_FAILURES, ...
  PassMax                            \* the longest pass

\* The order of the arm times is what ladder.rs tests; the earbud restarts of
\* one episode are spaced by more than the quiet time of the usb-cycle, and usb-
\* cycles by more than the arm time that a flap storm moves the episode by.
ASSUME LadderAssumption ==
  /\ {R1Arm, R3Arm, R2Arm, R4Arm, R1Cool, R2Min, R3Min, R4Min, Quiet, PostCycle,
      Recheck, StablePolls, FlapForce, R3Max, AbsentAfter,
      R1Dead, R2Dead, R4Dead, PassMax} \subseteq Nat \ {0}
  /\ R1Arm < R3Arm /\ R3Arm < R2Arm /\ R2Arm < R4Arm
  /\ Quiet <= R3Min /\ R1Arm < R2Min

Off == -1          \* no episode; no forced restart

VARIABLES
  pc,              \* the gate the pass stands at
  lag,             \* the time since the pass read its clock
  armed,           \* r1_armed_ms
  r1Last, r1Done,  \* r1_last_reset_ms, r1_reset_in_episode
  rejects,         \* r1_rejects
  connectable,     \* the radio accepts incoming connections
  stable, flaps,   \* link_stable_polls, flaps_in_episode
  r2Last,          \* r2_last_cycle_ms
  cycleLeft,       \* usb_cycle_left_in_episode: r2_last_cycle_ms < r1_armed_ms
  r2Cycled, r2Fails,
  r3Last, r3Done,  \* r3_last_restart_ms, r3_last_complete_ms
  restarts,        \* r3_restarts_in_episode
  force,           \* r3_force_after_ms
  r4Last, r4Fails,
  absent,          \* peer_absent_streak
  frozen, checked, \* escalation_frozen, freeze_checked_ms
  \* History, for the properties only.
  cycles,          \* usb-cycles of this episode
  tried,           \* this episode: R1 or R4 tried, a usb-cycle verified
  clear,           \* since btf_freeze.txt was last seen to be absent, if no
                   \* later look has found it
  row              \* polls in a row, of those that found the target, at which
                   \* it streamed, up to 2

r1   == <<r1Last, r1Done, rejects, connectable>>
r2   == <<r2Last, cycleLeft, r2Cycled, r2Fails, cycles>>
r3   == <<r3Last, r3Done, restarts, force>>
r4   == <<r4Last, r4Fails>>
flap == <<stable, flaps, row>>
frz  == <<frozen, checked, clear>>
vars == <<pc, lag, armed, r1, r2, r3, r4, flap, frz, absent, tried>>

Least(a, b) == IF a < b THEN a ELSE b
Up(n, cap) == Least(n + 1, cap)

FlagsOK ==
  /\ pc \in {"wait", "r1", "r3", "r2", "r4", "connect"}
  /\ r1Done \in BOOLEAN /\ connectable \in BOOLEAN /\ cycleLeft \in BOOLEAN
  /\ r2Cycled \in BOOLEAN /\ frozen \in BOOLEAN
  /\ tried \subseteq {"r1", "r3", "verified", "r4"}

AgesOK ==
  /\ lag \in 0..PassMax
  /\ armed \in Off..R4Arm /\ force \in Off..PostCycle + PassMax
  /\ r1Last \in 0..R1Cool /\ r2Last \in 0..R2Min
  /\ r3Last \in 0..R3Min /\ r3Done \in -PassMax..Quiet /\ r4Last \in 0..R4Min
  /\ checked \in 0..Recheck /\ clear \in 0..Recheck + PassMax

CountsOK ==
  /\ stable \in 0..StablePolls /\ flaps \in 0..FlapForce /\ row \in 0..2
  /\ rejects \in 0..R1Dead /\ r2Fails \in 0..R2Dead /\ r4Fails \in 0..R4Dead
  /\ restarts \in 0..R3Max /\ absent \in 0..AbsentAfter /\ cycles \in 0..2

TypeOK == FlagsOK /\ AgesOK /\ CountsOK

\* A previous run may have died inside R1, with incoming connections off.
Init ==
  /\ pc = "wait" /\ lag = 0 /\ armed = Off
  /\ r1Last = R1Cool /\ r1Done = FALSE /\ rejects = 0 /\ connectable \in BOOLEAN
  /\ stable = 0 /\ flaps = 0 /\ row = 0
  /\ r2Last = R2Min /\ cycleLeft = FALSE /\ r2Cycled = FALSE /\ r2Fails = 0 /\ cycles = 0
  /\ r3Last = R3Min /\ r3Done = Quiet /\ restarts = 0 /\ force = Off
  /\ r4Last = R4Min /\ r4Fails = 0
  /\ absent = 0
  /\ frozen = FALSE /\ checked = Recheck
  /\ clear = Recheck + PassMax
  /\ tried = {}

Goto(from, to) == pc = from /\ pc' = to /\ UNCHANGED lag

\* A poll begins once the clock is read anew.
Poll(to) == lag = 0 /\ Goto("wait", to)

-----------------------------------------------------------------------------
(* Time.                                                                   *)

Oldest == Recheck + PassMax

\* A pass takes its time, in a repair, a page, R1 or a failed R3.  What it takes
\* elsewhere shows in no gate and no stamp.
PassLags ==
  /\ pc \in {"r3", "r2"} /\ lag < PassMax
  /\ lag' = lag + 1
  /\ clear' = Up(clear, Oldest)
  /\ UNCHANGED <<pc, armed, r1, r2, r3, r4, flap, frozen, checked, absent, tried>>

\* Real time goes on only when the ages have made up for the last pass.
Elapse ==
  IF lag > 0 THEN lag' = lag - 1 /\ UNCHANGED clear
  ELSE clear' = Up(clear, Oldest) /\ UNCHANGED lag

\* Mutant: the forced restart counts down past its deadline.
WaitOutOverruns ==
  /\ pc = "wait" /\ pc' = pc
  /\ armed' = IF armed = Off THEN Off ELSE Up(armed, R4Arm)
  /\ r1Last' = Up(r1Last, R1Cool)
  /\ r2Last' = Up(r2Last, R2Min)
  /\ r3Last' = Up(r3Last, R3Min)
  /\ r3Done' = Up(r3Done, Quiet)
  /\ force' = IF force # Off THEN force - 2 ELSE force
  /\ r4Last' = Up(r4Last, R4Min)
  /\ checked' = Up(checked, Recheck)
  /\ Elapse
  /\ UNCHANGED <<r1Done, rejects, connectable, flap, cycleLeft, r2Cycled, r2Fails,
                 cycles, restarts, r4Fails, absent, frozen, tried>>

\* The next poll comes at once, or after a wait.
WaitOut ==
  /\ pc = "wait" /\ pc' = pc
  /\ armed' = IF armed = Off THEN Off ELSE Up(armed, R4Arm)
  /\ r1Last' = Up(r1Last, R1Cool)
  /\ r2Last' = Up(r2Last, R2Min)
  /\ r3Last' = Up(r3Last, R3Min)
  /\ r3Done' = Up(r3Done, Quiet)
  /\ force' = IF force > 0 THEN force - 1 ELSE force
  /\ r4Last' = Up(r4Last, R4Min)
  /\ checked' = Up(checked, Recheck)
  /\ Elapse
  /\ UNCHANGED <<r1Done, rejects, connectable, flap, cycleLeft, r2Cycled, r2Fails,
                 cycles, restarts, r4Fails, absent, frozen, tried>>

-----------------------------------------------------------------------------
(* The poll: what it finds, and the episode.                               *)

\* No radio, or the target is not in its list: nothing is touched.
PollFindsNobody ==
  /\ Poll("wait")
  /\ UNCHANGED <<armed, r1, r2, r3, r4, flap, frz, absent, tried>>

\* The watchdog holds, or the pass ends above the rungs: a debt, a repair that is
\* still owed, an accepted native request, a settling or fresh page.
PollEndsEarly ==
  /\ Poll("wait")
  /\ stable' = 0 /\ row' = 0
  /\ UNCHANGED <<armed, r1, r2, r3, r4, flaps, frz, absent, tried>>

\* Rung 0 repaired the radio: the freeze of the absent peer is lifted.
PollRepairs ==
  /\ Poll("wait")
  /\ stable' = 0 /\ row' = 0
  /\ absent' = 0
  /\ UNCHANGED <<armed, r1, r2, r3, r4, flaps, frz, tried>>

\* The episode closes: what ends with it is forgotten.
CloseEpisode ==
  /\ armed' = Off
  /\ r1Done' = FALSE /\ r2Cycled' = FALSE
  /\ restarts' = 0 /\ r3Last' = R3Min /\ force' = Off /\ r3Done' = Quiet
  /\ flaps' = 0
  /\ absent' = 0

\* on_connected hears the target.  The stream may end before handle_found looks
\* again: then the pass goes on to connect.
PollAudio ==
  /\ Poll("wait") \/ Poll("connect")
  /\ stable' = Up(stable, StablePolls) /\ row' = Up(row, 2)

\* Mutant: the verified usb-cycle is not forgotten.
PollAudioClosesKeepsCycle ==
  /\ PollAudio
  /\ stable' = StablePolls
  /\ armed' = Off
  /\ r1Done' = FALSE /\ restarts' = 0 /\ r3Last' = R3Min /\ force' = Off
  /\ r3Done' = Quiet /\ flaps' = 0 /\ absent' = 0
  /\ UNCHANGED <<r1Last, rejects, connectable, r2, r4, frz, tried>>

\* The target streams for the StablePolls-th time since it was last found without.
PollAudioCloses ==
  /\ PollAudio
  /\ stable' = StablePolls
  /\ CloseEpisode
  /\ UNCHANGED <<r1Last, rejects, connectable, r2Last, cycleLeft, r2Fails, cycles,
                 r4, frz, tried>>

\* The target streams, but not for long enough: a blip counts as a flap.
PollAudioBlips ==
  /\ PollAudio
  /\ stable' < StablePolls
  /\ flaps' = IF armed # Off THEN Up(flaps, FlapForce) ELSE flaps
  /\ UNCHANGED <<armed, r1, r2, r3, r4, frz, absent, tried>>

\* Mutant: a transport without audio does not end the row.
PollTransportCounts ==
  /\ Poll("connect")
  /\ row' = 0
  /\ UNCHANGED <<armed, r1, r2, r3, r4, stable, flaps, frz, absent, tried>>

\* Connected without target audio: no rung, straight to connect.
PollTransport ==
  /\ Poll("connect")
  /\ stable' = 0 /\ row' = 0
  /\ UNCHANGED <<armed, r1, r2, r3, r4, flaps, frz, absent, tried>>

\* Link down, and the pass reaches the rungs.  The episode opens with the first
\* such pass; a flap storm moves its start back to where R1 is due.
PollReachesRungs ==
  LET at    == IF armed = Off THEN 0 ELSE armed
      storm == flaps >= FlapForce /\ at < R1Arm
  IN  /\ Poll("r1")
      /\ stable' = 0 /\ row' = 0
      /\ armed' = IF storm THEN R1Arm ELSE at
      /\ cycleLeft' = IF storm THEN r2Last > R1Arm
                      ELSE IF armed = Off THEN TRUE ELSE cycleLeft
      /\ cycles' = IF armed = Off THEN 0 ELSE cycles
      /\ tried' = IF armed = Off THEN {} ELSE tried
      /\ UNCHANGED <<r1, r2Last, r2Cycled, r2Fails, r3, r4, flaps, frz, absent>>

-----------------------------------------------------------------------------
(* R1: incoming connections off and on again.                              *)

R1IsDead == rejects >= R1Dead
R1Due == ~R1IsDead /\ armed >= R1Arm /\ r1Last >= R1Cool

\* Mutant: a muted R1 does not unlock R2.
R1MutedLocksR2 ==
  /\ Goto("r1", "r3")
  /\ R1IsDead
  /\ UNCHANGED <<armed, r1, r2, r3, r4, flap, frz, absent, tried>>

R1Muted ==
  /\ Goto("r1", "r3")
  /\ R1IsDead
  /\ r1Done' = TRUE
  /\ UNCHANGED <<armed, r1Last, rejects, connectable, r2, r3, r4, flap, frz, absent, tried>>

\* Not due, or the breaker refuses.
R1Skipped ==
  /\ Goto("r1", "r3")
  /\ ~R1IsDead
  /\ UNCHANGED <<armed, r1, r2, r3, r4, flap, frz, absent, tried>>

R1Runs == R1Due /\ r1Last' = 0 /\ r1Done' = TRUE /\ tried' = tried \cup {"r1"}

\* Also from "already off": skipping to the re-enable is the repair.
R1Succeeds ==
  /\ Goto("r1", "wait")
  /\ R1Runs
  /\ connectable' = TRUE
  /\ rejects' = 0
  /\ UNCHANGED <<armed, r2, r3, r4, flap, frz, absent>>

\* Mutant: a rejection is not counted.
R1RejectedUncounted ==
  /\ Goto("r1", "r3")
  /\ R1Runs
  /\ connectable' \in {connectable, FALSE}
  /\ UNCHANGED <<armed, rejects, r2, r3, r4, flap, frz, absent>>

\* The disable is refused, or no re-enable works and the radio stays deaf.
R1Rejected ==
  /\ Goto("r1", "r3")
  /\ R1Runs
  /\ connectable' \in {connectable, FALSE}
  /\ rejects' = Up(rejects, R1Dead)
  /\ UNCHANGED <<armed, r2, r3, r4, flap, frz, absent>>

-----------------------------------------------------------------------------
(* R3: restart of the earbuds' audio devnodes.                             *)

\* btf_freeze.txt is looked for; the user may have put or removed it.
LookForFile == frozen' \in BOOLEAN /\ clear' = IF frozen' THEN Oldest ELSE 0

\* Mutant: a verdict of "no file" is kept for the run.
ReadFreezeOnlyFrozen ==
  IF frozen /\ checked >= Recheck
  THEN LookForFile /\ checked' = 0
  ELSE UNCHANGED frz

\* escalation_frozen: the file is looked for again once the cached verdict is old
\* by the clock of the pass, which also stamps it.  R2 and R4 ask with the same
\* clock as R3 and get the same verdict.
ReadFreeze ==
  IF checked >= Recheck
  THEN LookForFile /\ checked' = 0
  ELSE UNCHANGED frz

\* A forced restart skips the arm time, the spacing and the episode's limit.
R3Due ==
  /\ armed # Off
  /\ IF force # Off
     THEN force = 0
     ELSE armed >= R3Arm /\ restarts < R3Max /\ r3Last >= R3Min

\* Frozen, not due, or the breaker refuses.
R3Skipped ==
  /\ Goto("r3", "r2")
  /\ ReadFreeze
  /\ UNCHANGED <<armed, r1, r2, r3, r4, flap, absent, tried>>

R3Runs ==
  /\ ReadFreeze /\ ~frozen' /\ R3Due
  /\ force' = Off
  /\ r3Last' = 0
  /\ restarts' = Up(restarts, R3Max)
  /\ tried' = tried \cup {"r3"}

\* At least one node was restarted: stamped with the time at which that was done.
R3Succeeds ==
  /\ Goto("r3", "wait")
  /\ R3Runs
  /\ r3Done' = -lag
  /\ UNCHANGED <<armed, r1, r2, r4, flap, absent>>

\* Not elevated, no node present, or none restarted.
R3Fails ==
  /\ Goto("r3", "r2")
  /\ R3Runs
  /\ UNCHANGED <<armed, r1, r2, r3Done, r4, flap, absent>>

-----------------------------------------------------------------------------
(* R2: usb-cycle, and R4: hub port power-cycle.                            *)

PeerAbsent == absent >= AbsentAfter

R2IsDead == r2Fails >= R2Dead

R2Due ==
  /\ ~R2IsDead /\ ~frozen /\ ~PeerAbsent
  /\ cycleLeft
  /\ r1Done /\ armed >= R2Arm /\ r2Last >= R2Min
  /\ r3Done >= Quiet

\* Muted, not due, or refused by the breaker or by btf_no_usb_cycle.txt, which the
\* program writes itself and only the user deletes.
R2Skipped ==
  /\ Goto("r2", "r4")
  /\ UNCHANGED <<armed, r1, r2, r3, r4, flap, frz, absent, tried>>

\* A verified cycle of R2 or R4 queues one forced earbud restart, some time after
\* the cycle is done.
QueueRestart == force' = PostCycle + lag /\ restarts' = 0 /\ r3Last' = R3Min

\* Mutant: the cycle is not stamped when it succeeds.
R2SucceedsUnstamped ==
  /\ Goto("r2", "wait")
  /\ R2Due
  /\ cycles' = Least(cycles + 1, 2)
  /\ r2Cycled' = TRUE /\ r2Fails' = 0
  /\ QueueRestart
  /\ tried' = tried \cup {"verified"}
  /\ UNCHANGED <<armed, r1, r2Last, cycleLeft, r3Done, r4, flap, frz, absent>>

R2Succeeds ==
  /\ Goto("r2", "wait")
  /\ R2Due
  /\ r2Last' = 0 /\ cycleLeft' = FALSE /\ cycles' = Least(cycles + 1, 2)
  /\ r2Cycled' = TRUE /\ r2Fails' = 0
  /\ QueueRestart
  /\ tried' = tried \cup {"verified"}
  /\ UNCHANGED <<armed, r1, r3Done, r4, flap, frz, absent>>

R2FailsOnce ==
  /\ Goto("r2", "r4")
  /\ R2Due
  /\ r2Last' = 0 /\ cycleLeft' = FALSE /\ cycles' = Least(cycles + 1, 2)
  /\ r2Fails' = Up(r2Fails, R2Dead)
  /\ UNCHANGED <<armed, r1, r2Cycled, r3, r4, flap, frz, absent, tried>>

R4IsDead == r4Fails >= R4Dead

R4Due ==
  /\ ~R4IsDead /\ ~frozen /\ ~PeerAbsent
  /\ r2Cycled /\ armed >= R4Arm /\ r4Last >= R4Min

R4Skipped ==
  /\ Goto("r4", "connect")
  /\ UNCHANGED <<armed, r1, r2, r3, r4, flap, frz, absent, tried>>

R4Succeeds ==
  /\ Goto("r4", "wait")
  /\ R4Due
  /\ r4Last' = 0 /\ r4Fails' = 0
  /\ QueueRestart
  /\ tried' = tried \cup {"r4"}
  /\ UNCHANGED <<armed, r1, r2, r3Done, flap, frz, absent>>

R4FailsOnce ==
  /\ Goto("r4", "connect")
  /\ R4Due
  /\ r4Last' = 0 /\ r4Fails' = Up(r4Fails, R4Dead)
  /\ tried' = tried \cup {"r4"}
  /\ UNCHANGED <<armed, r1, r2, r3, flap, frz, absent>>

-----------------------------------------------------------------------------
(* Connect: the verdicts that the rungs hear of.                           *)

\* No connect (audio ready, backoff, breaker), or a verdict that says nothing
\* about the peer: Reconnecting, Refused, ServiceDebt.
ConnectSaysNothing ==
  /\ Goto("connect", "wait")
  /\ UNCHANGED <<armed, r1, r2, r3, r4, flap, frz, absent, tried>>

\* Connected or Failed: the peer, or the radio, has answered.
ConnectHeardPeer ==
  /\ Goto("connect", "wait")
  /\ absent' = 0
  /\ UNCHANGED <<armed, r1, r2, r3, r4, flap, frz, tried>>

ConnectNotFound ==
  /\ Goto("connect", "wait")
  /\ absent' = Up(absent, AbsentAfter)
  /\ UNCHANGED <<armed, r1, r2, r3, r4, flap, frz, tried>>

\* Inert: an earbud restart is queued for the next pass, at the toggle's pace
\* (free here).
ConnectInert ==
  /\ Goto("connect", "wait")
  /\ force = Off
  /\ force' = lag
  /\ UNCHANGED <<armed, r1, r2, r3Last, r3Done, restarts, r4, flap, frz, absent, tried>>

-----------------------------------------------------------------------------
R1Tries == R1Succeeds \/ R1Rejected
R2Tries == R2Succeeds \/ R2FailsOnce
R3Tries == R3Succeeds \/ R3Fails
R4Tries == R4Succeeds \/ R4FailsOnce

PollHears == PollAudioCloses \/ PollAudioBlips
PollFindsLink == PollHears \/ PollTransport

Next ==
  \/ WaitOut \/ PassLags
  \/ PollFindsNobody \/ PollEndsEarly \/ PollRepairs \/ PollFindsLink \/ PollReachesRungs
  \/ R1Muted \/ R1Skipped \/ R1Tries
  \/ R3Skipped \/ R3Tries
  \/ R2Skipped \/ R2Tries
  \/ R4Skipped \/ R4Tries
  \/ ConnectSaysNothing \/ ConnectHeardPeer \/ ConnectNotFound \/ ConnectInert

\* No breaker refuses a rung for ever, because each one cools down.
Fairness == SF_vars(R1Tries) /\ SF_vars(R3Tries) /\ SF_vars(R4Tries)

Spec == Init /\ [][Next]_vars /\ Fairness

-----------------------------------------------------------------------------
(* Properties.                                                             *)

\* "One usb-cycle per outage" (worker.rs): whatever flaps move the arm clock and
\* whatever verified cycles reset, an episode never sees a second one.
OneCyclePerEpisode == cycles <= 1

\* The ladder is climbed in order within ONE episode: a usb-cycle only after its
\* own R1 (or a muted one), a port cycle only after its own verified usb-cycle.
RungOrder ==
  [][/\ R2Tries => "r1" \in tried \/ R1IsDead
     /\ R4Tries => "verified" \in tried]_vars

\* btf_freeze.txt "works on a running daemon": a PnP rung runs only on a look at
\* the file that found none, and that was younger than the recheck time when the
\* pass began.  It may be older by what the pass has taken since.
FreezeHolds ==
  [][/\ R3Tries => clear' < Recheck + lag
     /\ R2Tries \/ R4Tries => clear < Recheck + lag]_vars

\* The outage goes on, though the link may flap: whatever polls find in between, the
\* target never streams at two polls in a row that find it.  Nothing freezes the
\* rungs, time goes on, passes keep reaching them, and forced restarts leave the
\* usb-cycle its quiet time now and then.
Outage ==
  /\ <>[](row < 2 /\ ~frozen /\ ~PeerAbsent)
  /\ []<><<WaitOut>>_vars
  /\ []<>(pc = "r1")
  /\ []<>(pc = "r2" /\ r3Done >= Quiet)

\* "A lone connected poll is a blip, not a cure": every rung is tried in this episode,
\* or muted for the run.  R4 needs a verified usb-cycle; over a usb-cycle that is due,
\* its breaker and btf_no_usb_cycle.txt have the last word.
Climbed ==
  /\ "r1" \in tried \/ R1IsDead
  /\ "r3" \in tried
  /\ ~cycleLeft \/ R2IsDead \/ (pc = "r2" /\ R2Due)
  /\ r2Cycled => "r4" \in tried \/ R4IsDead

LadderClimbs == Outage => []<>Climbed

\* A radio that R1 left deaf is made connectable again, or the rung gives up for
\* the run after R1Dead rejections in a row.
RadioHearsAgain == Outage => []<>(connectable \/ R1IsDead)
=============================================================================
