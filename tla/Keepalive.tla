----------------------------- MODULE Keepalive -----------------------------
(***************************************************************************)
(* The silent keepalive (audio.rs): the poll worker that starts and stops  *)
(* it, and the render threads it spawns.  They share three atomics:        *)
(* want_run, target_streaming and consec_fails (here wantRun, streaming,   *)
(* streak).  One step is one access to shared state or one call that       *)
(* changes the device; what a thread does to its own stack between two of  *)
(* those is part of the step.                                              *)
(*                                                                         *)
(* The worker is the loop of worker.rs around the keepalive: the watchdog  *)
(* sample, the poll and its three routes, and the final stop of app.rs.    *)
(* Waits have no length: a backoff or a probe interval is a stay in "top". *)
(* The branch of run_session that ends a session at a deadline is left     *)
(* out: probe_ms is nonzero only for a missing endpoint, which opens none. *)
(***************************************************************************)
EXTENDS Integers, FiniteSets

CONSTANTS
  Thread,           \* render threads; more than one shows that one is joined
  NoThread,
  DeadSessions,     \* KEEPALIVE_DEAD_SESSIONS
  MaxFails          \* where the saturating failure counters stop

ASSUME KeepaliveAssumption ==
  /\ NoThread \notin Thread
  /\ DeadSessions \in Nat \ {0}
  /\ MaxFails \in Nat /\ MaxFails >= DeadSessions

VARIABLES
  wpc,        \* the step the worker (after it, main) takes next
  after,      \* where the worker goes once stop has returned
  handle,     \* SilentKeepalive::thread
  watchdog,   \* watchdog_tripped
  running,    \* SharedState::running
  wantRun, streaming, streak,
  tpc,        \* tpc[t]: the step thread t takes next
  fails,      \* fails[t]: its own streak
  opened,     \* opened[t]: the verdict of its last session
  dev,        \* dev[t]: its device handle and the buffer in it
  link,       \* what a poll finds: peer up, down, or not enumerated at all
  device      \* the target endpoint: missing, refusing, or working

worker == <<wpc, after, handle, watchdog, running>>
shared == <<wantRun, streaming, streak>>
thread == <<tpc, fails, opened, dev>>
world  == <<link, device>>
vars   == <<worker, shared, thread, world>>

Place == {"none", "top", "resolve", "open", "prepare", "write", "flag", "play",
          "nap", "rearm", "drop", "close", "publish", "exited"}

WorkerOK ==
  /\ wpc \in {"wait", "poll", "start", "ready", "recover",
              "stop", "reset", "join", "exit"}
  /\ after \in {"none", "poll", "wait", "recover", "exit"}
  /\ wpc \in {"stop", "reset", "join"} => after # "none"
  /\ handle \in Thread \cup {NoThread}
  /\ {watchdog, running, wantRun, streaming} \subseteq BOOLEAN
  /\ streak \in 0..MaxFails

ThreadOK ==
  /\ tpc \in [Thread -> Place]
  /\ fails \in [Thread -> 0..MaxFails]
  /\ opened \in [Thread -> BOOLEAN]
  /\ dev \in [Thread -> {"closed", "open", "prepared", "queued", "done"}]

WorldOK ==
  /\ link \in {"up", "down", "gone"}
  /\ device \in {"missing", "refuses", "works"}

TypeOK == WorkerOK /\ ThreadOK /\ WorldOK

Init ==
  /\ wpc = "wait" /\ after = "none" /\ handle = NoThread
  /\ watchdog = FALSE /\ running = TRUE
  /\ wantRun = FALSE /\ streaming = FALSE /\ streak = 0
  /\ tpc = [t \in Thread |-> "none"]
  /\ fails = [t \in Thread |-> 0]
  /\ opened = [t \in Thread |-> FALSE]
  /\ dev = [t \in Thread |-> "closed"]
  /\ link \in {"up", "down", "gone"}
  /\ device \in {"missing", "refuses", "works"}

Saturate(n) == IF n = MaxFails THEN MaxFails ELSE n + 1

\* endpoint.rs: the target is among the waveOut devices; it opens in one of the
\* ranked formats, whatever order they are tried in.
TargetPresent == device # "missing"
TargetAccepts == device = "works"

-----------------------------------------------------------------------------
(* The poll worker.                                                        *)

WGoto(from, to) == wpc = from /\ wpc' = to

\* SilentKeepalive::stop is called; back says where its caller goes on.
CallStop(back) == wpc' = "stop" /\ after' = back

\* The H4 test of handle_found.
AudioDead == ~watchdog /\ handle # NoThread /\ streak >= DeadSessions

\* Mutant: the loop does not look at is_running.
SampleIgnoresQuit ==
  /\ WGoto("wait", "poll")
  /\ watchdog' \in IF watchdog THEN BOOLEAN ELSE {FALSE}
  /\ UNCHANGED <<after, handle, running, shared, thread, world>>

SampleOk ==
  /\ running
  /\ WGoto("wait", "poll")
  /\ watchdog' \in IF watchdog THEN BOOLEAN ELSE {FALSE}
  /\ UNCHANGED <<after, handle, running, shared, thread, world>>

SampleTrips ==
  /\ running /\ wpc = "wait" /\ ~watchdog
  /\ watchdog' = TRUE
  /\ CallStop("poll")
  /\ UNCHANGED <<handle, running, shared, thread, world>>

\* No radio, or the peer is not in its list: the keepalive is left alone.
PollFindsNobody ==
  /\ link = "gone"
  /\ WGoto("poll", "wait")
  /\ UNCHANGED <<after, handle, watchdog, running, shared, thread, world>>

PollConnected ==
  /\ link = "up" /\ ~AudioDead
  /\ WGoto("poll", IF watchdog \/ handle # NoThread THEN "ready" ELSE "start")
  /\ UNCHANGED <<after, handle, watchdog, running, shared, thread, world>>

\* One poll through the ladder: the sensor is rebuilt from scratch.
PollAudioDead ==
  /\ wpc = "poll" /\ link = "up" /\ AudioDead
  /\ CallStop("recover")
  /\ UNCHANGED <<handle, watchdog, running, shared, thread, world>>

PollDown ==
  /\ wpc = "poll" /\ link = "down"
  /\ CallStop(IF watchdog THEN "wait" ELSE "recover")
  /\ UNCHANGED <<handle, watchdog, running, shared, thread, world>>

\* start: want_run is set before the spawn, and no other thread runs then.
StartSpawns(t) ==
  /\ WGoto("start", "ready")
  /\ tpc[t] = "none"
  /\ wantRun' = TRUE
  /\ handle' = t
  /\ tpc' = [tpc EXCEPT ![t] = "top"]
  /\ UNCHANGED <<after, watchdog, running, streaming, streak, fails, opened, dev, world>>

StartFails ==
  /\ WGoto("start", "ready")
  /\ wantRun' = FALSE
  /\ UNCHANGED <<after, handle, watchdog, running, streaming, streak, thread, world>>

\* A streaming target needs nothing; a link without it goes through the ladder.
Ready ==
  /\ WGoto("ready", IF streaming \/ watchdog THEN "wait" ELSE "recover")
  /\ UNCHANGED <<after, handle, watchdog, running, shared, thread, world>>

\* recover_link: what it does to the world is a change of link or device.
Recover ==
  /\ WGoto("recover", "wait")
  /\ UNCHANGED <<after, handle, watchdog, running, shared, thread, world>>

\* The worker has left its loop and main calls the final stop.
WorkerExits ==
  /\ wpc = "wait" /\ ~running
  /\ CallStop("exit")
  /\ UNCHANGED <<handle, watchdog, running, shared, thread, world>>

StopAsks ==
  /\ WGoto("stop", "reset")
  /\ wantRun' = FALSE
  /\ UNCHANGED <<after, handle, watchdog, running, streaming, streak, thread, world>>

StopResets ==
  /\ WGoto("reset", "join")
  /\ streak' = 0
  /\ UNCHANGED <<after, handle, watchdog, running, wantRun, streaming, thread, world>>

\* The thread is gone, and its stack with it.
Joined ==
  /\ \A t \in Thread : t = handle => tpc[t] = "exited"
  /\ tpc' = [t \in Thread |-> IF t = handle THEN "none" ELSE tpc[t]]
  /\ fails' = [t \in Thread |-> IF t = handle THEN 0 ELSE fails[t]]

\* Mutant: the handle is kept after the join.
StopJoinsKeepsHandle ==
  /\ wpc = "join"
  /\ wpc' = after /\ after' = "none"
  /\ Joined
  /\ UNCHANGED <<handle, watchdog, running, shared, opened, dev, world>>

\* Mutant: stop lets the thread go without waiting for it.
StopDetaches ==
  /\ wpc = "join"
  /\ wpc' = after /\ after' = "none"
  /\ handle' = NoThread
  /\ UNCHANGED <<watchdog, running, shared, thread, world>>

StopJoins ==
  /\ wpc = "join"
  /\ wpc' = after /\ after' = "none"
  /\ handle' = NoThread
  /\ Joined
  /\ UNCHANGED <<watchdog, running, shared, opened, dev, world>>

Worker ==
  \/ SampleOk \/ SampleTrips
  \/ PollFindsNobody \/ PollConnected \/ PollAudioDead \/ PollDown
  \/ StartFails \/ \E t \in Thread : StartSpawns(t)
  \/ Ready \/ Recover \/ WorkerExits
  \/ StopAsks \/ StopResets \/ StopJoins

-----------------------------------------------------------------------------
(* A render thread.                                                        *)

Goto(t, to) == tpc' = [tpc EXCEPT ![t] = to]
Step(t, from, to) == tpc[t] = from /\ Goto(t, to)
SetDev(t, d) == dev' = [dev EXCEPT ![t] = d]
SetOpened(t, b) == opened' = [opened EXCEPT ![t] = b]

ThreadExits(t) ==
  /\ ~wantRun
  /\ Step(t, "top", "exited")
  /\ UNCHANGED <<worker, shared, fails, opened, dev, world>>

\* The circuit breaker lets a session through; a refusal is a stay at the top.
BreakerAllows(t) ==
  /\ wantRun
  /\ Step(t, "top", "resolve")
  /\ UNCHANGED <<worker, shared, fails, opened, dev, world>>

\* WAVE_MAPPER is never opened: the thread sleeps and asks again.
EndpointMissing(t) ==
  /\ ~TargetPresent
  /\ Step(t, "resolve", "top")
  /\ streaming' = FALSE
  /\ UNCHANGED <<worker, wantRun, streak, fails, opened, dev, world>>

EndpointFound(t) ==
  /\ TargetPresent
  /\ Step(t, "resolve", "open")
  /\ UNCHANGED <<worker, shared, fails, opened, dev, world>>

OpenSucceeds(t) ==
  /\ TargetAccepts
  /\ Step(t, "open", "prepare")
  /\ SetDev(t, "open")
  /\ UNCHANGED <<worker, shared, fails, opened, world>>

\* Mutant: a device that did not open counts as a session that ran.
OpenFailsUnnoticed(t) ==
  /\ ~TargetAccepts
  /\ Step(t, "open", "publish")
  /\ SetOpened(t, TRUE)
  /\ UNCHANGED <<worker, shared, fails, dev, world>>

\* No format of ranked_formats is accepted (or the device is gone).
OpenFails(t) ==
  /\ ~TargetAccepts
  /\ Step(t, "open", "publish")
  /\ SetOpened(t, FALSE)
  /\ UNCHANGED <<worker, shared, fails, dev, world>>

PrepareSucceeds(t) ==
  /\ TargetAccepts
  /\ Step(t, "prepare", "write")
  /\ SetDev(t, "prepared")
  /\ UNCHANGED <<worker, shared, fails, opened, world>>

\* Before the guard exists: closed by hand.
PrepareFails(t) ==
  /\ ~TargetAccepts
  /\ Step(t, "prepare", "publish")
  /\ SetDev(t, "closed")
  /\ SetOpened(t, FALSE)
  /\ UNCHANGED <<worker, shared, fails, world>>

\* The first waveOutWrite, and the one of a re-armed buffer.
WriteSucceeds(t) ==
  /\ TargetAccepts
  /\ Step(t, "write", "flag")
  /\ SetDev(t, "queued")
  /\ UNCHANGED <<worker, shared, fails, opened, world>>

WriteFails(t) ==
  /\ ~TargetAccepts
  /\ Step(t, "write", "drop")
  /\ SetOpened(t, FALSE)
  /\ UNCHANGED <<worker, shared, fails, dev, world>>

RaiseFlag(t) ==
  /\ Step(t, "flag", "play")
  /\ streaming' = TRUE
  /\ UNCHANGED <<worker, wantRun, streak, fails, opened, dev, world>>

\* Mutant: want_run is looked at only when the buffer is done.
PlayEndsWhenDone(t) ==
  /\ ~wantRun /\ dev[t] = "done"
  /\ Step(t, "play", "drop")
  /\ SetOpened(t, TRUE)
  /\ UNCHANGED <<worker, shared, fails, dev, world>>

PlayEnds(t) ==
  /\ ~wantRun
  /\ Step(t, "play", "drop")
  /\ SetOpened(t, TRUE)
  /\ UNCHANGED <<worker, shared, fails, dev, world>>

\* Mutant: the loop of the session does not look at want_run at all.
PlayNapsOn(t) ==
  /\ Step(t, "play", "nap")
  /\ UNCHANGED <<worker, shared, fails, opened, dev, world>>

\* The 200 ms between a look at want_run and a look at the buffer.
PlayNaps(t) ==
  /\ wantRun
  /\ Step(t, "play", "nap")
  /\ UNCHANGED <<worker, shared, fails, opened, dev, world>>

PlayGoesOn(t) ==
  /\ dev[t] = "queued"
  /\ Step(t, "nap", "play")
  /\ UNCHANGED <<worker, shared, fails, opened, dev, world>>

\* WHDR_DONE: the header is unprepared, prepared anew and written again, all
\* with target_streaming still true, and whatever want_run says by now.
Rearm(t) ==
  /\ dev[t] = "done"
  /\ Step(t, "nap", "rearm")
  /\ SetDev(t, "open")
  /\ UNCHANGED <<worker, shared, fails, opened, world>>

RearmPrepares(t) ==
  /\ TargetAccepts
  /\ Step(t, "rearm", "write")
  /\ SetDev(t, "prepared")
  /\ UNCHANGED <<worker, shared, fails, opened, world>>

RearmFails(t) ==
  /\ ~TargetAccepts
  /\ Step(t, "rearm", "drop")
  /\ SetOpened(t, FALSE)
  /\ UNCHANGED <<worker, shared, fails, dev, world>>

\* Mutant: the guard forgets the flag.
DropKeepsFlag(t) ==
  /\ Step(t, "drop", "close")
  /\ UNCHANGED <<worker, shared, fails, opened, dev, world>>

\* SessionGuard::drop lowers the flag first ...
DropLowersFlag(t) ==
  /\ Step(t, "drop", "close")
  /\ streaming' = FALSE
  /\ UNCHANGED <<worker, wantRun, streak, fails, opened, dev, world>>

\* ... then resets, drains, unprepares and closes.  waveOutReset is assumed to
\* return the buffer within the drain cap.
DropCloses(t) ==
  /\ Step(t, "close", "publish")
  /\ SetDev(t, "closed")
  /\ UNCHANGED <<worker, shared, fails, opened, world>>

\* Mutant: the counter wraps past its end instead of saturating.
PublishUnbounded(t) ==
  LET n == IF opened[t] THEN 0 ELSE fails[t] + 1
  IN  /\ Step(t, "publish", "top")
      /\ fails' = [fails EXCEPT ![t] = n]
      /\ streak' = n
      /\ SetOpened(t, FALSE)
      /\ UNCHANGED <<worker, wantRun, streaming, dev, world>>

\* The streak is published only once a session has ended.
Publish(t) ==
  LET n == IF opened[t] THEN 0 ELSE Saturate(fails[t])
  IN  /\ Step(t, "publish", "top")
      /\ fails' = [fails EXCEPT ![t] = n]
      /\ streak' = n
      /\ SetOpened(t, FALSE)
      /\ UNCHANGED <<worker, wantRun, streaming, dev, world>>

Render(t) ==
  \/ ThreadExits(t) \/ BreakerAllows(t) \/ EndpointMissing(t) \/ EndpointFound(t)
  \/ OpenSucceeds(t) \/ OpenFails(t) \/ PrepareSucceeds(t) \/ PrepareFails(t)
  \/ WriteSucceeds(t) \/ WriteFails(t) \/ RaiseFlag(t)
  \/ PlayEnds(t) \/ PlayNaps(t) \/ PlayGoesOn(t) \/ Rearm(t) \/ RearmPrepares(t) \/ RearmFails(t)
  \/ DropLowersFlag(t) \/ DropCloses(t) \/ Publish(t)

-----------------------------------------------------------------------------
(* The world: the peer, the audio stack, the user who closes the window.   *)

LinkChanges ==
  /\ link' \in {"up", "down", "gone"} \ {link}
  /\ UNCHANGED <<worker, shared, thread, device>>

DeviceChanges ==
  /\ device' \in {"missing", "refuses", "works"} \ {device}
  /\ UNCHANGED <<worker, shared, thread, link>>

\* The driver gives the buffer back: its loops are over, or it was torn down.
DriverFinishes(t) ==
  /\ dev[t] = "queued"
  /\ SetDev(t, "done")
  /\ UNCHANGED <<worker, shared, tpc, fails, opened, world>>

Quit ==
  /\ running
  /\ running' = FALSE
  /\ UNCHANGED <<wpc, after, handle, watchdog, shared, thread, world>>

World == LinkChanges \/ DeviceChanges \/ Quit \/ \E t \in Thread : DriverFinishes(t)

Next == Worker \/ World \/ \E t \in Thread : Render(t)

\* The poll timer wakes the worker and the scheduler runs both threads; a spawn
\* succeeds now and then, and the breaker, which cools down, lets a thread that
\* keeps asking through.  The peer, the audio stack and the user owe nothing.
Fairness ==
  /\ WF_vars(Worker)
  /\ \A t \in Thread : WF_vars(Render(t)) /\ SF_vars(BreakerAllows(t))
  /\ SF_vars(\E t \in Thread : StartSpawns(t))

Spec == Init /\ [][Next]_vars /\ Fairness

-----------------------------------------------------------------------------
(* Properties.                                                             *)

\* is_running() = false means silence: once stop has returned, no thread is
\* left, no session is open and nobody can raise the flag again.
IdleIsSilent ==
  handle = NoThread =>
    /\ ~streaming
    /\ \A t \in Thread : tpc[t] = "none" /\ dev[t] = "closed"

\* One session at a time, under a flag that falls before the session closes.
Stream == INSTANCE ExclusiveStream WITH
  Holder  <- Thread,
  holders <- {t \in Thread : dev[t] # "closed"},
  flag    <- streaming

ImplementsExclusiveStream == Stream!Spec

\* "Every wait is bounded so shutdown can never hang" (audio.rs): stop returns,
\* and a daemon that was told to quit gets to the end of main.
Stopping == wpc \in {"stop", "reset", "join"}
StopReturns == Stopping ~> ~Stopping
QuitEnds == ~running ~> wpc = "exit"

\* The safety half of "can never hang": from the moment stop has asked, every
\* step of a render thread -- also one that has just seen its buffer done and
\* arms it once more -- brings it nearer to its exit, whatever the device, the
\* peer and the user do; no thread turns back to a session it has left.
StepsToExit ==
  [none |-> 0, exited |-> 1, top |-> 2, publish |-> 3, close |-> 4, drop |-> 5,
   play |-> 6, flag |-> 7, write |-> 8, prepare |-> 9, rearm |-> 9, nap |-> 10,
   open |-> 10, resolve |-> 11]

Nearer(t) == StepsToExit[tpc'[t]] < StepsToExit[tpc[t]]
TurnsToExit == \A t \in Thread : tpc'[t] = tpc[t] \/ Nearer(t)

StopHasAsked == wpc \in {"reset", "join"}
StopDrains == [][StopHasAsked => TurnsToExit]_vars

\* A link that stays up with a working endpoint ends up streaming for good, out
\* of whatever failures, streaks and stops came before.
Steady(d) == link = "up" /\ device = d /\ ~watchdog /\ running
StreamReturns == <>[]Steady("works") => <>[]streaming

\* Sessions that keep dying on a live link (none outlives the refusal) reach the
\* audio-dead route again and again: every restart earns a new verdict.
DyingSessions == Steady("refuses") /\ \A t \in Thread : dev[t] # "queued"
DeadAudioEscalates == <>[]DyingSessions => []<><<PollAudioDead>>_vars

\* "BT says connected but the render sessions keep dying" (worker.rs): the
\* audio-dead route is taken only while nothing streams.
AudioDeadMeansSilent == [][PollAudioDead => ~streaming]_vars
=============================================================================
