----------------------------- MODULE Reconnect -----------------------------
(***************************************************************************)
(* The poll loop around the ladder (worker.rs, wake.rs, window.rs, app.rs):*)
(* two auto-reset events and a timer wake the worker; a pass pages the     *)
(* peer and holds the socket (page.rs), lets a rung run, or re-installs a  *)
(* profile driver at a limited pace; the main thread stops it all.         *)
(*                                                                         *)
(* A timestamp is its age in clock ticks, stopped where no test can tell   *)
(* more (the 0 of the code, "never", is the oldest age); a deadline is the *)
(* time left.  Time passes while the worker waits, sleeps, or sits in a    *)
(* blocking call; a wait that is over is over at once.  What a poll finds, *)
(* what a call answers, and which rung is due (module Ladder) are free.    *)
(***************************************************************************)
EXTENDS Integers, FiniteSets

CONSTANTS
  Socket, NoSocket,
  Poll, Idle,              \* POLL_INTERVAL_MS, POLL_INTERVAL_IDLE_MS
  ResumeDelay, Debounce,   \* RESUME_DELAY_MS, DEVICE_EVENT_DEBOUNCE_MS
  Unpark, Echo,            \* DEVICE_WAKE_UNPARK_MS, SELF_CHURN_ECHO_MS
  Cadence, Settle,         \* PAGE_CADENCE_MS, PAGE_SETTLE_MS
  ToggleMin, ToggleMax,    \* CONNECT_TOGGLE_MIN_INTERVAL_MS, ..._MAX_...
  Retry,                   \* the longest wait before the next connect
  CallMax,                 \* the longest blocking call
  StablePolls              \* LINK_STABLE_POLLS_TO_CLOSE

ASSUME ReconnectAssumption ==
  /\ NoSocket \notin Socket
  /\ {Poll, Idle, ResumeDelay, Debounce, Unpark, Echo, Cadence, Settle, ToggleMin,
      ToggleMax, Retry, CallMax, StablePolls} \subseteq Nat \ {0}
  /\ Poll <= Idle /\ ToggleMin <= ToggleMax

VARIABLES
  wpc,                     \* where the worker is
  mpc,                     \* where the main thread is
  running,                 \* SharedState::running
  resume, device,          \* the two events
  waited, timeout,         \* ticks spent where the worker is; of the next wait
  failed,                  \* the wait has failed since the last poll
  linkUp, stable,          \* link_up_since_ms # 0, link_stable_polls
  wakeAge, unparkAge,      \* device_wake_last_ms, device_unpark_last_ms
  churnAge,                \* self_churn_last_ms
  toggleAge, toggleFails,  \* connect_toggle_last_ms, connect_toggle_fails
  pageAge, settle,         \* page_last_ms, page_settle_until_ms
  nextConnect,             \* next_connect_ms
  held, open,              \* held_page_socket; the sockets open in Winsock
  slept,                   \* the broadcast of a resume is on its way
  \* History, for the properties only.
  sincePoll,               \* ticks outside calls since the last poll began
  sinceToggle,             \* since the last driver re-install ended, if no
                           \* resume was handled since
  answered,                \* since the last answered page, likewise
  stale,                   \* the open sockets from before the last sleep
  quitAge                  \* ticks outside calls since the quit

loop   == <<waited, timeout, failed, linkUp, stable>>
wakes  == <<wakeAge, unparkAge>>
toggle == <<toggleAge, toggleFails>>
page   == <<pageAge, settle>>
hold   == <<held, open, stale>>
ages   == <<sincePoll, sinceToggle, answered, quitAge>>
main   == <<mpc, running>>
vars   == <<wpc, main, slept, resume, device, loop, wakes, churnAge, toggle, page,
            nextConnect, hold, ages>>

Least(a, b) == IF a < b THEN a ELSE b
Most(a, b) == IF a > b THEN a ELSE b
Up(n, cap) == Least(n + 1, cap)
Down(n) == IF n > 0 THEN n - 1 ELSE 0

\* What the properties bound, and where the history stops counting.
PollBound == Poll + Debounce + Idle + ResumeDelay
Spacing == Least(ToggleMin, Echo)
QuitBound == Most(ResumeDelay, Poll)
LongestStay == Most(Most(Idle, CallMax), QuitBound)
LongestBackoff == Most(Retry, Settle)

MaxFails == 2              \* where connect_toggle_fails stops, after one doubling

ControlOK ==
  /\ wpc \in {"top", "wait", "resume", "paused", "poll", "recover", "recoverUp",
              "paging", "rungs", "churning", "connect", "toggling", "exit"}
  /\ mpc \in {"pump", "signal", "join", "keepalive", "done"}
  /\ {running, slept, resume, device, failed, linkUp} \subseteq BOOLEAN

HoldOK ==
  /\ held \in Socket \cup {NoSocket}
  /\ open \subseteq Socket /\ stale \subseteq open

CountsOK ==
  /\ waited \in 0..LongestStay /\ timeout \in {Poll, Idle} /\ stable \in 0..StablePolls
  /\ wakeAge \in 0..Debounce /\ unparkAge \in 0..Unpark /\ churnAge \in 0..Echo
  /\ toggleAge \in 0..ToggleMax /\ toggleFails \in 0..MaxFails
  /\ pageAge \in 0..Cadence /\ settle \in 0..Settle
  /\ nextConnect \in 0..LongestBackoff
  /\ sincePoll \in 0..PollBound + 1 /\ quitAge \in 0..QuitBound + 1
  /\ sinceToggle \in 0..Spacing /\ answered \in 0..Settle

TypeOK == ControlOK /\ HoldOK /\ CountsOK

Init ==
  /\ wpc = "top" /\ mpc = "pump" /\ running = TRUE
  /\ slept = FALSE /\ resume = FALSE /\ device = FALSE
  /\ waited = 0 /\ timeout = Poll /\ failed = FALSE
  /\ linkUp = FALSE /\ stable = 0
  /\ wakeAge = Debounce /\ unparkAge = Unpark /\ churnAge = Echo
  /\ toggleAge = ToggleMax /\ toggleFails = 0
  /\ pageAge = Cadence /\ settle = 0 /\ nextConnect = 0
  /\ held = NoSocket /\ open = {} /\ stale = {}
  /\ sincePoll = 0 /\ sinceToggle = Spacing /\ answered = Settle /\ quitAge = 0

Goto(from, to) == wpc = from /\ wpc' = to /\ waited' = 0

-----------------------------------------------------------------------------
(* Time.                                                                   *)

Sleeping ==
  \/ wpc = "wait" /\ ~resume /\ ~device /\ waited < timeout
  \/ wpc = "resume" /\ waited < ResumeDelay
  \/ wpc = "paused" /\ waited < Poll

Calling == wpc \in {"paging", "churning", "toggling"} /\ waited < CallMax

\* The steps of the main thread take no time.
Tick ==
  /\ Sleeping \/ Calling
  /\ mpc # "signal"
  /\ waited' = waited + 1
  /\ wakeAge' = Up(wakeAge, Debounce)
  /\ unparkAge' = Up(unparkAge, Unpark)
  /\ churnAge' = Up(churnAge, Echo)
  /\ toggleAge' = Up(toggleAge, ToggleMax)
  /\ pageAge' = Up(pageAge, Cadence)
  /\ settle' = Down(settle)
  /\ nextConnect' = Down(nextConnect)
  /\ sinceToggle' = Up(sinceToggle, Spacing)
  /\ answered' = Up(answered, Settle)
  /\ sincePoll' = IF Sleeping THEN Up(sincePoll, PollBound + 1) ELSE sincePoll
  /\ quitAge' = IF Sleeping /\ ~running THEN Up(quitAge, QuitBound + 1) ELSE quitAge
  /\ UNCHANGED <<wpc, main, slept, resume, device, timeout, failed, linkUp, stable, toggleFails,
                 hold>>

-----------------------------------------------------------------------------
(* Events: the window procedure sets them, WaitForMultipleObjects takes    *)
(* one, the resume first.                                                  *)

\* The machine sleeps and wakes: every socket that is open is dead, and the clock
\* (GetTickCount64) has counted the sleep.  It lasts for no time or for longer than
\* any interval.  The threads may run before the broadcast is delivered.
Sleep ==
  /\ mpc = "pump"
  /\ slept' = TRUE
  /\ stale' = open
  /\ \/ UNCHANGED <<wakes, churnAge, toggleAge, page, nextConnect, sinceToggle, answered>>
     \/ /\ wakeAge' = Debounce /\ unparkAge' = Unpark /\ churnAge' = Echo
        /\ toggleAge' = ToggleMax /\ pageAge' = Cadence
        /\ settle' = 0 /\ nextConnect' = 0
        /\ sinceToggle' = Spacing /\ answered' = Settle
  /\ UNCHANGED <<wpc, main, resume, device, loop, toggleFails, held, open, sincePoll,
                 quitAge>>

\* PBT_APMRESUMEAUTOMATIC reaches the window.
ResumeBroadcast ==
  /\ mpc = "pump"
  /\ slept /\ slept' = FALSE
  /\ resume' = TRUE
  /\ UNCHANGED <<wpc, main, device, loop, wakes, churnAge, toggle, page, nextConnect,
                 hold, ages>>

\* DBT_DEVNODES_CHANGED: the peer, another device, or the worker's own churn.
DeviceBroadcast ==
  /\ mpc = "pump"
  /\ device' = TRUE
  /\ UNCHANGED <<wpc, main, slept, resume, loop, wakes, churnAge, toggle, page, nextConnect,
                 hold, ages>>

\* Mutant: the loop has no condition.
LoopTopForever ==
  /\ Goto("top", "wait")
  /\ timeout' \in IF linkUp THEN {Poll, Idle} ELSE {Poll}
  /\ UNCHANGED <<main, slept, resume, device, failed, linkUp, stable, wakes, churnAge, toggle,
                 page, nextConnect, hold, ages>>

\* The loop condition, and the length of the wait: slow while audio flows.
LoopTop ==
  /\ Goto("top", IF running THEN "wait" ELSE "exit")
  /\ timeout' \in IF linkUp THEN {Poll, Idle} ELSE {Poll}
  /\ UNCHANGED <<main, slept, resume, device, failed, linkUp, stable, wakes, churnAge, toggle,
                 page, nextConnect, hold, ages>>

\* Mutant: a wake after the quit begins the wait anew.
WakeSeesQuitWaitsAgain ==
  /\ ~running
  /\ resume \/ device \/ waited >= timeout
  /\ Goto("wait", "wait")
  /\ resume' = FALSE /\ device' = FALSE
  /\ UNCHANGED <<main, slept, timeout, failed, linkUp, stable, wakes, churnAge, toggle, page,
                 nextConnect, hold, ages>>

\* Every wake looks at running first.
WakeSeesQuit ==
  /\ ~running
  /\ resume \/ device \/ waited >= timeout
  /\ Goto("wait", "exit")
  /\ UNCHANGED <<main, slept, resume, device, timeout, failed, linkUp, stable, wakes, churnAge,
                 toggle, page, nextConnect, hold, ages>>

WakeTo(pc) == running /\ Goto("wait", pc)

ResumeWakes ==
  /\ WakeTo("resume")
  /\ resume /\ resume' = FALSE
  /\ UNCHANGED <<main, slept, device, timeout, failed, linkUp, stable, wakes, churnAge, toggle,
                 page, nextConnect, hold, ages>>

TakeDevice(pc) ==
  /\ WakeTo(pc)
  /\ ~resume /\ device /\ device' = FALSE
  /\ UNCHANGED <<main, slept, resume, timeout, failed, linkUp, stable, churnAge, toggleFails,
                 settle, hold, ages>>

\* Mutant: every wake stamps the clock of the debounce.
DeviceCoalescedStamps ==
  /\ TakeDevice("top")
  /\ wakeAge < Debounce
  /\ wakeAge' = 0
  /\ UNCHANGED <<unparkAge, toggleAge, pageAge, nextConnect>>

\* device_wake_allowed says no: back to the wait, with no poll.
DeviceCoalesced ==
  /\ TakeDevice("top")
  /\ wakeAge < Debounce
  /\ UNCHANGED <<wakes, toggleAge, pageAge, nextConnect>>

\* Mutant: the echo of the worker's own churn counts as news.
MayUnparkOnEcho == unparkAge >= Unpark

MayUnpark == churnAge >= Echo /\ unparkAge >= Unpark

\* Our own echo, or too soon after the last unpark: a poll, and no more.
DevicePolls ==
  /\ TakeDevice("poll")
  /\ wakeAge >= Debounce /\ ~MayUnpark
  /\ wakeAge' = 0
  /\ UNCHANGED <<unparkAge, toggleAge, pageAge, nextConnect>>

\* The limits are cancelled: the peer may be back.
DeviceUnparks ==
  /\ TakeDevice("poll")
  /\ wakeAge >= Debounce /\ MayUnpark
  /\ wakeAge' = 0 /\ unparkAge' = 0
  /\ toggleAge' = ToggleMax /\ pageAge' = Cadence /\ nextConnect' = 0

TimerFires ==
  /\ WakeTo("poll")
  /\ ~resume /\ ~device /\ waited >= timeout
  /\ UNCHANGED <<main, slept, resume, device, timeout, failed, linkUp, stable, wakes, churnAge,
                 toggle, page, nextConnect, hold, ages>>

\* WAIT_FAILED, or a result nobody expects.  It is transient: at most one of
\* them between two polls.
WaitFails ==
  /\ ~failed /\ failed' = TRUE
  /\ waited = 0 /\ Goto("wait", "paused")
  /\ UNCHANGED <<main, slept, resume, device, timeout, linkUp, stable, wakes, churnAge, toggle,
                 page, nextConnect, hold, ages>>

PauseEnds ==
  /\ waited >= Poll /\ Goto("paused", "top")
  /\ UNCHANGED <<main, slept, resume, device, timeout, failed, linkUp, stable, wakes, churnAge,
                 toggle, page, nextConnect, hold, ages>>

\* close_held
Release == held' = NoSocket /\ open' = open \ {held} /\ stale' = stale \ {held}

\* Mutant: a hold is kept over the sleep.
ResumeKeepsHold ==
  /\ waited >= ResumeDelay
  /\ Goto("resume", IF running THEN "poll" ELSE "exit")
  /\ toggleAge' = ToggleMax /\ toggleFails' = 0
  /\ pageAge' = Cadence /\ settle' = 0
  /\ sinceToggle' = Spacing /\ answered' = Settle
  /\ UNCHANGED <<main, slept, resume, device, timeout, failed, linkUp, stable, wakes, churnAge,
                 nextConnect, hold, sincePoll, quitAge>>

\* The settle time after a resume is over: a fresh start for the reconnect.
ResumeEnds ==
  /\ waited >= ResumeDelay
  /\ Goto("resume", IF running THEN "poll" ELSE "exit")
  /\ toggleAge' = ToggleMax /\ toggleFails' = 0
  /\ pageAge' = Cadence /\ settle' = 0
  /\ Release
  /\ sinceToggle' = Spacing /\ answered' = Settle
  /\ UNCHANGED <<main, slept, resume, device, timeout, failed, linkUp, stable, wakes, churnAge,
                 nextConnect, sincePoll, quitAge>>

-----------------------------------------------------------------------------
(* The poll: what it finds.                                                *)

PollTo(pc) ==
  /\ running /\ Goto("poll", pc)
  /\ sincePoll' = 0 /\ failed' = FALSE
  /\ UNCHANGED <<main, slept, resume, device, timeout, wakes, churnAge, settle, sinceToggle,
                 answered, quitAge>>

PollSeesQuit ==
  /\ ~running /\ Goto("poll", "exit")
  /\ UNCHANGED <<main, slept, resume, device, timeout, failed, linkUp, stable, wakes, churnAge,
                 toggle, page, nextConnect, hold, ages>>

\* No radio, no peer in its list, or the watchdog holds a link without audio.
PollFindsNobody ==
  /\ PollTo("top")
  /\ UNCHANGED <<linkUp, stable, toggle, pageAge, nextConnect, hold>>

\* Mutant: the counter of stable polls does not stop.
PollAudioUnsaturated ==
  /\ linkUp' = TRUE
  /\ toggleFails' = 0 /\ nextConnect' = 0
  /\ stable' = stable + 1
  /\ UNCHANGED toggleAge

PollAudio ==
  /\ linkUp' = TRUE
  /\ toggleFails' = 0 /\ nextConnect' = 0
  /\ stable' = Up(stable, StablePolls)
  /\ UNCHANGED toggleAge

\* handle_found looks at the stream again: the session may have ended since.
PollHears == (PollTo("top") \/ PollTo("recoverUp")) /\ PollAudio

PollAudioBlips ==
  /\ PollHears
  /\ stable' < StablePolls
  /\ UNCHANGED <<pageAge, hold>>

\* The episode closes and the hold with it: Windows holds the link.
PollAudioCloses ==
  /\ PollHears
  /\ stable' >= StablePolls
  /\ pageAge' = Cadence
  /\ Release

\* Connected without target audio: no page and no rung on this pass.
PollTransport ==
  /\ PollTo("recoverUp")
  /\ linkUp' = TRUE /\ stable' = 0
  /\ UNCHANGED <<toggle, pageAge, nextConnect, hold>>

\* Connected, but the render sessions die (module Keepalive).
PollAudioDead ==
  /\ PollTo("recoverUp")
  /\ linkUp' = FALSE /\ stable' = 0
  /\ UNCHANGED <<toggle, pageAge, nextConnect, hold>>

PollDown ==
  /\ PollTo("recover")
  /\ linkUp' = FALSE /\ stable' = 0
  /\ UNCHANGED <<toggle, pageAge, nextConnect, hold>>

-----------------------------------------------------------------------------
(* recover_link: "recover" with the link down, "recoverUp" on a transport.  *)

Quiet == UNCHANGED <<main, slept, resume, device, timeout, failed, linkUp, stable, wakes>>

Stamp == churnAge' = 0

Wait(d) == nextConnect' = d

Recovered == \E pc \in {"recover", "recoverUp"} : Goto(pc, "top")

\* The debt is still owed, the radio is not healthy, the transport is fresh.
RecoverEnds ==
  /\ Recovered
  /\ nextConnect' \in {nextConnect, Retry}
  /\ Quiet
  /\ UNCHANGED <<churnAge, toggle, page, hold, ages>>

\* The audio driver has accepted ONESHOT_RECONNECT: it owns the retries now.
NativeAccepts ==
  /\ Recovered
  /\ Quiet
  /\ UNCHANGED <<churnAge, toggle, page, nextConnect, hold, ages>>

\* Rung 0 has repaired the radio: the worker's churn as well.
RecoverRepairs ==
  /\ Recovered
  /\ Stamp /\ Wait(Retry)
  /\ Quiet
  /\ UNCHANGED <<toggle, page, hold, ages>>

\* Mutant: the connect backoff stands in for the settle deadline.
PageSettlingByBackoff == nextConnect > 0 /\ settle > 0

PageSettling == settle > 0

RecoverSettles ==
  /\ PageSettling
  /\ Recovered
  /\ Quiet
  /\ UNCHANGED <<churnAge, toggle, page, nextConnect, hold, ages>>

RecoverTransport ==
  /\ ~PageSettling
  /\ Goto("recoverUp", "connect")
  /\ Quiet
  /\ UNCHANGED <<churnAge, toggle, page, nextConnect, hold, ages>>

\* PAGE_MIN_DOWN_MS is 0: the first pass of an outage pages.
PageDue == pageAge >= Cadence

PageNotDue ==
  /\ ~PageSettling /\ ~PageDue
  /\ Goto("recover", "rungs")
  /\ Quiet
  /\ UNCHANGED <<churnAge, toggle, page, nextConnect, hold, ages>>

\* Winsock itself is sick, before any socket exists.
PageFails ==
  /\ ~PageSettling /\ PageDue
  /\ Goto("recover", "rungs")
  /\ pageAge' = 0
  /\ Quiet
  /\ UNCHANGED <<churnAge, toggle, settle, nextConnect, hold, ages>>

PageStarts(s) ==
  /\ ~PageSettling /\ PageDue
  /\ s \notin open
  /\ Goto("recover", "paging")
  /\ pageAge' = 0
  /\ open' = open \cup {s}
  /\ Quiet
  /\ UNCHANGED <<churnAge, toggle, settle, nextConnect, held, stale, ages>>

\* The socket of the attempt under way.
Fresh == open \ {held}

PageAnswered ==
  /\ Goto("paging", "top")
  /\ settle' = Settle /\ Wait(Settle) /\ answered' = 0
  /\ Quiet
  /\ UNCHANGED <<churnAge, toggle, pageAge, sincePoll, sinceToggle, quitAge>>

\* Mutant: the old hold is forgotten, not closed.
PageConnectsForgets ==
  /\ PageAnswered
  /\ held' \in Fresh
  /\ UNCHANGED <<open, stale>>

\* The new socket replaces the old hold, which is closed only now.
PageConnects ==
  /\ PageAnswered
  /\ held' \in Fresh
  /\ open' = {held'}
  /\ stale' = stale \cap {held'}

\* Mutant: a refusal lets go of the hold.
PageRefusedReleases ==
  /\ PageAnswered
  /\ open' = {} /\ held' = NoSocket /\ stale' = {}

\* Contact, but a dead socket: never stored.
PageRefused ==
  /\ PageAnswered
  /\ open' = open \ Fresh
  /\ stale' = stale \ Fresh
  /\ UNCHANGED held

\* Silence up to PAGE_CONNECT_TIMEOUT_MS, or an error of the attempt.
PageUnanswered ==
  /\ Goto("paging", "rungs")
  /\ open' = open \ Fresh
  /\ stale' = stale \ Fresh
  /\ Quiet
  /\ UNCHANGED <<churnAge, toggle, page, nextConnect, held, ages>>

RungsPass ==
  /\ Goto("rungs", "connect")
  /\ Quiet
  /\ UNCHANGED <<churnAge, toggle, page, nextConnect, hold, ages>>

\* R1, R3, R2 or R4 runs: a blocking call that rewrites the device tree.
RungRuns ==
  /\ Goto("rungs", "churning")
  /\ Quiet
  /\ UNCHANGED <<churnAge, toggle, page, nextConnect, hold, ages>>

\* The churn is stamped when the call is over, whatever it achieved.
RungSucceeds ==
  /\ Goto("churning", "top")
  /\ Stamp /\ Wait(Retry)
  /\ Quiet
  /\ UNCHANGED <<toggle, page, hold, ages>>

RungFails ==
  /\ Goto("churning", "rungs")
  /\ Stamp
  /\ Quiet
  /\ UNCHANGED <<toggle, page, nextConnect, hold, ages>>

-----------------------------------------------------------------------------
(* Connect.                                                                *)

\* toggle_interval_ms and should_toggle: the interval doubles with every toggle
\* after the first, here once, up to its cap.
ToggleInterval == IF toggleFails > 1 THEN Least(2 * ToggleMin, ToggleMax) ELSE ToggleMin
ShouldToggle == toggleAge >= ToggleInterval

\* Audio came up meanwhile, the backoff runs, or the breaker is open.
ConnectSkipped ==
  /\ Goto("connect", "top")
  /\ Quiet
  /\ UNCHANGED <<churnAge, toggle, page, nextConnect, hold, ages>>

\* A plain enable, or a refusal without a toggle: no driver is re-installed.
ConnectPlain ==
  /\ nextConnect = 0
  /\ Goto("connect", "top")
  /\ nextConnect' \in {0, Retry}
  /\ Quiet
  /\ UNCHANGED <<churnAge, toggle, page, hold, ages>>

\* Inert: an earbud restart is queued, and pays the price of a toggle.
ConnectInert ==
  /\ nextConnect = 0 /\ ShouldToggle
  /\ Goto("connect", "top")
  /\ Stamp /\ toggleAge' = 0 /\ toggleFails' = Up(toggleFails, MaxFails)
  /\ Wait(Retry)
  /\ Quiet
  /\ UNCHANGED <<page, hold, ages>>

ToggleStarts ==
  /\ nextConnect = 0 /\ ShouldToggle
  /\ Goto("connect", "toggling")
  /\ Quiet
  /\ UNCHANGED <<churnAge, toggle, page, nextConnect, hold, ages>>

ToggleEnds ==
  /\ Goto("toggling", "top")
  /\ Stamp /\ toggleAge' = 0 /\ toggleFails' = Up(toggleFails, MaxFails)
  /\ Wait(Retry)
  /\ sinceToggle' = 0
  /\ Quiet
  /\ UNCHANGED <<page, hold, sincePoll, answered, quitAge>>

-----------------------------------------------------------------------------
(* The main thread.                                                        *)

MGoto(from, to) == mpc = from /\ mpc' = to

\* WM_QUIT ends the pump, and a broadcast that is still on its way is lost.
Quit ==
  /\ MGoto("pump", "signal")
  /\ running' = FALSE
  /\ slept' = FALSE
  /\ UNCHANGED <<wpc, resume, device, loop, wakes, churnAge, toggle, page, nextConnect,
                 hold, ages>>

\* Mutant: nobody wakes the worker.
MainForgetsSignal ==
  /\ MGoto("signal", "join")
  /\ UNCHANGED <<wpc, running, slept, resume, device, loop, wakes, churnAge, toggle, page,
                 nextConnect, hold, ages>>

MainSignals ==
  /\ MGoto("signal", "join")
  /\ resume' = TRUE
  /\ UNCHANGED <<wpc, running, slept, device, loop, wakes, churnAge, toggle, page, nextConnect,
                 hold, ages>>

MainJoins ==
  /\ MGoto("join", "keepalive")
  /\ wpc = "exit"
  /\ UNCHANGED <<wpc, running, slept, resume, device, loop, wakes, churnAge, toggle, page,
                 nextConnect, hold, ages>>

\* keepalive.stop(), which returns (module Keepalive).
MainEnds ==
  /\ MGoto("keepalive", "done")
  /\ UNCHANGED <<wpc, running, slept, resume, device, loop, wakes, churnAge, toggle, page,
                 nextConnect, hold, ages>>

-----------------------------------------------------------------------------
Loop ==
  \/ LoopTop \/ WakeSeesQuit \/ ResumeWakes \/ ResumeEnds
  \/ DeviceCoalesced \/ DevicePolls \/ DeviceUnparks \/ TimerFires \/ PauseEnds

Pass ==
  \/ PollSeesQuit \/ PollFindsNobody \/ PollAudioBlips \/ PollAudioCloses
  \/ PollTransport \/ PollAudioDead \/ PollDown
  \/ RecoverEnds \/ RecoverRepairs \/ NativeAccepts
  \/ RecoverSettles \/ RecoverTransport
  \/ PageNotDue \/ PageFails \/ \E s \in Socket : PageStarts(s)
  \/ PageConnects \/ PageRefused \/ PageUnanswered
  \/ RungsPass \/ RungRuns \/ RungSucceeds \/ RungFails
  \/ ConnectSkipped \/ ConnectPlain \/ ConnectInert \/ ToggleStarts \/ ToggleEnds

Main == MainSignals \/ MainJoins \/ MainEnds

Next ==
  \/ Tick \/ Sleep \/ ResumeBroadcast \/ DeviceBroadcast \/ WaitFails \/ Quit
  \/ Loop \/ Pass \/ Main

\* Time passes, the scheduler runs both threads, blocking calls return, and a
\* pass that falls from rung to rung has only four of them.
Fairness ==
  /\ WF_vars(Tick) /\ WF_vars(Loop) /\ WF_vars(Pass) /\ WF_vars(Main)
  /\ SF_vars(RungsPass)

Spec == Init /\ [][Next]_vars /\ Fairness

-----------------------------------------------------------------------------
(* Properties.                                                             *)

\* "A transient wait failure must NOT permanently kill polling", nor may a storm
\* of device events, each of which restarts the wait: the time between two polls
\* is bounded, in whatever order resumes, events and timers come.
PollsKeepComing == sincePoll <= PollBound

\* A driver re-install "parks the poll loop for seconds": whatever events cancel
\* its rate limit, and however late they are read, two of them are apart by the
\* echo time, unless a resume was handled in between.
ToggleSpacing == [][ToggleStarts => sinceToggle >= Spacing]_vars

\* "A successful page's settle deadline protects ALL fallback rungs": also when
\* a device event has cancelled the connect backoff that went with it.
SettleProtects ==
  [][RungRuns \/ ToggleStarts \/ ConnectPlain \/ ConnectInert
       => answered >= Settle]_vars

\* At most one socket is open between the attempts, and it is the held one.
NoSocketLeaks ==
  /\ open \subseteq {held} \/ wpc = "paging"
  /\ held # NoSocket => held \in open

\* "WE never drop the ACL ourselves": the last socket is closed only after a
\* sleep or once the target has streamed for long enough; a page that replaces
\* the hold, or fails to, never leaves the outage without one.
HoldIsKept ==
  [][held # NoSocket /\ open' = {} => wpc = "resume" \/ stable' = StablePolls]_vars

\* "Sockets do not survive sleep": once the broadcast of a resume has been handled,
\* nothing is held from before the sleep, not even by a page that was under way when
\* the machine fell asleep.  Until then a poll may run on the old hold: a timer or a
\* device event may wake the worker before the window gets the broadcast.
HoldIsFresh == held \in stale => slept \/ resume \/ wpc = "resume" \/ ~running

\* "Stop the worker first": it ends without waiting for its timer ...
QuitIsPrompt == quitAge <= QuitBound

\* ... since after the quit the worker only goes on towards its exit, from wherever
\* it is (worker.rs looks at running after each wait): it ends the pass under way,
\* begins no wait and no poll, and sits in no call or delay longer than it lasts.
\* Only the rungs may follow one another.
WayOut(p) ==
  CASE p = "exit" -> 0 [] p = "top" -> 1 [] p \in {"paused", "toggling"} -> 2
    [] p \in {"wait", "resume", "poll", "connect"} -> 3
    [] p \in {"rungs", "churning"} -> 4 [] p = "paging" -> 5 [] OTHER -> 6

LeadsOut ==
  \/ WayOut(wpc') < WayOut(wpc)
  \/ {wpc, wpc'} = {"rungs", "churning"}
  \/ wpc' = wpc /\ waited' = waited
  \/ wpc' = wpc /\ waited' = waited + 1 /\ waited' <= LongestStay

QuitLeadsOut == [][~running => LeadsOut]_vars

\* ... and the main thread gets to its end.
ShutdownCompletes == ~running ~> mpc = "done"
=============================================================================
