------------------------------ MODULE Breaker ------------------------------
(***************************************************************************)
(* ladder.rs::CircuitBreaker, the rate limit in front of every expensive   *)
(* OS call: a tumbling window that counts calls and, once MaxEvents of     *)
(* them were admitted in one window, a cooldown during which all are       *)
(* refused.  The six breakers of the daemon differ in their constants.     *)
(*                                                                         *)
(* allow() is told the time: a pass reads the clock once and may ask much  *)
(* later, after rungs that took minutes.  So the breaker's own times are   *)
(* kept as ages at the caller's last reading, and lag says how long ago    *)
(* that was; one tick is one unit of GetTickCount64.  The module holds the *)
(* operations; a caller composes them with its own steps.                  *)
(***************************************************************************)
EXTENDS Integers

CONSTANTS
  Window,       \* window_ms
  MaxEvents,    \* max_events
  Cooldown      \* cooldown_ms

VARIABLES
  count,        \* calls admitted in this window
  windowAge,    \* now - window_start_ms; stops at Window, where it is over
  coolLeft,     \* tripped_until_ms - now, or 0
  lag,          \* time since the caller has read its now; stops at Cooldown
  watchAge,     \* history: age of a window that somebody outside began to
                \* watch at a time of his own; stops at Window, where it is over
  made          \* history: calls made since then

state == <<count, windowAge, coolLeft>>
history == <<watchAge, made>>

TypeOK ==
  /\ count \in 0..MaxEvents
  /\ windowAge \in 0..Window
  /\ coolLeft \in 0..Cooldown
  /\ lag \in 0..Cooldown
  /\ watchAge \in 0..Window
  /\ made \in Nat

\* window_start_ms = 0: the first window began when the machine was booted.
\* A new process has a new breaker.
Init ==
  /\ count = 0 /\ windowAge \in 0..Window /\ coolLeft = 0 /\ lag = 0
  /\ watchAge = Window /\ made = 0

Restart ==
  /\ count' = 0 /\ windowAge' \in 0..Window /\ coolLeft' = 0 /\ lag' = 0
  /\ watchAge' = Window /\ made' = 0

\* A call made now finds the window of the last one, or begins one.
Expired == windowAge = Window
Calls == IF Expired THEN 1 ELSE count + 1

\* allow() = true.
Admit ==
  /\ coolLeft = 0 /\ Calls <= MaxEvents
  /\ count' = Calls
  /\ windowAge' = IF Expired THEN 0 ELSE windowAge
  /\ UNCHANGED <<coolLeft, lag>>

\* Mutant: the trip restarts the window but not the cooldown.
TripWithoutCooldown ==
  /\ coolLeft = 0 /\ Calls > MaxEvents
  /\ count' = 0 /\ windowAge' = 0
  /\ UNCHANGED <<coolLeft, lag>>

\* allow() = false: one call too many in this window ...
Trip ==
  /\ coolLeft = 0 /\ Calls > MaxEvents
  /\ coolLeft' = Cooldown
  /\ count' = 0 /\ windowAge' = 0
  /\ UNCHANGED lag

\* ... or the breaker is still open.
StaysOpen ==
  /\ coolLeft > 0
  /\ UNCHANGED <<state, lag>>

Refuse == Trip \/ StaysOpen

\* The caller goes on to the OS call that the breaker stands before.
CallMade ==
  /\ made' = IF watchAge < Window THEN made + 1 ELSE 0
  /\ UNCHANGED watchAge

\* The caller reads the clock: what the breaker knows is older by the lag.
ReadClock ==
  /\ windowAge' = IF windowAge + lag < Window THEN windowAge + lag ELSE Window
  /\ coolLeft' = IF coolLeft > lag THEN coolLeft - lag ELSE 0
  /\ lag' = 0
  /\ UNCHANGED <<count, history>>

Tick ==
  /\ lag' = IF lag < Cooldown THEN lag + 1 ELSE Cooldown
  /\ watchAge' = IF watchAge < Window THEN watchAge + 1 ELSE Window
  /\ made' = IF watchAge' < Window THEN made ELSE 0
  /\ UNCHANGED state

\* The history's own step: the watch begins at any time at all.
BeginWatch ==
  /\ watchAge = Window
  /\ watchAge' = 0 /\ made' = 0
  /\ UNCHANGED <<state, lag>>

-----------------------------------------------------------------------------
\* "Makes a runaway storm physically impossible" (ladder.rs:27): the window
\* tumbles, so any stretch of Window length may see the end of one and the
\* beginning of the next, and never more than that, also not across opening,
\* cooling and closing, and although the time of a call is not its time of asking.
StormBound == made <= 2 * MaxEvents

\* A watch that began after the caller's reading has seen no call yet: so it is
\* while the caller has not asked since.
NotAsked == lag > watchAge => made = 0

\* Why the bound holds.  What a watch that began before the caller's reading has
\* seen is in the window in force when that window is the older of the two, and
\* fills at most one window before it when not; the watch is over before an open
\* breaker closes again.
OlderWatch ==
  lag <= watchAge =>
    /\ coolLeft > 0 /\ made > 0 => watchAge - lag + coolLeft >= Window
    /\ coolLeft = 0 /\ Expired => made <= MaxEvents
    /\ coolLeft = 0 /\ ~Expired =>
         made <= IF watchAge - lag < windowAge THEN count ELSE MaxEvents + count

\* A younger watch has seen the call of this reading at most, which is counted.
YoungerWatch ==
  lag > watchAge /\ made > 0 => made = 1 /\ coolLeft = 0 /\ count > 0

IInv ==
  /\ StormBound /\ OlderWatch /\ YoungerWatch
  /\ watchAge = Window => made = 0
  /\ coolLeft > 0 => windowAge + coolLeft >= Window
=============================================================================
