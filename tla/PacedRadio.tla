----------------------------- MODULE PacedRadio -----------------------------
(***************************************************************************)
(* RadioJournal with a clock and the circuit breaker of the usb-cycle      *)
(* (state.rs: r2_breaker) in front of R2, where worker.rs asks it.  The    *)
(* breaker is the last test but one: the off marker is looked at only      *)
(* after allow() has counted the call.  What it is told is the time at     *)
(* which the pass began: rung 0, a page, R1 and R3 may have come between.  *)
(***************************************************************************)
EXTENDS RadioJournal

CONSTANTS
  R2Window,     \* R2_CB_WINDOW_MS (10 min in the code)
  R2Max,        \* R2_CB_MAX_CYCLES (2)
  R2Cooldown    \* R2_CB_COOLDOWN_MS (10 min)

\* No breaker of the daemon closes again within one window.
ASSUME PacedRadioAssumption ==
  /\ R2Window \in Nat \ {0}
  /\ R2Max \in Nat \ {0}
  /\ R2Cooldown \in Nat /\ R2Cooldown >= R2Window

VARIABLES count, windowAge, coolLeft, lag, watchAge, made    \* of the breaker

R2 == INSTANCE Breaker WITH
  Window <- R2Window, MaxEvents <- R2Max, Cooldown <- R2Cooldown

breaker == <<count, windowAge, coolLeft, lag, watchAge, made>>
pacedVars == <<vars, breaker>>

PacedTypeOK == TypeOK /\ R2!TypeOK
PacedInit == Init /\ R2!Init

\* A pass begins with the one reading of the clock that all its tests use.
PacedPoll == Poll /\ R2!ReadClock

AdmittedUsbCycle == StartUsbCycle /\ R2!Admit /\ R2!CallMade

\* R2 is skipped before allow() is asked, by allow(), or by the off marker
\* after it.
PacedSkip ==
  /\ SkipUsbCycle
  /\ \/ UNCHANGED <<count, windowAge, coolLeft, lag>>
     \/ ~r2Used /\ R2!Refuse
     \/ ~r2Used /\ usbOff /\ R2!Admit
  /\ UNCHANGED <<watchAge, made>>

PacedRestart == DaemonRestarts /\ R2!Restart

Elsewhere ==
  /\ PassElsewhere \/ World \/ \E x \in Proc : Core(x)
  /\ UNCHANGED breaker

TimePasses ==
  /\ R2!Tick \/ R2!BeginWatch
  /\ UNCHANGED vars

PacedNext == PacedPoll \/ AdmittedUsbCycle \/ PacedSkip \/ PacedRestart
             \/ Elsewhere \/ TimePasses

\* Any user, and the careful one of RadioJournal.
RealTime == PacedInit /\ [][PacedNext]_pacedVars
PacedSpec == PacedInit /\ [][PacedNext /\ CarefulUser]_pacedVars

-----------------------------------------------------------------------------
\* In any stretch of R2_CB_WINDOW_MS one process starts at most twice
\* R2_CB_MAX_CYCLES usb-cycles, whatever episodes, off markers and failed
\* repairs come between, and however long a pass takes from its reading of the
\* clock to its R2 (ladder.rs:27, "makes a runaway storm physically impossible").
UsbCycleStormBound == R2!StormBound

\* Between the reading of the clock and the gate of R2: rung 0 is in between.
BeforeGate ==
  pc[Daemon] \in {"gate", "choose", "rungs"} \/ job[Daemon] = "repair"

\* No core is entered between cores, and a pass asks once.
GateInv ==
  /\ pc[Daemon] \in {"idle", "startup", "gate", "choose", "rungs", "r4", "connect"}
       => job[Daemon] = "none"
  /\ BeforeGate => R2!NotAsked
PacedIInv == R2!IInv /\ GateInv
=============================================================================
