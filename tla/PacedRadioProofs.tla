--------------------------- MODULE PacedRadioProofs ---------------------------
(***************************************************************************)
(* Proofs about PacedRadio: the storm bound of the circuit breaker for     *)
(* every window, limit and cooldown and however long a pass takes, and the *)
(* promises of the radio journal carried over to real time.                *)
(***************************************************************************)
EXTENDS PacedRadio, RadioJournalProofs

-----------------------------------------------------------------------------
(* The breaker by itself.                                                    *)

\* The constants as the arithmetic below needs them.
LEMMA R2Constants ==
  /\ R2Window \in Nat /\ R2Window > 0
  /\ R2Max \in Nat /\ R2Max > 0
  /\ R2Cooldown \in Nat /\ R2Cooldown >= R2Window
  BY PacedRadioAssumption

\* A new breaker has the types and the invariant.
LEMMA BreakerInit == R2!Init => R2!TypeOK /\ R2!IInv
  BY R2Constants DEF R2!Init, R2!TypeOK, R2!IInv, R2!StormBound, R2!OlderWatch, R2!YoungerWatch, R2!Expired

\* So has the one of a restarted process.
LEMMA BreakerRestart == R2!Restart => R2!TypeOK' /\ R2!IInv' /\ R2!NotAsked'
  BY R2Constants
  DEF R2!Restart, R2!TypeOK, R2!IInv, R2!StormBound, R2!OlderWatch, R2!YoungerWatch, R2!Expired, R2!NotAsked

\* What an admission does to the window: it goes on or begins anew.
LEMMA BreakerAdmit ==
  ASSUME R2!TypeOK, R2!Admit
  PROVE  /\ count' \in 0..R2Max /\ windowAge' \in 0..R2Window
         /\ coolLeft = 0 /\ coolLeft' = 0 /\ lag' = lag
         /\ \/ ~R2!Expired /\ windowAge' = windowAge /\ count' = count + 1
            \/ R2!Expired /\ windowAge' = 0 /\ count' = 1
  BY R2Constants DEF R2!TypeOK, R2!Admit, R2!Calls, R2!Expired

\* An admitted call that is made, and one that is not.
LEMMA BreakerCall ==
  ASSUME R2!TypeOK, R2!IInv, R2!NotAsked, R2!Admit,
         R2!CallMade \/ UNCHANGED <<watchAge, made>>
  PROVE  R2!TypeOK' /\ R2!IInv'
<1>1. watchAge' = watchAge
  BY DEF R2!CallMade
<1>2. PICK new \in 0..1 : /\ made' = made + new
                          /\ watchAge = R2Window => new = 0
  <2>1. CASE R2!CallMade /\ watchAge < R2Window
    BY <2>1, R2Constants DEF R2!TypeOK, R2!CallMade
  <2>2. CASE R2!CallMade /\ watchAge = R2Window
    BY <2>2, R2Constants DEF R2!TypeOK, R2!CallMade, R2!IInv
  <2>3. CASE UNCHANGED <<watchAge, made>>
    BY <2>3 DEF R2!TypeOK
  <2>4. QED
    BY <2>1, <2>2, <2>3, R2Constants DEF R2!TypeOK
<1>3. CASE R2!Expired
  <2>1. windowAge' = 0 /\ count' = 1 /\ coolLeft = 0 /\ coolLeft' = 0 /\ lag' = lag
    BY <1>3, BreakerAdmit
  <2>2. R2!TypeOK'
    BY <1>1, <1>2, <2>1, R2Constants DEF R2!TypeOK
  <2>3. R2!StormBound'
    BY <1>1, <1>2, <1>3, <2>1, R2Constants
    DEF R2!TypeOK, R2!IInv, R2!StormBound, R2!OlderWatch, R2!NotAsked
  <2>4. R2!OlderWatch'
    BY <1>1, <1>2, <1>3, <2>1, R2Constants
    DEF R2!TypeOK, R2!IInv, R2!OlderWatch, R2!Expired
  <2>5. R2!YoungerWatch' /\ (watchAge' = R2Window => made' = 0)
    BY <1>1, <1>2, <2>1 DEF R2!TypeOK, R2!IInv, R2!NotAsked, R2!YoungerWatch
  <2>6. QED
    BY <2>1, <2>2, <2>3, <2>4, <2>5 DEF R2!IInv
<1>4. CASE ~R2!Expired
  <2>1. /\ windowAge' = windowAge /\ count' = count + 1 /\ count + 1 <= R2Max
        /\ coolLeft = 0 /\ coolLeft' = 0 /\ lag' = lag
    BY <1>4 DEF R2!Admit, R2!Calls
  <2>2. R2!TypeOK'
    BY <1>1, <1>2, <2>1, R2Constants DEF R2!TypeOK
  <2>3. R2!StormBound'
    BY <1>1, <1>2, <1>4, <2>1, R2Constants
    DEF R2!TypeOK, R2!IInv, R2!StormBound, R2!OlderWatch, R2!NotAsked
  <2>4. R2!OlderWatch'
    BY <1>1, <1>2, <1>4, <2>1, R2Constants
    DEF R2!TypeOK, R2!IInv, R2!OlderWatch, R2!Expired
  <2>5. R2!YoungerWatch' /\ (watchAge' = R2Window => made' = 0)
    BY <1>1, <1>2, <2>1 DEF R2!TypeOK, R2!IInv, R2!NotAsked, R2!YoungerWatch
  <2>6. QED
    BY <2>1, <2>2, <2>3, <2>4, <2>5 DEF R2!IInv
<1>5. QED
  BY <1>3, <1>4

\* A refusal opens the breaker or finds it open.
LEMMA BreakerRefuse ==
  ASSUME R2!TypeOK, R2!IInv, R2!NotAsked, R2!Refuse, UNCHANGED <<watchAge, made>>
  PROVE  R2!TypeOK' /\ R2!IInv'
<1>1. CASE R2!Trip
  BY <1>1, R2Constants
  DEF R2!TypeOK, R2!IInv, R2!StormBound, R2!OlderWatch, R2!YoungerWatch, R2!Expired, R2!Trip, R2!NotAsked
<1>2. CASE R2!StaysOpen
  BY <1>2 DEF R2!TypeOK, R2!IInv, R2!StormBound, R2!OlderWatch, R2!YoungerWatch, R2!Expired, R2!StaysOpen, R2!state
<1>3. QED
  BY <1>1, <1>2 DEF R2!Refuse

\* A reading of the clock: a younger watch becomes an older one.
LEMMA BreakerReads ==
  ASSUME R2!TypeOK, R2!IInv, R2!ReadClock
  PROVE  R2!TypeOK' /\ R2!IInv' /\ R2!NotAsked'
<1> USE R2Constants DEF R2!TypeOK, R2!ReadClock, R2!history
<1>1. R2!TypeOK'
  OBVIOUS
<1>2. R2!NotAsked' /\ R2!YoungerWatch'
  BY DEF R2!NotAsked, R2!YoungerWatch
<1>3. R2!OlderWatch'
  <2>1. CASE lag > watchAge
    BY <2>1 DEF R2!IInv, R2!YoungerWatch, R2!OlderWatch, R2!Expired
  <2>2. CASE lag <= watchAge
    BY <2>2 DEF R2!IInv, R2!OlderWatch, R2!Expired
  <2>3. QED
    BY <2>1, <2>2
<1>4. R2!StormBound' /\ (watchAge' = R2Window => made' = 0)
  BY DEF R2!IInv, R2!StormBound
<1>5. coolLeft' > 0 => windowAge' + coolLeft' >= R2Window
  BY DEF R2!IInv
<1>6. QED
  BY <1>1, <1>2, <1>3, <1>4, <1>5 DEF R2!IInv

\* One unit of time.
LEMMA BreakerTick ==
  ASSUME R2!TypeOK, R2!IInv, R2!Tick
  PROVE  R2!TypeOK' /\ R2!IInv' /\ (R2!NotAsked => R2!NotAsked')
<1>1. R2!TypeOK'
  BY R2Constants DEF R2!TypeOK, R2!Tick, R2!state
<1>2. R2!NotAsked => R2!NotAsked'
  BY R2Constants DEF R2!TypeOK, R2!IInv, R2!Tick, R2!NotAsked
<1>3. R2!IInv'
  BY <1>1, R2Constants
  DEF R2!TypeOK, R2!IInv, R2!StormBound, R2!OlderWatch, R2!YoungerWatch, R2!Expired, R2!Tick, R2!state
<1>4. QED
  BY <1>1, <1>2, <1>3

\* The watch begins.
LEMMA BreakerWatch ==
  ASSUME R2!TypeOK, R2!IInv, R2!BeginWatch
  PROVE  R2!TypeOK' /\ R2!IInv' /\ R2!NotAsked'
  BY R2Constants
  DEF R2!TypeOK, R2!IInv, R2!StormBound, R2!OlderWatch, R2!YoungerWatch, R2!Expired, R2!BeginWatch, R2!state,
      R2!NotAsked

-----------------------------------------------------------------------------
(* The gate: who may enter a core, and that a pass asks once.                *)

\* Steps that leave the breaker alone lead to the gate only from before it.
LEMMA GateElsewhere ==
  ASSUME TypeOK, GateInv,
         PassElsewhere \/ World \/ \E x \in Proc : Core(x), UNCHANGED breaker
  PROVE  GateInv'
<1> DEFINE Outside == {"idle", "startup", "gate", "choose", "rungs", "r4", "connect"}
           Ahead == {"gate", "choose", "rungs"}
           G == /\ pc'[Daemon] \in Outside => job'[Daemon] = "none"
                /\ pc'[Daemon] \in Ahead \/ job'[Daemon] = "repair" => BeforeGate
<1>1. R2!NotAsked' = R2!NotAsked
  BY DEF breaker, R2!NotAsked
<1>2. G => GateInv'
  BY <1>1 DEF GateInv, BeforeGate
<1> HIDE DEF G
<1>3. PassElsewhere => G
  <2> USE DEF G, GateInv, BeforeGate, Goto, Step, frame, ResetFrame, Conclude,
              BeginRepair, BeginCore, TypeOK, Proc
  <2>1. StartupRepair => G  BY DEF StartupRepair
  <2>2. StartupClean => G  BY DEF StartupClean
  <2>3. RungZero => G  BY DEF RungZero
  <2>4. RungZeroBlind => G  BY DEF RungZeroBlind
  <2>5. RungZeroNotDue => G  BY DEF RungZeroNotDue
  <2>6. Blocked => G  BY DEF Blocked
  <2>7. PassEnds => G  BY DEF PassEnds
  <2>8. EnterLadder => G  BY DEF EnterLadder
  <2>9. StartHubCycle => G  BY DEF StartHubCycle
  <2>10. SkipHubCycle => G  BY DEF SkipHubCycle
  <2>11. Connect => G  BY DEF Connect
  <2>12. UsbCycleReturns => G  BY DEF UsbCycleReturns
  <2>13. HubCycleReturns => G  BY DEF HubCycleReturns
  <2>14. StartupReturns => G  BY DEF StartupReturns
  <2>15. RepairReturns => G  BY DEF RepairReturns
  <2> HIDE DEF G
  <2>16. QED
    BY <2>1, <2>2, <2>3, <2>4, <2>5, <2>6, <2>7, <2>8, <2>9, <2>10, <2>11,
       <2>12, <2>13, <2>14, <2>15, Zenon DEF PassElsewhere
<1>4. World => G
  <2>1. ASSUME World PROVE pc'[Daemon] = pc[Daemon] /\ job'[Daemon] = job[Daemon]
    <3> USE DEF frame
    <3>1. CASE EpisodeCloses \/ UserDeletesUsbOff
      BY <3>1 DEF EpisodeCloses, UserDeletesUsbOff
    <3>2. CASE \E p \in Port : Unplug(p) \/ Plug(p) \/ UserDisables(p) \/ UserEnables(p)
      BY <3>2 DEF Unplug, Plug, UserDisables, UserEnables
    <3>3. ASSUME NEW x \in Tool, ToolStarts(x) \/ ToolExits(x) \/ ToolKilled(x)
          PROVE  pc'[Daemon] = pc[Daemon] /\ job'[Daemon] = job[Daemon]
      <4>1. x # Daemon
        BY RadioJournalAssumption
      <4> DEFINE Own == /\ \E s : pc' = [pc EXCEPT ![x] = s]
                        /\ \E j : job' = [job EXCEPT ![x] = j]
      <4>2. Own
        <5>1. CASE ToolStarts(x)
          <6>1. CASE BeginCore(x, "cycle")
            BY <6>1 DEF BeginCore, Conclude, Goto
          <6>2. CASE \E found \in {{}, plugged} : BeginRepair(x, "repair", TRUE, found)
            BY <6>2 DEF BeginRepair, Goto
          <6>3. QED
            BY <5>1, <6>1, <6>2 DEF ToolStarts
        <5>2. CASE ToolExits(x)
          BY <5>2 DEF ToolExits, ResetFrame, Goto, Step
        <5>3. CASE ToolKilled(x)
          BY <5>3 DEF ToolKilled, ResetFrame, Goto
        <5>4. QED
          BY <3>3, <5>1, <5>2, <5>3
      <4>3. QED
        BY <4>1, <4>2 DEF TypeOK, Proc
    <3>4. QED
      BY <2>1, <3>1, <3>2, <3>3, Zenon DEF World
  <2>2. QED
    BY <2>1 DEF G, GateInv, BeforeGate
<1>5. ASSUME NEW x \in Proc, Core(x) PROVE G
  <2>1. /\ pc'[Daemon] \notin Outside \/ pc'[Daemon] = pc[Daemon]
        /\ job' = job
    <3> DEFINE H == /\ pc'[Daemon] \notin Outside \/ pc'[Daemon] = pc[Daemon]
                    /\ job' = job
    <3> USE DEF Goto, Step, Conclude, CycleFrame, frame, TypeOK, AbortDisable
    <3>1. Arm(x) => H  BY DEF Arm
    <3>2. ArmFails(x) => H  BY DEF ArmFails
    <3>3. Disarm(x) => H  BY DEF Disarm
    <3>4. DisarmFails(x) => H  BY DEF DisarmFails
    <3>5. RestartVerified(x) => H  BY DEF RestartVerified
    <3>6. RestartNoOp(x) => H  BY DEF RestartNoOp
    <3>7. RestartReboot(x) => H  BY DEF RestartReboot
    <3>8. RestartFails(x) => H  BY DEF RestartFails
    <3>9. DisableAccepted(x) => H  BY DEF DisableAccepted
    <3>10. DisableRejected(x) => H  BY DEF DisableRejected
    <3>11. DisableObserved(x) => H  BY DEF DisableObserved
    <3>12. DisableRetried(x) => H  BY DEF DisableRetried
    <3>13. DisableNotObserved(x) => H  BY DEF DisableNotObserved
    <3>14. EnableStarts(x) => H  BY DEF EnableStarts
    <3>15. EnableFails(x) => H  BY DEF EnableFails
    <3>16. EnableGivesUp(x) => H  BY DEF EnableGivesUp
    <3>17. WalkFindsNothing(x) => H  BY DEF WalkFindsNothing
    <3>18. WalkCycles(x) => H  BY DEF WalkCycles
    <3>19. Reenumerated(x) => H  BY DEF Reenumerated
    <3>20. NotReenumerated(x) => H  BY DEF NotReenumerated
    <3>21. RepairDone(x) => H  BY DEF RepairDone
    <3>22. RepairIncomplete(x) => H  BY DEF RepairIncomplete
    <3>23. \A p \in Port : RepairSkips(x, p) => H  BY DEF RepairSkips
    <3>24. \A p \in Port : RepairStarts(x, p) => H  BY DEF RepairStarts
    <3>25. \A p \in Port : RepairRefused(x, p) => H  BY DEF RepairRefused
    <3> HIDE DEF H
    <3>26. H
      BY <1>5, <3>1, <3>2, <3>3, <3>4, <3>5, <3>6, <3>7, <3>8, <3>9, <3>10,
         <3>11, <3>12, <3>13, <3>14, <3>15, <3>16, <3>17, <3>18, <3>19, <3>20,
         <3>21, <3>22, <3>23, <3>24, <3>25, CoreCases, Zenon
    <3>27. QED
      BY <3>26 DEF H
  <2>2. QED
    BY <2>1 DEF G, GateInv, BeforeGate
<1>6. QED
  BY <1>2, <1>3, <1>4, <1>5

-----------------------------------------------------------------------------
(* The breaker in front of R2.                                               *)

\* The types, the breaker's invariant and the gate's.
Paced == TypeOK /\ R2!TypeOK /\ PacedIInv

\* Every step of the composition keeps them.
LEMMA PacedStep ==
  ASSUME Paced, TypeOK', [PacedNext]_pacedVars
  PROVE  Paced'
<1> USE DEF Paced, PacedIInv
<1>1. ASSUME UNCHANGED breaker PROVE R2!TypeOK' /\ R2!IInv'
  BY <1>1 DEF breaker, R2!TypeOK, R2!IInv, R2!StormBound, R2!OlderWatch,
     R2!YoungerWatch, R2!Expired
<1>2. ASSUME PacedPoll PROVE Paced'
  <2>1. R2!TypeOK' /\ R2!IInv' /\ R2!NotAsked'
    BY <1>2, BreakerReads DEF PacedPoll
  <2>2. GateInv'
    BY <1>2, <2>1 DEF PacedPoll, Poll, GateInv, Step, Goto, frame, TypeOK, Proc
  <2>3. QED
    BY <2>1, <2>2
<1>3. ASSUME AdmittedUsbCycle PROVE Paced'
  <2>1. pc[Daemon] = "rungs" /\ job[Daemon] = "none" /\ R2!NotAsked
    BY <1>3 DEF AdmittedUsbCycle, StartUsbCycle, GateInv, BeforeGate
  <2>2. R2!TypeOK' /\ R2!IInv'
    BY <1>3, <2>1, BreakerCall DEF AdmittedUsbCycle
  <2>3. GateInv'
    BY <1>3, <2>1 DEF AdmittedUsbCycle, StartUsbCycle, BeginCore, Conclude, Goto,
       frame, TypeOK, Proc, GateInv, BeforeGate
  <2>4. QED
    BY <2>2, <2>3
<1>4. ASSUME PacedSkip PROVE Paced'
  <2>1. pc[Daemon] = "rungs" /\ job[Daemon] = "none" /\ R2!NotAsked
    BY <1>4 DEF PacedSkip, SkipUsbCycle, Step, GateInv, BeforeGate
  <2>2. R2!TypeOK' /\ R2!IInv'
    BY <1>1, <1>4, <2>1, BreakerCall, BreakerRefuse DEF PacedSkip, breaker
  <2>3. GateInv'
    BY <1>4, <2>1 DEF PacedSkip, SkipUsbCycle, Step, Goto, frame, TypeOK, Proc,
       GateInv, BeforeGate
  <2>4. QED
    BY <2>2, <2>3
<1>5. ASSUME PacedRestart PROVE Paced'
  <2>1. R2!TypeOK' /\ R2!IInv' /\ R2!NotAsked'
    BY <1>5, BreakerRestart DEF PacedRestart
  <2>2. GateInv'
    BY <1>5, <2>1 DEF PacedRestart, DaemonRestarts, ResetFrame, Goto, TypeOK,
       Proc, GateInv
  <2>3. QED
    BY <2>1, <2>2
<1>6. ASSUME Elsewhere PROVE Paced'
  BY <1>1, <1>6, GateElsewhere DEF Elsewhere
<1>7. ASSUME TimePasses PROVE Paced'
  <2>1. R2!TypeOK' /\ R2!IInv' /\ (R2!NotAsked => R2!NotAsked')
    BY <1>7, BreakerTick, BreakerWatch DEF TimePasses
  <2>2. GateInv'
    BY <1>7, <2>1 DEF TimePasses, vars, frame, GateInv, BeforeGate
  <2>3. QED
    BY <2>1, <2>2
<1>8. ASSUME UNCHANGED pacedVars PROVE Paced'
  <2>1. GateInv'
    BY <1>8 DEF pacedVars, vars, breaker, frame, GateInv, BeforeGate, R2!NotAsked
  <2>2. QED
    BY <1>1, <1>8, <2>1 DEF pacedVars
<1>9. QED
  BY <1>2, <1>3, <1>4, <1>5, <1>6, <1>7, <1>8, Zenon DEF PacedNext

\* A step in real time is a step of the radio, or none.
LEMMA PacedStepIsRadioStep ==
  /\ PacedNext => Next \/ UNCHANGED vars
  /\ UNCHANGED pacedVars => UNCHANGED vars
<1>1. PacedNext => Next \/ UNCHANGED vars
  BY Zenon DEF PacedNext, PacedPoll, AdmittedUsbCycle, PacedSkip, PacedRestart,
     Elsewhere, TimePasses, Next, Pass, UsbCycleGate
<1>2. UNCHANGED pacedVars => UNCHANGED vars
  BY Zenon DEF pacedVars
<1>3. QED
  BY <1>1, <1>2

\* In every behaviour, whatever the user does, breaker and gate keep their
\* types and their invariant ...
THEOREM BreakerInvariant == RealTime => []Paced
<1>1. PacedInit => Paced
  <2>1. PacedInit => R2!NotAsked
    BY R2Constants DEF PacedInit, R2!Init, R2!NotAsked
  <2>2. QED
    BY <2>1, BreakerInit, TypeInit
    DEF PacedInit, Init, Proc, Paced, PacedIInv, GateInv
<1>2. Paced /\ [PacedNext]_pacedVars => Paced'
  <2>1. Paced /\ [PacedNext]_pacedVars => TypeOK'
    BY PacedStepIsRadioStep, TypeStep, Zenon DEF Paced
  <2>2. QED
    BY <2>1, PacedStep
<1>3. QED
  BY <1>1, <1>2, PTL DEF RealTime

\* ... so no stretch of one window sees more than two windows' worth of cycles,
\* for the code's ten minutes as for any other window.
THEOREM UsbCyclesAreBounded == RealTime => []UsbCycleStormBound
<1>1. Paced => UsbCycleStormBound
  BY DEF Paced, PacedIInv, R2!IInv, UsbCycleStormBound
<1>2. QED
  BY <1>1, BreakerInvariant, PTL

\* The types of both.
THEOREM PacedTypeCorrect == RealTime => []PacedTypeOK
<1>1. Paced => PacedTypeOK
  BY DEF Paced, PacedTypeOK
<1>2. QED
  BY <1>1, BreakerInvariant, PTL

\* With a careful user the paced radio is the radio of RadioJournal ...
THEOREM PacedIsCareful == PacedSpec => RealTime /\ CarefulSpec
<1>1. PacedInit => Init
  BY DEF PacedInit
<1>2. [PacedNext /\ CarefulUser]_pacedVars
        => [PacedNext]_pacedVars /\ [Next /\ CarefulUser]_vars
  BY PacedStepIsRadioStep, Zenon
<1>3. QED
  BY <1>1, <1>2, PTL DEF PacedSpec, RealTime, CarefulSpec

\* ... and the promises of the journal hold in real time too.
THEOREM PacedPromises ==
  ASSUME Alone
  PROVE  PacedSpec => /\ []DisableIsJournalled
                      /\ []HubCycleSparesOurDisable
                      /\ ImplementsUndoJournal
  BY PacedIsCareful, DisableAlwaysJournalled, HubCycleAlwaysSpares, Refinement, PTL
=============================================================================
