---------------------------- MODULE LadderProofs ----------------------------
(***************************************************************************)
(* The safety properties of Ladder, for every choice of the arm times, the *)
(* cooldowns and the limits that LadderAssumption allows.                  *)
(***************************************************************************)
EXTENDS Ladder, TLAPS

\* The times and the limits are positive numbers.
LEMMA Limits ==
  /\ R1Arm \in Nat /\ R1Arm > 0 /\ R3Arm \in Nat /\ R3Arm > R1Arm
  /\ R2Arm \in Nat /\ R2Arm > R3Arm /\ R4Arm \in Nat /\ R4Arm > R2Arm
  /\ R1Cool \in Nat /\ R1Cool > 0 /\ R2Min \in Nat /\ R2Min > 0
  /\ R3Min \in Nat /\ R3Min > 0 /\ R4Min \in Nat /\ R4Min > 0
  /\ Quiet \in Nat /\ Quiet > 0 /\ PostCycle \in Nat /\ PostCycle > 0
  /\ Recheck \in Nat /\ Recheck > 0 /\ StablePolls \in Nat /\ StablePolls > 0
  /\ FlapForce \in Nat /\ FlapForce > 0 /\ R3Max \in Nat /\ R3Max > 0
  /\ AbsentAfter \in Nat /\ AbsentAfter > 0
  /\ R1Dead \in Nat /\ R1Dead > 0 /\ R2Dead \in Nat /\ R2Dead > 0
  /\ R4Dead \in Nat /\ R4Dead > 0 /\ PassMax \in Nat /\ PassMax > 0
<1>1. {R1Arm, R3Arm, R2Arm, R4Arm, R1Cool, R2Min, R3Min, R4Min, Quiet, PostCycle,
       Recheck, StablePolls, FlapForce, R3Max, AbsentAfter,
       R1Dead, R2Dead, R4Dead, PassMax} \subseteq Nat \ {0}
  BY LadderAssumption DEF LadderAssumption
<1>2. \A n \in Nat \ {0} : n \in Nat /\ n > 0
  OBVIOUS
<1> QED
  BY <1>1, <1>2, LadderAssumption DEF LadderAssumption

\* A count that stops at its cap stays in its range.
LEMMA UpType ==
  ASSUME NEW cap \in Nat, NEW n \in 0..cap
  PROVE  Up(n, cap) \in 0..cap /\ Up(n, cap) <= n + 1
  BY DEF Up, Least

\* What a pass that reaches the rungs does to the episode: a storm moves its start,
\* else it opens, or it goes on.
LEMMA EpisodeSteps ==
  ASSUME PollReachesRungs
  PROVE  \/ /\ armed' = R1Arm
            /\ armed = Off => cycles' = 0 /\ tried' = {}
            /\ armed # Off => armed < R1Arm /\ UNCHANGED <<cycles, tried>>
         \/ armed = Off /\ armed' = 0 /\ cycles' = 0 /\ tried' = {}
         \/ armed # Off /\ UNCHANGED <<armed, cycles, tried>>
  BY DEF PollReachesRungs

\* ... and what it does to the right to a usb-cycle.
LEMMA EpisodeCycle ==
  ASSUME PollReachesRungs
  PROVE  \/ armed # Off /\ armed < R1Arm /\ armed' = R1Arm /\ cycleLeft' = (r2Last > R1Arm)
         \/ armed = Off /\ cycleLeft' \in {TRUE, r2Last > R1Arm}
         \/ armed # Off /\ UNCHANGED <<armed, cycleLeft>>
  BY DEF PollReachesRungs

\* ... and what it leaves alone.
LEMMA EpisodeFrame ==
  ASSUME PollReachesRungs
  PROVE  /\ Poll("r1") /\ stable' = 0 /\ row' = 0
         /\ UNCHANGED <<r1, r2Last, r2Cycled, r2Fails, r3, r4, flaps, frz, absent>>
  BY DEF PollReachesRungs

\* What a try of R1 does, whatever comes of it.
LEMMA R1Effect ==
  ASSUME R1Tries
  PROVE  /\ pc = "r1" /\ pc' \in {"wait", "r3"}
         /\ r1Last' = 0 /\ r1Done' = TRUE /\ tried' = tried \cup {"r1"}
         /\ connectable' \in {TRUE, FALSE, connectable}
         /\ rejects' \in {0, Up(rejects, R1Dead)}
         /\ UNCHANGED <<lag, armed, r2, r3, r4, flap, frz, absent>>
  BY Zenon DEF R1Tries, R1Succeeds, R1Rejected, R1Runs, Goto

\* What a poll that finds the link up does: audio closes the episode, or it counts as
\* a blip, or there is no audio and the row starts anew.
Blips ==
  /\ flaps' \in {flaps, Up(flaps, FlapForce)}
  /\ UNCHANGED <<armed, r1Done, r2Cycled, r3, absent>>

LEMMA LinkEffect ==
  ASSUME PollFindsLink
  PROVE  /\ lag = 0 /\ lag' = lag /\ pc = "wait" /\ pc' \in {"wait", "connect"}
         /\ stable' \in {0, Up(stable, StablePolls)} /\ row' \in {0, Up(row, 2)}
         /\ CloseEpisode \/ Blips
         /\ UNCHANGED <<r1Last, rejects, connectable, r2Last, cycleLeft, r2Fails, cycles,
                       r4, frz, tried>>
<1> USE DEF Poll, Goto, Blips, r1, r2
<1>1. CASE PollAudioCloses
  BY <1>1, Zenon DEF PollAudioCloses, PollAudio
<1>2. CASE PollAudioBlips
  <2>1. flaps' \in {flaps, Up(flaps, FlapForce)}
    BY <1>2 DEF PollAudioBlips
  <2> QED
    BY <1>2, <2>1, Zenon DEF PollAudioBlips, PollAudio
<1>3. CASE PollTransport
  BY <1>3, Zenon DEF PollTransport
<1> QED
  BY <1>1, <1>2, <1>3 DEF PollFindsLink, PollHears

-----------------------------------------------------------------------------
(* The type invariant.                                                     *)

\* The initial state is well typed.
LEMMA TypeInit == Init => TypeOK
<1> SUFFICES ASSUME Init PROVE TypeOK
  OBVIOUS
<1>1. FlagsOK
  BY DEF Init, FlagsOK
<1>2. AgesOK /\ CountsOK
  BY Limits DEF Init, AgesOK, CountsOK, Off
<1> QED
  BY <1>1, <1>2 DEF TypeOK

\* Every step keeps the flags.
LEMMA FlagsStep == FlagsOK /\ [Next]_vars => FlagsOK'
<1> SUFFICES ASSUME FlagsOK, [Next]_vars PROVE FlagsOK'
  OBVIOUS
<1> USE DEF FlagsOK, vars, r1, r2, r3, r4, flap, frz, Goto, Poll
<1>1. CASE WaitOut \/ PassLags \/ PollFindsNobody \/ PollEndsEarly \/ PollRepairs
  BY <1>1 DEF WaitOut, PassLags, PollFindsNobody, PollEndsEarly, PollRepairs
<1>2. CASE PollFindsLink
  <2>1. CASE CloseEpisode
    BY <1>2, <2>1, LinkEffect DEF CloseEpisode
  <2>2. CASE Blips
    BY <1>2, <2>2, LinkEffect DEF Blips
  <2> QED
    BY <1>2, <2>1, <2>2, LinkEffect
<1>3. CASE PollReachesRungs
  <2>1. (r2Last > R1Arm) \in BOOLEAN
    OBVIOUS
  <2>2. cycleLeft' \in BOOLEAN /\ tried' \subseteq {"r1", "r3", "verified", "r4"}
    BY <1>3, <2>1, EpisodeSteps, EpisodeCycle
  <2> QED
    BY <1>3, <2>2, EpisodeFrame
<1>4. CASE R1Muted \/ R1Skipped
  BY <1>4 DEF R1Muted, R1Skipped
<1>10. CASE R1Tries
  BY <1>10, R1Effect
<1>5. CASE R3Skipped \/ R3Tries
  BY <1>5 DEF R3Skipped, R3Tries, R3Succeeds, R3Fails, R3Runs, ReadFreeze, LookForFile
<1>6. CASE R2Skipped \/ R2Tries
  BY <1>6 DEF R2Skipped, R2Tries, R2Succeeds, R2FailsOnce, QueueRestart
<1>7. CASE R4Skipped \/ R4Tries
  BY <1>7 DEF R4Skipped, R4Tries, R4Succeeds, R4FailsOnce, QueueRestart
<1>8. CASE ConnectSaysNothing \/ ConnectHeardPeer \/ ConnectNotFound \/ ConnectInert
  BY <1>8 DEF ConnectSaysNothing, ConnectHeardPeer, ConnectNotFound, ConnectInert
<1>9. CASE UNCHANGED vars
  BY <1>9
<1> QED
  BY <1>1, <1>2, <1>3, <1>4, <1>5, <1>6, <1>7, <1>8, <1>9, <1>10 DEF Next

\* The wait between polls keeps the ages in their ranges.
LEMMA WaitOutAges == AgesOK /\ WaitOut => AgesOK'
<1> SUFFICES ASSUME AgesOK, WaitOut PROVE AgesOK'
  OBVIOUS
<1> USE Limits DEF AgesOK, WaitOut, Off, Up, Least
<1>1. lag' \in 0..PassMax /\ clear' \in 0..Recheck + PassMax
  BY DEF Elapse, Oldest
<1>2. armed' \in Off..R4Arm /\ force' \in Off..PostCycle + PassMax
  OBVIOUS
<1>3. /\ r1Last' \in 0..R1Cool /\ r2Last' \in 0..R2Min /\ r3Last' \in 0..R3Min
      /\ r3Done' \in -PassMax..Quiet /\ r4Last' \in 0..R4Min /\ checked' \in 0..Recheck
  OBVIOUS
<1> QED
  BY <1>1, <1>2, <1>3

\* Every step keeps the ages in their ranges.
LEMMA AgesStep == AgesOK /\ [Next]_vars => AgesOK'
<1> SUFFICES ASSUME AgesOK, [Next]_vars PROVE AgesOK'
  OBVIOUS
<1> USE Limits DEF AgesOK, Off, vars, r1, r2, r3, r4, flap, frz, Goto, Poll, Oldest
<1>1. CASE WaitOut
  BY <1>1, WaitOutAges
<1>2. CASE PassLags \/ PollFindsNobody \/ PollEndsEarly \/ PollRepairs
  BY <1>2 DEF PassLags, PollFindsNobody, PollEndsEarly, PollRepairs, Up, Least
<1>3. CASE PollFindsLink
  <2>1. CASE CloseEpisode
    BY <1>3, <2>1, LinkEffect DEF CloseEpisode
  <2>2. CASE Blips
    BY <1>3, <2>2, LinkEffect DEF Blips
  <2> QED
    BY <1>3, <2>1, <2>2, LinkEffect
<1>4. CASE R1Muted \/ R1Skipped
  BY <1>4 DEF R1Muted, R1Skipped
<1>5. CASE R3Skipped \/ R3Tries
  BY <1>5 DEF R3Skipped, R3Tries, R3Succeeds, R3Fails, R3Runs, ReadFreeze, LookForFile
<1>6. CASE R2Skipped \/ R2Tries
  BY <1>6 DEF R2Skipped, R2Tries, R2Succeeds, R2FailsOnce, QueueRestart
<1>7. CASE R4Skipped \/ R4Tries
  BY <1>7 DEF R4Skipped, R4Tries, R4Succeeds, R4FailsOnce, QueueRestart
<1>8. CASE ConnectSaysNothing \/ ConnectHeardPeer \/ ConnectNotFound \/ ConnectInert
  BY <1>8 DEF ConnectSaysNothing, ConnectHeardPeer, ConnectNotFound, ConnectInert
<1>9. CASE UNCHANGED vars
  BY <1>9
<1>10. CASE PollReachesRungs
  <2>1. armed' \in Off..R4Arm
    BY <1>10, EpisodeSteps
  <2> QED
    BY <1>10, <2>1, EpisodeFrame
<1>11. CASE R1Tries
  BY <1>11, R1Effect
<1> QED
  BY <1>1, <1>2, <1>3, <1>4, <1>5, <1>6, <1>7, <1>8, <1>9, <1>10, <1>11 DEF Next

\* Every step keeps the counters in their ranges.
LEMMA CountsStep == CountsOK /\ [Next]_vars => CountsOK'
<1> SUFFICES ASSUME CountsOK, [Next]_vars PROVE CountsOK'
  OBVIOUS
<1> USE Limits DEF CountsOK, vars, r1, r2, r3, r4, flap, frz, Goto, Up, Least
<1>1. CASE WaitOut \/ PassLags \/ PollFindsNobody \/ PollEndsEarly \/ PollRepairs
  BY <1>1 DEF WaitOut, PassLags, PollFindsNobody, PollEndsEarly, PollRepairs
<1>2. CASE PollFindsLink
  <2>1. CASE CloseEpisode
    BY <1>2, <2>1, LinkEffect DEF CloseEpisode
  <2>2. CASE Blips
    BY <1>2, <2>2, LinkEffect DEF Blips
  <2> QED
    BY <1>2, <2>1, <2>2, LinkEffect
<1>3. CASE R1Muted \/ R1Skipped
  BY <1>3 DEF R1Muted, R1Skipped
<1>4. CASE R3Skipped \/ R3Tries
  BY <1>4 DEF R3Skipped, R3Tries, R3Succeeds, R3Fails, R3Runs, ReadFreeze, LookForFile
<1>5. CASE R2Skipped \/ R2Tries
  BY <1>5 DEF R2Skipped, R2Tries, R2Succeeds, R2FailsOnce, QueueRestart
<1>6. CASE R4Skipped \/ R4Tries
  BY <1>6 DEF R4Skipped, R4Tries, R4Succeeds, R4FailsOnce, QueueRestart
<1>7. CASE ConnectSaysNothing \/ ConnectHeardPeer \/ ConnectNotFound \/ ConnectInert
  BY <1>7 DEF ConnectSaysNothing, ConnectHeardPeer, ConnectNotFound, ConnectInert
<1>8. CASE UNCHANGED vars
  BY <1>8
<1>9. CASE PollReachesRungs
  <2>1. cycles' \in 0..2
    BY <1>9, EpisodeSteps
  <2> QED
    BY <1>9, <2>1, EpisodeFrame
<1>10. CASE R1Tries
  BY <1>10, R1Effect
<1> QED
  BY <1>1, <1>2, <1>3, <1>4, <1>5, <1>6, <1>7, <1>8, <1>9, <1>10 DEF Next

\* TypeOK: every variable stays in its range, for any times and limits.
THEOREM TypeCorrect == Spec => []TypeOK
<1>1. TypeOK /\ [Next]_vars => TypeOK'
  BY FlagsStep, AgesStep, CountsStep DEF TypeOK
<1> QED
  BY <1>1, TypeInit, PTL DEF Spec

-----------------------------------------------------------------------------
(* One usb-cycle per episode.  A cycle of this episode is not older than   *)
(* the episode, so a storm, which moves the start back to R1Arm and never  *)
(* further, keeps the cycle inside.                                        *)

CycleInv ==
  /\ cycles <= 1
  /\ armed # Off /\ cycles # 0 => ~cycleLeft /\ (armed < R1Arm => r2Last <= armed)

\* Every step keeps CycleInv.
LEMMA CycleStep == TypeOK /\ CycleInv /\ [Next]_vars => CycleInv'
<1> SUFFICES ASSUME TypeOK, CycleInv, [Next]_vars PROVE CycleInv'
  OBVIOUS
<1> USE Limits DEF TypeOK, AgesOK, CountsOK, CycleInv, Off, Goto, Poll, vars, r1, r2, r3, r4
<1>1. CASE WaitOut
  BY <1>1 DEF WaitOut, Up, Least
<1>2. CASE PollReachesRungs
  <2>1. r2Last' = r2Last
    BY <1>2, EpisodeFrame
  <2>2. CASE armed = Off
    BY <1>2, <2>2, EpisodeSteps
  <2>3. CASE armed # Off /\ armed < R1Arm /\ armed' = R1Arm
    <3>1. cycles' = cycles
      BY <1>2, <2>3, EpisodeSteps
    <3>2. cycles # 0 => ~(r2Last > R1Arm)
      BY <2>3
    <3>3. cycleLeft' = (r2Last > R1Arm) \/ cycleLeft' = cycleLeft
      BY <1>2, <2>3, EpisodeCycle
    <3>4. cycles # 0 => ~cycleLeft
      BY <2>3
    <3>5. cycles # 0 => ~cycleLeft'
      BY <3>2, <3>3, <3>4, Zenon
    <3> QED
      BY <2>3, <3>1, <3>5
  <2>4. CASE armed # Off /\ UNCHANGED <<armed, cycleLeft>>
    BY <1>2, <2>1, <2>4, EpisodeSteps
  <2> QED
    BY <1>2, <2>2, <2>3, <2>4, EpisodeCycle
<1>3. CASE CloseEpisode /\ cycles' = cycles
  BY <1>3 DEF CloseEpisode
<1>4. CASE R2Tries
  BY <1>4 DEF R2Tries, R2Succeeds, R2FailsOnce, R2Due, Least
<1>5. CASE UNCHANGED <<armed, cycles, cycleLeft, r2Last>>
  BY <1>5
<1> DEFINE Frame == UNCHANGED <<armed, cycles, cycleLeft, r2Last>>
<1>6. PollFindsLink => (CloseEpisode /\ cycles' = cycles) \/ Frame
  BY LinkEffect DEF Blips
<1>7. PassLags \/ PollFindsNobody \/ PollEndsEarly \/ PollRepairs \/ UNCHANGED vars => Frame
  BY DEF PassLags, PollFindsNobody, PollEndsEarly, PollRepairs
<1>8. R1Muted \/ R1Skipped \/ R1Tries \/ R3Skipped \/ R3Tries => Frame
  BY R1Effect DEF R1Muted, R1Skipped, R3Skipped, R3Tries, R3Succeeds, R3Fails
<1>9. R2Skipped \/ R4Skipped \/ R4Tries => Frame
  BY DEF R2Skipped, R4Skipped, R4Tries, R4Succeeds, R4FailsOnce
<1>10. ConnectSaysNothing \/ ConnectHeardPeer \/ ConnectNotFound \/ ConnectInert => Frame
  BY DEF ConnectSaysNothing, ConnectHeardPeer, ConnectNotFound, ConnectInert
<1> QED
  BY <1>1, <1>2, <1>3, <1>4, <1>5, <1>6, <1>7, <1>8, <1>9, <1>10, Zenon DEF Next

\* OneCyclePerEpisode: whatever flaps move the start of the episode, it never sees
\* a second usb-cycle.
THEOREM CyclesAreSingle == Spec => []OneCyclePerEpisode
<1>1. Init => CycleInv
  BY DEF Init, CycleInv, Off
<1>2. CycleInv => OneCyclePerEpisode
  BY DEF CycleInv, OneCyclePerEpisode
<1> QED
  BY <1>1, <1>2, CycleStep, TypeCorrect, PTL DEF Spec

-----------------------------------------------------------------------------
(* The order of the rungs: what the per-episode flags say was done in this *)
(* episode, and none of them is up outside one.                            *)

OrderInv ==
  /\ pc \in {"r1", "r3", "r2", "r4"} => armed # Off
  /\ armed = Off => ~r1Done /\ ~r2Cycled
  /\ r1Done => "r1" \in tried \/ R1IsDead
  /\ r2Cycled => "verified" \in tried

\* Every step keeps OrderInv.
LEMMA OrderStep == TypeOK /\ OrderInv /\ [Next]_vars => OrderInv'
<1> SUFFICES ASSUME TypeOK, OrderInv, [Next]_vars PROVE OrderInv'
  OBVIOUS
<1> USE Limits DEF TypeOK, FlagsOK, AgesOK, CountsOK, OrderInv, R1IsDead, Off, Goto, Poll,
                   vars, r1, r2, r3, r4, flap, frz
<1>1. CASE WaitOut
  BY <1>1 DEF WaitOut, Up, Least
<1>2. CASE PassLags \/ PollFindsNobody \/ PollEndsEarly \/ PollRepairs
  BY <1>2 DEF PassLags, PollFindsNobody, PollEndsEarly, PollRepairs
<1>3. CASE PollFindsLink
  <2>1. CASE CloseEpisode
    BY <1>3, <2>1, LinkEffect DEF CloseEpisode
  <2>2. CASE Blips
    BY <1>3, <2>2, LinkEffect DEF Blips
  <2> QED
    BY <1>3, <2>1, <2>2, LinkEffect
<1>4. CASE R1Muted \/ R1Skipped
  BY <1>4 DEF R1Muted, R1Skipped
<1>5. CASE R1Tries
  BY <1>5, R1Effect
<1>6. CASE R3Skipped \/ R3Tries
  BY <1>6 DEF R3Skipped, R3Tries, R3Succeeds, R3Fails, R3Runs
<1>7. CASE R2Skipped \/ R2Tries
  BY <1>7 DEF R2Skipped, R2Tries, R2Succeeds, R2FailsOnce
<1>8. CASE R4Skipped \/ R4Tries
  BY <1>8 DEF R4Skipped, R4Tries, R4Succeeds, R4FailsOnce
<1>9. CASE ConnectSaysNothing \/ ConnectHeardPeer \/ ConnectNotFound \/ ConnectInert
  BY <1>9 DEF ConnectSaysNothing, ConnectHeardPeer, ConnectNotFound, ConnectInert
<1>10. CASE UNCHANGED vars
  BY <1>10
<1>11. CASE PollReachesRungs
  BY <1>11, EpisodeSteps, EpisodeFrame
<1> QED
  BY <1>1, <1>2, <1>3, <1>4, <1>5, <1>6, <1>7, <1>8, <1>9, <1>10, <1>11 DEF Next

\* RungOrder: no usb-cycle before its episode's R1 (unless muted), no port cycle
\* before its episode's verified usb-cycle.
THEOREM RungsKeepOrder == Spec => RungOrder
<1>1. Init => OrderInv
  BY DEF Init, OrderInv
<1>2. OrderInv => /\ R2Tries => "r1" \in tried \/ R1IsDead
                  /\ R4Tries => "verified" \in tried
  BY DEF OrderInv, R2Tries, R2Succeeds, R2FailsOnce, R2Due, R4Tries, R4Succeeds,
     R4FailsOnce, R4Due
<1> QED
  BY <1>1, <1>2, OrderStep, TypeCorrect, PTL DEF Spec, RungOrder

-----------------------------------------------------------------------------
(* The freeze: a verdict of "no file" that a pass still believes is as old *)
(* as the clock of the pass says, or older by what the pass has taken.     *)

FreezeInv ==
  /\ ~frozen /\ checked < Recheck => clear <= checked + lag
  /\ pc \in {"r2", "r4"} => checked < Recheck

\* Reading the freeze leaves a verdict that the clock of the pass calls fresh.
LEMMA ReadIsFresh ==
  ASSUME TypeOK, FreezeInv, ReadFreeze
  PROVE  /\ checked' < Recheck
         /\ ~frozen' => clear' <= checked' + lag /\ clear' < Recheck + lag
  BY Limits DEF TypeOK, AgesOK, FlagsOK, FreezeInv, ReadFreeze, LookForFile, frz

\* Every step keeps FreezeInv.
LEMMA FreezeStep == TypeOK /\ FreezeInv /\ [Next]_vars => FreezeInv'
<1> SUFFICES ASSUME TypeOK, FreezeInv, [Next]_vars PROVE FreezeInv'
  OBVIOUS
<1> DEFINE Frame == UNCHANGED <<lag, frz>> /\ (pc' \in {"r2", "r4"} => pc \in {"r2", "r4"})
<1>1. CASE WaitOut \/ PassLags
  BY <1>1, Limits DEF WaitOut, PassLags, Elapse, Oldest, TypeOK, AgesOK, FreezeInv, Up, Least
<1>2. CASE R3Skipped \/ R3Tries
  <2>1. ReadFreeze /\ UNCHANGED lag
    BY <1>2 DEF R3Skipped, R3Tries, R3Succeeds, R3Fails, R3Runs, Goto
  <2> QED
    BY <2>1, ReadIsFresh DEF FreezeInv
<1>3. CASE Frame
  BY <1>3 DEF FreezeInv, frz
<1>4. PollReachesRungs => Frame
  BY EpisodeFrame DEF Poll, Goto
<1>5. R1Tries => Frame
  BY R1Effect
<1>6. PollFindsLink => Frame
  BY LinkEffect
<1>7. WaitOut \/ PassLags \/ R3Skipped \/ R3Tries \/ Frame
  BY <1>4, <1>5, <1>6
  DEF Next, Goto, Poll, vars, PollFindsNobody, PollEndsEarly, PollRepairs, R1Muted,
      R1Skipped, R2Skipped, R2Tries, R2Succeeds, R2FailsOnce, R4Skipped, R4Tries,
      R4Succeeds, R4FailsOnce, ConnectSaysNothing, ConnectHeardPeer, ConnectNotFound,
      ConnectInert
<1> QED
  BY <1>1, <1>2, <1>3, <1>7

\* FreezeHolds: no PnP rung runs on a verdict about btf_freeze.txt that was older
\* than the recheck time when its pass began, for any recheck time and any length of
\* a pass.
THEOREM FreezeIsHonoured == Spec => FreezeHolds
<1>1. Init => FreezeInv
  BY Limits DEF Init, FreezeInv
<1>2. TypeOK /\ FreezeInv => /\ R3Tries => clear' < Recheck + lag
                             /\ R2Tries \/ R4Tries => clear < Recheck + lag
  <2> SUFFICES ASSUME TypeOK, FreezeInv
               PROVE  /\ R3Tries => clear' < Recheck + lag
                      /\ R2Tries \/ R4Tries => clear < Recheck + lag
    OBVIOUS
  <2>1. ASSUME R3Tries PROVE clear' < Recheck + lag
    <3>1. ReadFreeze /\ ~frozen'
      BY <2>1 DEF R3Tries, R3Succeeds, R3Fails, R3Runs
    <3> QED
      BY <3>1, ReadIsFresh
  <2>2. ASSUME R2Tries \/ R4Tries PROVE clear < Recheck + lag
    <3>1. ~frozen /\ pc \in {"r2", "r4"}
      BY <2>2 DEF R2Tries, R2Succeeds, R2FailsOnce, R2Due, R4Tries, R4Succeeds,
         R4FailsOnce, R4Due, Goto
    <3> QED
      BY <3>1, Limits DEF FreezeInv, TypeOK, AgesOK
  <2> QED
    BY <2>1, <2>2
<1> QED
  BY <1>1, <1>2, FreezeStep, TypeCorrect, PTL DEF Spec, FreezeHolds
=============================================================================
