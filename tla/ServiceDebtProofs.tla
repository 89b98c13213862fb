------------------------- MODULE ServiceDebtProofs -------------------------
(***************************************************************************)
(* Proofs about ServiceDebt for any number of profiles and attempts, under *)
(* the assumption that a marker on disk can be read.                       *)
(***************************************************************************)
EXTENDS ServiceDebt, TLAPS

USE ServiceDebtAssumption

\* Every action, split the way the proofs below go through them.
LEMMA NextCases ==
  ASSUME [Next]_vars,
         NEW Goal,
         PollRepays => Goal, PollOwesNothing => Goal, RungsReturn => Goal,
         RungsConnect => Goal, EnableInstalls => Goal, EnableRefused => Goal,
         EnableRefusedToggles => Goal, EnableFails => Goal,
         ArmMarker => Goal, ArmMarkerFails => Goal, DisableRemoves => Goal,
         DisableRefused => Goal, DisableFails => Goal, ReenableSucceeds => Goal,
         ReenableFails => Goal, ReenableGivesUp => Goal, ClearMarker => Goal,
         CrashRestart => Goal, ReachChanges => Goal,
         (\E p \in Profile : UserSetsService(p)) => Goal,
         UNCHANGED vars => Goal
  PROVE  Goal
  BY DEF Next, Poll, DriveConnect, Toggle, World

\* Every variable keeps its type.
THEOREM TypeCorrect == Spec => []TypeOK
<1>1. Init => TypeOK
  <2> SUFFICES ASSUME Init PROVE TypeOK
    OBVIOUS
  <2> USE DEF Init
  <2>1. cur \in Profile /\ attempt \in 0..MaxAttempts
    BY DEF Profile
  <2>2. marker \in Profile \cup {NoProfile} /\ pc \in PC /\ outcome \in Outcome
    BY DEF PC, Outcome
  <2>3. repaying \in BOOLEAN /\ allow \in BOOLEAN
    BY Zenon
  <2>4. seen \in SUBSET Flag /\ owed \in SUBSET Profile
    OBVIOUS
  <2>5. QED
    BY <2>1, <2>2, <2>3, <2>4, Zenon DEF TypeOK
<1>2. TypeOK /\ [Next]_vars => TypeOK'
  <2> SUFFICES ASSUME TypeOK, [Next]_vars PROVE TypeOK'
    OBVIOUS
  <2> USE DEF TypeOK, Profile, NoProfile, PC, Outcome, Flag, Reach, Finish
  <2>1. PollRepays => TypeOK'  BY DEF PollRepays
  <2>2. PollOwesNothing => TypeOK'  BY DEF PollOwesNothing
  <2>3. RungsReturn => TypeOK'  BY DEF RungsReturn
  <2>4. RungsConnect => TypeOK'  BY DEF RungsConnect
  <2>5. EnableInstalls => TypeOK'  BY DEF EnableInstalls
  <2>6. ASSUME NEW flag \in Flag, NextProfile(flag) PROVE TypeOK'
    BY <2>6 DEF NextProfile, Verdict
  <2>7. EnableRefused => TypeOK'  BY <2>6 DEF EnableRefused
  <2>8. EnableRefusedToggles => TypeOK'  BY DEF EnableRefusedToggles
  <2>9. EnableFails => TypeOK'  BY <2>6 DEF EnableFails
  <2>10. ArmMarker => TypeOK'  BY DEF ArmMarker
  <2>11. ArmMarkerFails => TypeOK'  BY DEF ArmMarkerFails
  <2>12. ASSUME DisableRemoves PROVE TypeOK'
    <3> USE <2>12 DEF DisableRemoves
    <3>1. driver' \in [Profile -> BOOLEAN]
      OBVIOUS
    <3>2. /\ pc' \in PC /\ cur' \in Profile /\ attempt' \in 0..MaxAttempts
          /\ marker' \in Profile \cup {NoProfile} /\ outcome' \in Outcome
          /\ owed' \in SUBSET Profile /\ reach' \in Reach
          /\ seen' \in SUBSET Flag
      OBVIOUS
    <3>3. repaying' \in BOOLEAN /\ inert' \in BOOLEAN /\ allow' \in BOOLEAN
      BY Zenon
    <3>4. QED
      BY <3>1, <3>2, <3>3, Zenon DEF TypeOK
  <2>13. DisableRefused => TypeOK'  BY DEF DisableRefused
  <2>14. DisableFails => TypeOK'  BY DEF DisableFails
  <2>15. ReenableSucceeds => TypeOK'  BY DEF ReenableSucceeds
  <2>16. ReenableFails => TypeOK'  BY DEF ReenableFails
  <2>17. ReenableGivesUp => TypeOK'  BY DEF ReenableGivesUp
  <2>18. ClearMarker => TypeOK'  BY DEF ClearMarker
  <2>19. ASSUME CrashRestart PROVE TypeOK'
    <3> USE <2>19 DEF CrashRestart
    <3>1. /\ pc' \in PC /\ cur' \in Profile /\ attempt' \in 0..MaxAttempts
          /\ marker' \in Profile \cup {NoProfile} /\ outcome' \in Outcome
          /\ driver' \in [Profile -> BOOLEAN]
          /\ owed' \in SUBSET Profile /\ reach' \in Reach
          /\ seen' \in SUBSET Flag
      OBVIOUS
    <3>2. repaying' \in BOOLEAN /\ inert' \in BOOLEAN /\ allow' \in BOOLEAN
      BY Zenon
    <3>3. QED
      BY <3>1, <3>2, Zenon DEF TypeOK
  <2>20. ReachChanges => TypeOK'  BY DEF ReachChanges, worker
  <2>21. (\E p \in Profile : UserSetsService(p)) => TypeOK'
    BY DEF UserSetsService, worker
  <2>22. UNCHANGED vars => TypeOK'  BY DEF vars, worker
  <2>23. QED
    BY <2>1, <2>2, <2>3, <2>4, <2>5, <2>7, <2>8, <2>9, <2>10, <2>11, <2>12,
       <2>13, <2>14, <2>15, <2>16, <2>17, <2>18, <2>19, <2>20, <2>21, <2>22,
       NextCases
<1>3. QED
  BY <1>1, <1>2, PTL DEF Spec

-----------------------------------------------------------------------------
(* The inductive invariant.  MarkerCoversDebt alone is not inductive: that a *)
(* new marker or its removal forgets nobody depends on where the pass is.    *)

\* A first run owes nothing.
LEMMA IInvInit == Init => IInv
  BY DEF Init, IInv, MarkerCoversDebt, DebtOutranksLadder, ReenableServesMarker

\* Every step keeps the invariant.
LEMMA IInvStep ==
  ASSUME ~MarkerReadFails, TypeOK, IInv, [Next]_vars
  PROVE  IInv'
<1> USE DEF TypeOK, IInv, MarkerCoversDebt, DebtOutranksLadder,
            ReenableServesMarker, Finish
<1>1. PollRepays => IInv'  BY DEF PollRepays
<1>2. PollOwesNothing => IInv'  BY DEF PollOwesNothing, Profile, NoProfile
<1>3. RungsReturn => IInv'  BY DEF RungsReturn
<1>4. RungsConnect => IInv'  BY DEF RungsConnect
<1>5. EnableInstalls => IInv'  BY DEF EnableInstalls
<1>6. ASSUME NEW flag \in Flag, pc = "enable", NextProfile(flag) PROVE IInv'
  BY <1>6 DEF NextProfile, Verdict
<1>7. EnableRefused => IInv'  BY <1>6 DEF EnableRefused, Flag
<1>8. EnableRefusedToggles => IInv'  BY DEF EnableRefusedToggles
<1>9. EnableFails => IInv'  BY <1>6 DEF EnableFails, Flag
<1>10. ArmMarker => IInv'  BY DEF ArmMarker
<1>11. ArmMarkerFails => IInv'  BY DEF ArmMarkerFails
<1>12. DisableRemoves => IInv'  BY DEF DisableRemoves
<1>13. DisableRefused => IInv'  BY DEF DisableRefused
<1>14. DisableFails => IInv'  BY DEF DisableFails
<1>15. ReenableSucceeds => IInv'  BY DEF ReenableSucceeds
<1>16. ReenableFails => IInv'  BY DEF ReenableFails
<1>17. ReenableGivesUp => IInv'  BY DEF ReenableGivesUp
<1>18. ClearMarker => IInv'  BY DEF ClearMarker
<1>19. CrashRestart => IInv'  BY DEF CrashRestart
<1>20. ReachChanges => IInv'  BY DEF ReachChanges, worker
<1>21. (\E p \in Profile : UserSetsService(p)) => IInv'
  BY DEF UserSetsService, worker
<1>22. UNCHANGED vars => IInv'  BY DEF vars, worker
<1>23. QED
  BY <1>1, <1>2, <1>3, <1>4, <1>5, <1>7, <1>8, <1>9, <1>10, <1>11, <1>12,
     <1>13, <1>14, <1>15, <1>16, <1>17, <1>18, <1>19, <1>20, <1>21, <1>22,
     NextCases

\* With a readable marker the inductive invariant holds in every behaviour.
THEOREM InductiveInvariant ==
  ASSUME ~MarkerReadFails
  PROVE  Spec => []IInv
<1>1. Init => IInv
  BY IInvInit
<1>2. TypeOK /\ IInv /\ [Next]_vars => IInv'
  BY IInvStep
<1>3. QED
  BY <1>1, <1>2, TypeCorrect, PTL DEF Spec

\* A crash at any step finds every driver we removed named on disk.
THEOREM MarkerAlwaysCoversDebt ==
  ASSUME ~MarkerReadFails
  PROVE  Spec => []MarkerCoversDebt
<1>1. IInv => MarkerCoversDebt
  BY DEF IInv
<1>2. QED
  BY <1>1, InductiveInvariant, PTL

\* No rung, enable or toggle runs while a driver is owed.
THEOREM RepaymentOutranksLadder ==
  ASSUME ~MarkerReadFails
  PROVE  Spec => []DebtOutranksLadder
<1>1. IInv => DebtOutranksLadder
  BY DEF IInv
<1>2. QED
  BY <1>1, InductiveInvariant, PTL

-----------------------------------------------------------------------------
(* Honest verdicts.                                                          *)

Untouched == {"Refused", "NotFound", "Inert", "Connected"}

\* An older verdict of that kind stands beside a debt only while the toggle that
\* has made the debt is still at it.
VerdictInv == owed # {} /\ outcome \in Untouched => pc = "reenable" /\ ~repaying

\* Every step keeps VerdictInv.
LEMMA VerdictStep ==
  ASSUME ~MarkerReadFails, TypeOK, IInv, VerdictInv, [Next]_vars
  PROVE  VerdictInv'
<1> USE DEF IInv, MarkerCoversDebt, DebtOutranksLadder, ReenableServesMarker,
            VerdictInv, Untouched, Finish
<1>1. PollRepays => VerdictInv'  BY DEF PollRepays
<1>2. PollOwesNothing => VerdictInv'  BY DEF PollOwesNothing
<1>3. RungsReturn \/ RungsConnect => VerdictInv'  BY DEF RungsReturn, RungsConnect
<1>4. EnableInstalls => VerdictInv'  BY DEF EnableInstalls
<1>5. EnableRefused \/ EnableRefusedToggles \/ EnableFails => VerdictInv'
  BY DEF EnableRefused, EnableRefusedToggles, EnableFails, NextProfile
<1>6. ArmMarker \/ ArmMarkerFails => VerdictInv'  BY DEF ArmMarker, ArmMarkerFails
<1>7. DisableRemoves => VerdictInv'  BY DEF DisableRemoves
<1>8. DisableRefused \/ DisableFails => VerdictInv'  BY DEF DisableRefused, DisableFails
<1>9. ReenableSucceeds => VerdictInv'  BY DEF ReenableSucceeds
<1>10. ReenableFails => VerdictInv'  BY DEF ReenableFails
<1>11. ReenableGivesUp => VerdictInv'  BY DEF ReenableGivesUp
<1>12. ClearMarker => VerdictInv'  BY DEF ClearMarker
<1>13. CrashRestart => VerdictInv'  BY DEF CrashRestart
<1>14. ReachChanges => VerdictInv'  BY DEF ReachChanges, worker
<1>15. (\E p \in Profile : UserSetsService(p)) => VerdictInv'
  BY DEF UserSetsService, worker
<1>16. UNCHANGED vars => VerdictInv'  BY DEF vars, worker
<1>17. QED
  BY <1>1, <1>2, <1>3, <1>4, <1>5, <1>6, <1>7, <1>8, <1>9, <1>10, <1>11, <1>12,
     <1>13, <1>14, <1>15, <1>16, NextCases

\* UntouchedVerdictOwesNothing: a verdict that promises "nothing was touched" is
\* never the last word of a pass that leaves a driver owed.
THEOREM VerdictsAreHonest ==
  ASSUME ~MarkerReadFails
  PROVE  Spec => []UntouchedVerdictOwesNothing
<1>1. Init => VerdictInv
  BY DEF Init, VerdictInv
<1>2. TypeOK /\ IInv /\ VerdictInv /\ [Next]_vars => VerdictInv'
  BY VerdictStep
<1>3. VerdictInv => UntouchedVerdictOwesNothing
  BY DEF VerdictInv, Untouched, UntouchedVerdictOwesNothing
<1>4. QED
  BY <1>1, <1>2, <1>3, TypeCorrect, InductiveInvariant, PTL DEF Spec

-----------------------------------------------------------------------------
(* ServiceDebt implements UndoJournal.                                       *)

\* The initial states map to initial states of the abstract journal.
LEMMA RefinesInit == Init => Journal!Init
  BY DEF Init, Journal!Init, Profile, NoProfile

\* A step that leaves the owed drivers alone and keeps the marker over them is
\* a (possibly stuttering) rewrite of the promise.
LEMMA RemarkStep ==
  ASSUME TypeOK, TypeOK', MarkerCoversDebt', owed' = owed
  PROVE  Journal!Remark
<1>1. owed \subseteq {marker'} \ {NoProfile}
  BY DEF MarkerCoversDebt, TypeOK, Profile, NoProfile
<1>2. {marker'} \ {NoProfile} \in SUBSET Profile
  BY DEF TypeOK
<1>3. QED
  BY <1>1, <1>2 DEF Journal!Remark

\* Every step of ServiceDebt is a step of the abstract journal or a stutter.
LEMMA RefinesStep ==
  ASSUME TypeOK, TypeOK', IInv, IInv', [Next]_vars
  PROVE  [Journal!Next]_(Journal!vars)
<1>1. owed' = owed => Journal!Next
  BY RemarkStep DEF Journal!Next, IInv
<1>2. ASSUME NEW p \in Profile, owed' = owed \ {p}, marker' = marker
      PROVE  Journal!Next
  BY <1>2 DEF Journal!Next, Journal!Undo
<1>3. ASSUME DisableRemoves PROVE Journal!Next
  <2>1. cur \in {marker} \ {NoProfile} /\ cur \in Profile
    BY <1>3 DEF DisableRemoves, IInv, TypeOK, Profile, NoProfile
  <2>2. owed' = owed \cup {cur} /\ marker' = marker
    BY <1>3 DEF DisableRemoves
  <2>3. QED
    BY <2>1, <2>2 DEF Journal!Next, Journal!Damage
<1>4. EnableInstalls => Journal!Next
  BY <1>2 DEF EnableInstalls, TypeOK
<1>5. ReenableSucceeds => Journal!Next
  BY <1>2 DEF ReenableSucceeds, TypeOK
<1>6. (\E p \in Profile : UserSetsService(p)) => Journal!Next
  BY <1>2 DEF UserSetsService
<1>7. \/ owed' = owed
      \/ DisableRemoves \/ EnableInstalls \/ ReenableSucceeds
      \/ \E p \in Profile : UserSetsService(p)
  BY DEF Next, Poll, DriveConnect, Toggle, World, vars, PollRepays,
     PollOwesNothing, RungsReturn, RungsConnect, EnableRefused, EnableFails,
     EnableRefusedToggles, NextProfile, ArmMarker, ArmMarkerFails,
     DisableRefused, DisableFails, ReenableFails, ReenableGivesUp, ClearMarker,
     CrashRestart, ReachChanges
<1>8. QED
  BY <1>1, <1>3, <1>4, <1>5, <1>6, <1>7

\* The driver toggle follows the write-ahead discipline of UndoJournal.
THEOREM Refinement ==
  ASSUME ~MarkerReadFails
  PROVE  Spec => ImplementsUndoJournal
<1>1. TypeOK /\ TypeOK' /\ IInv /\ IInv' /\ [Next]_vars
        => [Journal!Next]_(Journal!vars)
  BY RefinesStep
<1>2. QED
  BY <1>1, RefinesInit, TypeCorrect, InductiveInvariant, PTL
  DEF Spec, ImplementsUndoJournal, Journal!Spec
-----------------------------------------------------------------------------
(* A pass runs out.                                                          *)

\* A step to an earlier stage runs out whatever calls it brings.
LEMMA LowerStage ==
  ASSUME TypeOK', StagesLeft' < StagesLeft
  PROVE  RunsOut
<1>1. cur' \in Nat /\ cur' <= NProfiles /\ attempt' \in Nat /\ attempt' <= MaxAttempts
  BY DEF TypeOK, Profile
<1>2. CallsLeft' \in Nat
  BY <1>1 DEF CallsLeft
<1>3. QED
  BY <1>2 DEF RunsOut

\* One more profile is asked, or the last one ends the pass.
LEMMA NextProfileRunsOut ==
  ASSUME TypeOK, TypeOK', pc = "enable", NEW flag, NextProfile(flag)
  PROVE  RunsOut
<1>1. CASE cur = NProfiles
  <2>1. pc' = "idle"
    BY <1>1 DEF NextProfile, Finish
  <2>2. StagesLeft' < StagesLeft
    BY <2>1 DEF StagesLeft
  <2>3. QED
    BY <2>2, LowerStage
<1>2. CASE cur # NProfiles
  <2>1. cur' = cur + 1 /\ pc' = pc
    BY <1>2 DEF NextProfile
  <2>2. StagesLeft' = StagesLeft
    BY <2>1 DEF StagesLeft
  <2>3. CallsLeft' \in Nat /\ CallsLeft' < CallsLeft
    BY <1>2, <2>1 DEF CallsLeft, TypeOK, Profile
  <2>4. QED
    BY <2>2, <2>3 DEF RunsOut
<1>3. QED
  BY <1>1, <1>2

\* Every step of a pass that has begun runs out, and nobody else touches it
\* but a crash, which ends it.
LEMMA StepRunsOut ==
  ASSUME TypeOK, TypeOK', [Next]_vars, pc # "idle"
  PROVE  RunsOut \/ UNCHANGED worker
<1> DEFINE G == RunsOut \/ UNCHANGED worker
<1> USE DEF StagesLeft, Finish
<1>1. PollRepays => G  BY DEF PollRepays
<1>2. PollOwesNothing => G  BY DEF PollOwesNothing
<1>3. RungsReturn => G  BY LowerStage DEF RungsReturn
<1>4. RungsConnect => G  BY LowerStage DEF RungsConnect
<1>5. EnableInstalls => G  BY LowerStage DEF EnableInstalls
<1>6. EnableRefused => G  BY NextProfileRunsOut DEF EnableRefused
<1>7. EnableRefusedToggles => G  BY LowerStage DEF EnableRefusedToggles
<1>8. EnableFails => G  BY NextProfileRunsOut DEF EnableFails
<1>9. ArmMarker => G  BY LowerStage DEF ArmMarker
<1>10. ArmMarkerFails => G  BY LowerStage DEF ArmMarkerFails
<1>11. DisableRemoves => G  BY LowerStage DEF DisableRemoves
<1>12. DisableRefused => G  BY LowerStage DEF DisableRefused
<1>13. DisableFails => G  BY LowerStage DEF DisableFails
<1>14. ReenableSucceeds => G  BY LowerStage DEF ReenableSucceeds
<1>15. ASSUME ReenableFails PROVE G
  <2>1. /\ pc = "reenable" /\ pc' = pc /\ repaying' = repaying
        /\ attempt < MaxAttempts /\ attempt' = attempt + 1
    BY <1>15 DEF ReenableFails
  <2>2. CallsLeft' \in Nat /\ CallsLeft' < CallsLeft
    BY <2>1 DEF CallsLeft, TypeOK
  <2>3. StagesLeft' = StagesLeft
    BY <2>1
  <2>4. QED
    BY <2>2, <2>3 DEF RunsOut
<1>16. ReenableGivesUp => G  BY LowerStage DEF ReenableGivesUp
<1>17. ClearMarker => G  BY LowerStage DEF ClearMarker
<1>18. CrashRestart => G  BY LowerStage DEF CrashRestart, TypeOK, PC
<1>19. ReachChanges => G  BY DEF ReachChanges
<1>20. (\E p \in Profile : UserSetsService(p)) => G  BY DEF UserSetsService
<1>21. UNCHANGED vars => G  BY DEF vars
<1>22. QED
  <2> HIDE DEF G
  <2>1. G
    BY <1>1, <1>2, <1>3, <1>4, <1>5, <1>6, <1>7, <1>8, <1>9, <1>10, <1>11,
       <1>12, <1>13, <1>14, <1>15, <1>16, <1>17, <1>18, <1>19, <1>20, <1>21,
       NextCases, Zenon
  <2>2. QED
    BY <2>1 DEF G

\* However many profiles and attempts there are, no pass goes on for ever.
THEOREM PassAlwaysRunsOut == Spec => PassRunsOut
<1>1. TypeOK /\ TypeOK' /\ [Next]_vars
        => [pc # "idle" => RunsOut \/ UNCHANGED worker]_vars
  BY StepRunsOut
<1>2. QED
  BY <1>1, TypeCorrect, PTL DEF Spec, PassRunsOut
=============================================================================
