------------------------- MODULE RadioJournalProofs -------------------------
(***************************************************************************)
(* Proofs about RadioJournal: type correctness for every instance; the     *)
(* journal's promises for one process, any ports and any removal, under a  *)
(* careful user; and from them the promises without that condition on the  *)
(* user, for one port and a dongle not pulled from under a repair.         *)
(***************************************************************************)
EXTENDS RadioJournal, TLAPS

USE RadioJournalAssumption

\* Every action, split the way the proofs below go through them.
LEMMA NextCases ==
  ASSUME [Next]_vars,
         NEW Goal,
         StartupRepair => Goal, StartupClean => Goal, Poll => Goal,
         RungZero => Goal, RungZeroBlind => Goal, RungZeroNotDue => Goal,
         Blocked => Goal, PassEnds => Goal, EnterLadder => Goal,
         StartUsbCycle => Goal, SkipUsbCycle => Goal, StartHubCycle => Goal,
         SkipHubCycle => Goal, Connect => Goal, UsbCycleReturns => Goal,
         HubCycleReturns => Goal, StartupReturns => Goal, RepairReturns => Goal,
         DaemonRestarts => Goal, EpisodeCloses => Goal, UserDeletesUsbOff => Goal,
         \A p \in Port : Unplug(p) => Goal,
         \A p \in Port : Plug(p) => Goal,
         \A p \in Port : UserDisables(p) => Goal,
         \A p \in Port : UserEnables(p) => Goal,
         \A x \in Tool : ToolStarts(x) => Goal,
         \A x \in Tool : ToolExits(x) => Goal,
         \A x \in Tool : ToolKilled(x) => Goal,
         \A x \in Proc : Core(x) => Goal,
         UNCHANGED vars => Goal
  PROVE  Goal
  BY Zenon DEF Next, Pass, UsbCycleGate, PassElsewhere, World

\* The same for one step of a core.
LEMMA CoreCases ==
  ASSUME NEW x \in Proc, Core(x),
         NEW Goal,
         Arm(x) => Goal, ArmFails(x) => Goal, Disarm(x) => Goal,
         DisarmFails(x) => Goal, RestartVerified(x) => Goal,
         RestartNoOp(x) => Goal, RestartReboot(x) => Goal,
         RestartFails(x) => Goal, DisableAccepted(x) => Goal,
         DisableRejected(x) => Goal, DisableObserved(x) => Goal,
         DisableRetried(x) => Goal, DisableNotObserved(x) => Goal,
         EnableStarts(x) => Goal, EnableFails(x) => Goal,
         EnableGivesUp(x) => Goal, WalkFindsNothing(x) => Goal,
         WalkCycles(x) => Goal, Reenumerated(x) => Goal,
         NotReenumerated(x) => Goal,
         RepairDone(x) => Goal, RepairIncomplete(x) => Goal,
         \A p \in Port : RepairSkips(x, p) => Goal,
         \A p \in Port : RepairStarts(x, p) => Goal,
         \A p \in Port : RepairRefused(x, p) => Goal
  PROVE  Goal
  BY Zenon DEF Core, Cycle, HubCycle, Repair, RepairNode

-----------------------------------------------------------------------------
(* Type correctness.                                                         *)

\* The types of the boolean variables and the other ones, apart: the two halves
\* need different provers.
BoolsOK ==
  /\ journal \in BOOLEAN /\ usbOff \in BOOLEAN
  /\ ok \in [Proc -> BOOLEAN] /\ owns \in [Proc -> BOOLEAN]
  /\ bad \in [Proc -> BOOLEAN]
  /\ elevated \in BOOLEAN /\ r2Used \in BOOLEAN /\ cycled \in BOOLEAN

ValuesOK ==
  /\ node \in [Port -> {"started", "stopped", "disabled"}]
  /\ plugged \in SUBSET Port /\ ours \in SUBSET Port
  /\ pc \in [Proc -> PC] /\ job \in [Proc -> Job]
  /\ port \in [Proc -> Port \cup {NoPort}]
  /\ tries \in [Proc -> 0..MaxEnable]
  /\ scan \in [Proc -> SUBSET Port]
  /\ armedSeen \in {"unread", "armed", "clear"}

\* The two halves are the type invariant.
LEMMA TypeSplit == TypeOK <=> BoolsOK /\ ValuesOK
  BY Zenon DEF TypeOK, BoolsOK, ValuesOK

\* A restart leaves a devnode in one of its states.
LEMMA AfterRestartTyped ==
  ASSUME ValuesOK, NEW p, \E s \in AfterRestart(p) : node' = [node EXCEPT ![p] = s]
  PROVE  node' \in [Port -> {"started", "stopped", "disabled"}]
<1>1. PICK s \in AfterRestart(p) : node' = [node EXCEPT ![p] = s]
  OBVIOUS
<1>2. node \in [Port -> {"started", "stopped", "disabled"}]
  BY DEF ValuesOK
<1>3. p \in Port => s \in {"started", "stopped", "disabled"}
  BY <1>2 DEF AfterRestart
<1>4. QED
  BY <1>1, <1>2, <1>3

\* A step of a core keeps the types of the non-boolean variables.
LEMMA CoreValues ==
  ASSUME ValuesOK, NEW x \in Proc, Core(x)
  PROVE  ValuesOK'
<1> USE DEF ValuesOK, PC, Job, hardware, files, frame, episode, Goto, Step,
            Conclude, CycleFrame
<1>1. Arm(x) => ValuesOK'  BY DEF Arm
<1>2. ArmFails(x) => ValuesOK'  BY DEF ArmFails
<1>3. Disarm(x) => ValuesOK'  BY DEF Disarm
<1>4. DisarmFails(x) => ValuesOK'  BY DEF DisarmFails
<1>5. RestartVerified(x) => ValuesOK'  BY DEF RestartVerified
<1>6. RestartNoOp(x) => ValuesOK'  BY DEF RestartNoOp
<1>7. ASSUME RestartReboot(x) PROVE ValuesOK'
  <2>1. node' \in [Port -> {"started", "stopped", "disabled"}]
    BY <1>7, AfterRestartTyped, Zenon DEF RestartReboot
  <2>2. QED
    BY <1>7, <2>1 DEF RestartReboot
<1>8. ASSUME RestartFails(x) PROVE ValuesOK'
  <2>1. node' \in [Port -> {"started", "stopped", "disabled"}]
    BY <1>8, AfterRestartTyped, Zenon DEF RestartFails
  <2>2. QED
    BY <1>8, <2>1 DEF RestartFails
<1>9. DisableAccepted(x) => ValuesOK'  BY DEF DisableAccepted, SetDisabled
<1>10. DisableRejected(x) => ValuesOK'  BY DEF DisableRejected, AbortDisable
<1>11. DisableObserved(x) => ValuesOK'  BY DEF DisableObserved
<1>12. DisableRetried(x) => ValuesOK'  BY DEF DisableRetried, SetDisabled
<1>13. DisableNotObserved(x) => ValuesOK'  BY DEF DisableNotObserved, AbortDisable
<1>14. EnableStarts(x) => ValuesOK'  BY DEF EnableStarts
<1>15. EnableFails(x) => ValuesOK'  BY DEF EnableFails
<1>16. EnableGivesUp(x) => ValuesOK'  BY DEF EnableGivesUp
<1>17. WalkFindsNothing(x) => ValuesOK'  BY DEF WalkFindsNothing
<1>18. ASSUME WalkCycles(x) PROVE ValuesOK'
  <2>1. node' \in [Port -> {"started", "stopped", "disabled"}]
    BY <1>18, AfterRestartTyped, Zenon DEF WalkCycles
  <2>2. QED
    BY <1>18, <2>1 DEF WalkCycles
<1>19. Reenumerated(x) => ValuesOK'  BY DEF Reenumerated
<1>20. NotReenumerated(x) => ValuesOK'  BY DEF NotReenumerated
<1>21. RepairDone(x) => ValuesOK'  BY DEF RepairDone
<1>22. RepairIncomplete(x) => ValuesOK'  BY DEF RepairIncomplete
<1>23. ASSUME NEW p \in Port PROVE RepairSkips(x, p) => ValuesOK'
  BY DEF RepairSkips
<1>24. ASSUME NEW p \in Port PROVE RepairStarts(x, p) => ValuesOK'
  BY DEF RepairStarts
<1>25. ASSUME NEW p \in Port PROVE RepairRefused(x, p) => ValuesOK'
  BY DEF RepairRefused
<1>26. QED
  BY <1>1, <1>2, <1>3, <1>4, <1>5, <1>6, <1>7, <1>8, <1>9, <1>10, <1>11,
     <1>12, <1>13, <1>14, <1>15, <1>16, <1>17, <1>18, <1>19, <1>20, <1>21,
     <1>22, <1>23, <1>24, <1>25, CoreCases, Zenon

\* A step of a core keeps the boolean variables boolean.
LEMMA CoreBools ==
  ASSUME BoolsOK, NEW x \in Proc, Core(x)
  PROVE  BoolsOK'
<1> USE DEF BoolsOK, hardware, files, frame, episode, Goto, Step,
            Conclude, CycleFrame
<1>1. Arm(x) => BoolsOK'  BY DEF Arm
<1>2. ArmFails(x) => BoolsOK'  BY DEF ArmFails
<1>3. Disarm(x) => BoolsOK'  BY DEF Disarm
<1>4. DisarmFails(x) => BoolsOK'  BY DEF DisarmFails
<1>5. RestartVerified(x) => BoolsOK'  BY DEF RestartVerified
<1>6. RestartNoOp(x) => BoolsOK'  BY DEF RestartNoOp
<1>7. RestartReboot(x) => BoolsOK'  BY DEF RestartReboot
<1>8. RestartFails(x) => BoolsOK'  BY DEF RestartFails
<1>9. DisableAccepted(x) => BoolsOK'  BY DEF DisableAccepted
<1>10. DisableRejected(x) => BoolsOK'  BY DEF DisableRejected, AbortDisable
<1>11. DisableObserved(x) => BoolsOK'  BY DEF DisableObserved
<1>12. DisableRetried(x) => BoolsOK'  BY DEF DisableRetried
<1>13. DisableNotObserved(x) => BoolsOK'  BY DEF DisableNotObserved, AbortDisable
<1>14. EnableStarts(x) => BoolsOK'  BY DEF EnableStarts
<1>15. EnableFails(x) => BoolsOK'  BY DEF EnableFails
<1>16. EnableGivesUp(x) => BoolsOK'  BY DEF EnableGivesUp
<1>17. WalkFindsNothing(x) => BoolsOK'  BY DEF WalkFindsNothing
<1>18. WalkCycles(x) => BoolsOK'  BY DEF WalkCycles
<1>19. Reenumerated(x) => BoolsOK'  BY DEF Reenumerated
<1>20. NotReenumerated(x) => BoolsOK'  BY DEF NotReenumerated
<1>21. RepairDone(x) => BoolsOK'  BY DEF RepairDone
<1>22. RepairIncomplete(x) => BoolsOK'  BY DEF RepairIncomplete
<1>23. ASSUME NEW p \in Port PROVE RepairSkips(x, p) => BoolsOK'
  BY DEF RepairSkips
<1>24. ASSUME NEW p \in Port PROVE RepairStarts(x, p) => BoolsOK'
  BY DEF RepairStarts
<1>25. ASSUME NEW p \in Port PROVE RepairRefused(x, p) => BoolsOK'
  BY DEF RepairRefused
<1>26. QED
  BY <1>1, <1>2, <1>3, <1>4, <1>5, <1>6, <1>7, <1>8, <1>9, <1>10, <1>11,
     <1>12, <1>13, <1>14, <1>15, <1>16, <1>17, <1>18, <1>19, <1>20, <1>21,
     <1>22, <1>23, <1>24, <1>25, CoreCases, Zenon

\* So does every step, for the non-boolean variables ...
LEMMA NextValues ==
  ASSUME ValuesOK, [Next]_vars
  PROVE  ValuesOK'
<1> USE DEF ValuesOK, PC, Job, hardware, files, frame, episode, Goto, Step, Conclude,
            ResetFrame, BeginCore, BeginRepair, Proc
<1>1. StartupRepair => ValuesOK'  BY DEF StartupRepair
<1>2. StartupClean => ValuesOK'  BY DEF StartupClean
<1>3. Poll => ValuesOK'  BY DEF Poll
<1>4. RungZero => ValuesOK'  BY DEF RungZero
<1>5. RungZeroBlind => ValuesOK'  BY DEF RungZeroBlind
<1>6. RungZeroNotDue => ValuesOK'  BY DEF RungZeroNotDue
<1>7. Blocked => ValuesOK'  BY DEF Blocked
<1>8. PassEnds => ValuesOK'  BY DEF PassEnds
<1>9. EnterLadder => ValuesOK'  BY DEF EnterLadder
<1>10. StartUsbCycle => ValuesOK'  BY DEF StartUsbCycle
<1>11. SkipUsbCycle => ValuesOK'  BY DEF SkipUsbCycle
<1>12. StartHubCycle => ValuesOK'  BY DEF StartHubCycle
<1>13. SkipHubCycle => ValuesOK'  BY DEF SkipHubCycle
<1>14. Connect => ValuesOK'  BY DEF Connect
<1>15. UsbCycleReturns => ValuesOK'  BY DEF UsbCycleReturns
<1>16. HubCycleReturns => ValuesOK'  BY DEF HubCycleReturns
<1>17. StartupReturns => ValuesOK'  BY DEF StartupReturns
<1>18. RepairReturns => ValuesOK'  BY DEF RepairReturns
<1>19. DaemonRestarts => ValuesOK'  BY DEF DaemonRestarts
<1>20. EpisodeCloses => ValuesOK'  BY DEF EpisodeCloses
<1>21. UserDeletesUsbOff => ValuesOK'  BY DEF UserDeletesUsbOff
<1>22. ASSUME NEW p \in Port PROVE Unplug(p) => ValuesOK'  BY DEF Unplug
<1>23. ASSUME NEW p \in Port PROVE Plug(p) => ValuesOK'  BY DEF Plug
<1>24. ASSUME NEW p \in Port PROVE UserDisables(p) => ValuesOK'
  BY DEF UserDisables
<1>25. ASSUME NEW p \in Port PROVE UserEnables(p) => ValuesOK'  BY DEF UserEnables
<1>26. ASSUME NEW x \in Tool PROVE ToolStarts(x) => ValuesOK'  BY DEF ToolStarts
<1>27. ASSUME NEW x \in Tool PROVE ToolExits(x) => ValuesOK'  BY DEF ToolExits
<1>28. ASSUME NEW x \in Tool PROVE ToolKilled(x) => ValuesOK'  BY DEF ToolKilled
<1>29. ASSUME NEW x \in Proc PROVE Core(x) => ValuesOK'
  BY CoreValues
<1>30. UNCHANGED vars => ValuesOK'  BY DEF vars
<1>31. QED
  BY <1>1, <1>2, <1>3, <1>4, <1>5, <1>6, <1>7, <1>8, <1>9, <1>10, <1>11,
     <1>12, <1>13, <1>14, <1>15, <1>16, <1>17, <1>18, <1>19, <1>20, <1>21,
     <1>22, <1>23, <1>24, <1>25, <1>26, <1>27, <1>28, <1>29, <1>30,
     NextCases, Zenon

\* ... and for the boolean ones.
LEMMA NextBools ==
  ASSUME BoolsOK, [Next]_vars
  PROVE  BoolsOK'
<1> USE DEF BoolsOK, PC, Job, hardware, files, frame, episode, Goto, Step, Conclude,
            ResetFrame, BeginCore, BeginRepair, Proc
<1>1. StartupRepair => BoolsOK'  BY DEF StartupRepair
<1>2. StartupClean => BoolsOK'  BY DEF StartupClean
<1>3. Poll => BoolsOK'  BY DEF Poll
<1>4. RungZero => BoolsOK'  BY DEF RungZero
<1>5. RungZeroBlind => BoolsOK'  BY DEF RungZeroBlind
<1>6. RungZeroNotDue => BoolsOK'  BY DEF RungZeroNotDue
<1>7. Blocked => BoolsOK'  BY DEF Blocked
<1>8. PassEnds => BoolsOK'  BY DEF PassEnds
<1>9. EnterLadder => BoolsOK'  BY DEF EnterLadder
<1>10. StartUsbCycle => BoolsOK'  BY DEF StartUsbCycle
<1>11. SkipUsbCycle => BoolsOK'  BY DEF SkipUsbCycle
<1>12. StartHubCycle => BoolsOK'  BY DEF StartHubCycle
<1>13. SkipHubCycle => BoolsOK'  BY DEF SkipHubCycle
<1>14. Connect => BoolsOK'  BY DEF Connect
<1>15. UsbCycleReturns => BoolsOK'  BY DEF UsbCycleReturns
<1>16. HubCycleReturns => BoolsOK'  BY DEF HubCycleReturns
<1>17. StartupReturns => BoolsOK'  BY DEF StartupReturns
<1>18. RepairReturns => BoolsOK'  BY DEF RepairReturns
<1>19. DaemonRestarts => BoolsOK'  BY DEF DaemonRestarts
<1>20. EpisodeCloses => BoolsOK'  BY DEF EpisodeCloses
<1>21. UserDeletesUsbOff => BoolsOK'  BY DEF UserDeletesUsbOff
<1>22. ASSUME NEW p \in Port PROVE Unplug(p) => BoolsOK'  BY DEF Unplug
<1>23. ASSUME NEW p \in Port PROVE Plug(p) => BoolsOK'  BY DEF Plug
<1>24. ASSUME NEW p \in Port PROVE UserDisables(p) => BoolsOK'
  BY DEF UserDisables
<1>25. ASSUME NEW p \in Port PROVE UserEnables(p) => BoolsOK'  BY DEF UserEnables
<1>26. ASSUME NEW x \in Tool PROVE ToolStarts(x) => BoolsOK'  BY DEF ToolStarts
<1>27. ASSUME NEW x \in Tool PROVE ToolExits(x) => BoolsOK'  BY DEF ToolExits
<1>28. ASSUME NEW x \in Tool PROVE ToolKilled(x) => BoolsOK'  BY DEF ToolKilled
<1>29. ASSUME NEW x \in Proc PROVE Core(x) => BoolsOK'
  BY CoreBools
<1>30. UNCHANGED vars => BoolsOK'  BY DEF vars
<1>31. QED
  BY <1>1, <1>2, <1>3, <1>4, <1>5, <1>6, <1>7, <1>8, <1>9, <1>10, <1>11,
     <1>12, <1>13, <1>14, <1>15, <1>16, <1>17, <1>18, <1>19, <1>20, <1>21,
     <1>22, <1>23, <1>24, <1>25, <1>26, <1>27, <1>28, <1>29, <1>30,
     NextCases, Zenon

\* The initial states have the types ...
LEMMA TypeInit == Init => TypeOK
<1>1. ASSUME Init PROVE ValuesOK
  <2>1. /\ node \in [Port -> {"started", "stopped", "disabled"}]
        /\ plugged \in SUBSET Port /\ ours \in SUBSET Port
    BY <1>1 DEF Init
  <2>2. pc \in [Proc -> PC] /\ job \in [Proc -> Job]
    BY <1>1 DEF Init, PC, Job
  <2>3. /\ port \in [Proc -> Port \cup {NoPort}]
        /\ scan \in [Proc -> SUBSET Port]
        /\ armedSeen \in {"unread", "armed", "clear"}
    BY <1>1 DEF Init
  <2>4. tries \in [Proc -> 0..MaxEnable]
    BY <1>1 DEF Init
  <2>5. QED
    BY <2>1, <2>2, <2>3, <2>4, Zenon DEF ValuesOK
<1>2. ASSUME Init PROVE BoolsOK
  <2>1. /\ journal \in BOOLEAN /\ usbOff \in BOOLEAN
        /\ elevated \in BOOLEAN /\ r2Used \in BOOLEAN /\ cycled \in BOOLEAN
    BY <1>2 DEF Init
  <2>2. /\ ok \in [Proc -> BOOLEAN] /\ owns \in [Proc -> BOOLEAN]
        /\ bad \in [Proc -> BOOLEAN]
    BY <1>2 DEF Init
  <2>3. QED
    BY <2>1, <2>2, Zenon DEF BoolsOK
<1>3. QED
  BY <1>1, <1>2, TypeSplit, Zenon

\* ... and every step keeps them.
LEMMA TypeStep == TypeOK /\ [Next]_vars => TypeOK'
<1> SUFFICES ASSUME TypeOK, [Next]_vars PROVE TypeOK'
  OBVIOUS
<1>1. BoolsOK /\ ValuesOK
  BY TypeSplit
<1>2. BoolsOK' /\ ValuesOK'
  BY <1>1, NextBools, NextValues
<1>3. QED
  BY <1>2, Zenon DEF TypeOK, BoolsOK, ValuesOK

\* Every variable keeps its type, in every instance, whatever the user does.
THEOREM TypeCorrect == Spec => []TypeOK
  BY TypeInit, TypeStep, PTL DEF Spec

\* So it does in the behaviours with a careful user.
LEMMA TypeCorrectCareful == CarefulSpec => []TypeOK
<1>1. TypeOK /\ [Next /\ CarefulUser]_vars => TypeOK'
  BY TypeStep
<1>2. QED
  BY <1>1, TypeInit, PTL DEF CarefulSpec

-----------------------------------------------------------------------------
(* The journal's promises, for one process and a careful user.  With another *)
(* process, or a dongle moved while a disable of ours stands, TLC finds      *)
(* DisableIsJournalled violated (runs two_processes and port_change).        *)

\* No one-shot tool runs beside the daemon.
Alone == Tool = {}

\* A healthy machine satisfies the invariant.
LEMMA IInvInit == Init => IInv
  BY DEF Init, IInv, DisableIsJournalled, HubCycleSparesOurDisable, Bookkeeping,
     DisableStaysWithDongle, RepairCoversDisable, DisableAccountedFor, TrustsRadio, Proc

\* A core's step keeps the invariant.
LEMMA IInvCore ==
  ASSUME Alone, TypeOK, IInv, Core(Daemon)
  PROVE  IInv'
<1> USE DEF Alone, TypeOK, IInv, DisableIsJournalled, HubCycleSparesOurDisable,
            DisableStaysWithDongle, Bookkeeping, RepairCoversDisable, DisableAccountedFor, TrustsRadio,
            hardware, files, frame, episode, Goto, Step, Conclude, CycleFrame,
            Started, Proc
<1>1. Arm(Daemon) => IInv'  BY DEF Arm
<1>2. ASSUME ArmFails(Daemon) PROVE IInv'
  <2>1. journal => journal'
    BY <1>2, Zenon DEF ArmFails
  <2>2. QED
    BY <1>2, <2>1 DEF ArmFails
<1>3. Disarm(Daemon) => IInv'  BY DEF Disarm
<1>4. DisarmFails(Daemon) => IInv'  BY DEF DisarmFails
<1>5. RestartVerified(Daemon) => IInv'  BY DEF RestartVerified
<1>6. ASSUME RestartNoOp(Daemon) PROVE IInv'
  <2>1. Started(port[Daemon]) => ours = {}
    OBVIOUS
  <2>2. ours # {} => journal'
    BY <1>6, <2>1, Zenon DEF RestartNoOp
  <2>3. QED
    BY <1>6, <2>2 DEF RestartNoOp
<1>7. RestartReboot(Daemon) => IInv'  BY DEF RestartReboot, AfterRestart
<1>8. RestartFails(Daemon) => IInv'  BY DEF RestartFails, AfterRestart
<1>9. DisableAccepted(Daemon) => IInv'  BY DEF DisableAccepted, SetDisabled
<1>10. DisableRejected(Daemon) => IInv'  BY DEF DisableRejected, AbortDisable
<1>11. DisableObserved(Daemon) => IInv'  BY DEF DisableObserved
<1>12. DisableRetried(Daemon) => IInv'  BY DEF DisableRetried, SetDisabled
<1>13. DisableNotObserved(Daemon) => IInv'
  BY DEF DisableNotObserved, AbortDisable
<1>14. EnableStarts(Daemon) => IInv'  BY DEF EnableStarts
<1>15. EnableFails(Daemon) => IInv'  BY DEF EnableFails
<1>16. EnableGivesUp(Daemon) => IInv'  BY DEF EnableGivesUp
<1>17. WalkFindsNothing(Daemon) => IInv'  BY DEF WalkFindsNothing
<1>18. WalkCycles(Daemon) => IInv'  BY DEF WalkCycles, AfterRestart
<1>19. Reenumerated(Daemon) => IInv'  BY DEF Reenumerated
<1>20. NotReenumerated(Daemon) => IInv'  BY DEF NotReenumerated
<1>21. RepairDone(Daemon) => IInv'  BY DEF RepairDone
<1>22. RepairIncomplete(Daemon) => IInv'  BY DEF RepairIncomplete
<1>23. ASSUME NEW p \in Port PROVE RepairSkips(Daemon, p) => IInv'
  BY DEF RepairSkips, NeedsRepair
<1>24. ASSUME NEW p \in Port PROVE RepairStarts(Daemon, p) => IInv'
  BY DEF RepairStarts
<1>25. ASSUME NEW p \in Port PROVE RepairRefused(Daemon, p) => IInv'
  BY DEF RepairRefused
<1>26. QED
  <2>1. Daemon \in Proc
    OBVIOUS
  <2>2. QED
    BY <2>1, <1>1, <1>2, <1>3, <1>4, <1>5, <1>6, <1>7, <1>8, <1>9, <1>10, <1>11,
       <1>12, <1>13, <1>14, <1>15, <1>16, <1>17, <1>18, <1>19, <1>20, <1>21,
       <1>22, <1>23, <1>24, <1>25, CoreCases, Zenon

\* Every step of a careful user keeps the invariant.
LEMMA IInvStep ==
  ASSUME Alone, TypeOK, IInv, [Next /\ CarefulUser]_vars
  PROVE  IInv'
<1> USE DEF Alone, TypeOK, IInv, DisableIsJournalled, HubCycleSparesOurDisable,
            DisableStaysWithDongle, Bookkeeping, RepairCoversDisable, DisableAccountedFor, TrustsRadio,
            hardware, files, frame, episode, Goto, Step, Conclude, ResetFrame,
            BeginCore, BeginRepair, Proc
<1>1. StartupRepair => IInv'  BY DEF StartupRepair
<1>2. StartupClean => IInv'  BY DEF StartupClean
<1>3. Poll => IInv'  BY DEF Poll
<1>4. RungZero => IInv'  BY DEF RungZero
<1>5. RungZeroBlind => IInv'  BY DEF RungZeroBlind
<1>6. RungZeroNotDue => IInv'  BY DEF RungZeroNotDue
<1>7. Blocked => IInv'  BY DEF Blocked
<1>8. PassEnds => IInv'  BY DEF PassEnds
<1>9. EnterLadder => IInv'  BY DEF EnterLadder
<1>10. StartUsbCycle => IInv'  BY DEF StartUsbCycle
<1>11. SkipUsbCycle => IInv'  BY DEF SkipUsbCycle
<1>12. StartHubCycle => IInv'  BY DEF StartHubCycle
<1>13. SkipHubCycle => IInv'  BY DEF SkipHubCycle
<1>14. Connect => IInv'  BY DEF Connect
<1>15. UsbCycleReturns => IInv'  BY DEF UsbCycleReturns
<1>16. HubCycleReturns => IInv'  BY DEF HubCycleReturns
<1>17. StartupReturns => IInv'  BY DEF StartupReturns
<1>18. RepairReturns => IInv'  BY DEF RepairReturns
<1>19. DaemonRestarts => IInv'  BY DEF DaemonRestarts
<1>20. EpisodeCloses => IInv'  BY DEF EpisodeCloses
<1>21. UserDeletesUsbOff => IInv'  BY DEF UserDeletesUsbOff
<1>22. ASSUME NEW p \in Port, Unplug(p) PROVE IInv'
  <2>1. CarefulUser
    BY <1>22 DEF Unplug, vars
  <2>2. pc[Daemon] = "repair" => ours = {}
    BY <1>22, <2>1 DEF CarefulUser, RepairRunning, Unplug
  <2>3. QED
    BY <1>22, <2>2 DEF Unplug
<1>23. ASSUME NEW p \in Port, Plug(p) PROVE IInv'
  <2>1. CarefulUser
    BY <1>23 DEF Plug, vars
  <2>2. ours # {} => p \in ours
    BY <1>23, <2>1 DEF CarefulUser, Plug
  <2>3. QED
    BY <1>23, <2>2 DEF Plug
<1>24. ASSUME NEW p \in Port PROVE UserDisables(p) => IInv'  BY DEF UserDisables
<1>25. ASSUME NEW p \in Port PROVE UserEnables(p) => IInv'  BY DEF UserEnables
<1>26. ASSUME NEW x \in Tool
       PROVE  (ToolStarts(x) \/ ToolExits(x) \/ ToolKilled(x)) => IInv'
  OBVIOUS
<1>27. ASSUME NEW x \in Proc PROVE Core(x) => IInv'
  BY IInvCore
<1>28. UNCHANGED vars => IInv'  BY DEF vars
<1>29. QED
  BY <1>1, <1>2, <1>3, <1>4, <1>5, <1>6, <1>7, <1>8, <1>9, <1>10, <1>11,
     <1>12, <1>13, <1>14, <1>15, <1>16, <1>17, <1>18, <1>19, <1>20, <1>21,
     <1>22, <1>23, <1>24, <1>25, <1>26, <1>27, <1>28, NextCases, Zenon

\* The inductive invariant holds in every behaviour with a careful user.
THEOREM InductiveInvariant ==
  ASSUME Alone
  PROVE  CarefulSpec => []IInv
<1>1. TypeOK /\ IInv /\ [Next /\ CarefulUser]_vars => IInv'
  BY IInvStep
<1>2. QED
  BY <1>1, IInvInit, TypeCorrectCareful, PTL DEF CarefulSpec

\* Whatever step a crash cuts short, a devnode we left disabled has its marker,
\* whatever port the dongle came from and wherever it went healthy.
THEOREM DisableAlwaysJournalled ==
  ASSUME Alone
  PROVE  CarefulSpec => []DisableIsJournalled
<1>1. IInv => DisableIsJournalled
  BY DEF IInv
<1>2. QED
  BY <1>1, InductiveInvariant, PTL

\* R4 never cuts the power of a radio that our own disable holds down.
THEOREM HubCycleAlwaysSpares ==
  ASSUME Alone
  PROVE  CarefulSpec => []HubCycleSparesOurDisable
<1>1. IInv => HubCycleSparesOurDisable
  BY DEF IInv
<1>2. QED
  BY <1>1, InductiveInvariant, PTL

-----------------------------------------------------------------------------
(* RadioJournal implements UndoJournal.                                      *)

\* The initial states map to initial states of the abstract journal.
LEMMA RefinesInit == Init => Undo!Init
  BY DEF Init, Undo!Init

\* A step that leaves our disables alone and keeps the marker over them is a
\* (possibly stuttering) rewrite of the promise.
LEMMA RemarkStep ==
  ASSUME TypeOK', DisableIsJournalled', ours' = ours
  PROVE  Undo!Remark
<1>1. (IF journal' THEN Port ELSE {}) \in SUBSET Port
  OBVIOUS
<1>2. ours \subseteq IF journal' THEN Port ELSE {}
  BY DEF DisableIsJournalled, TypeOK
<1>3. QED
  BY <1>1, <1>2 DEF Undo!Remark

\* Every step of RadioJournal is a step of the abstract journal or a stutter.
LEMMA RefinesStep ==
  ASSUME Alone, TypeOK, TypeOK', IInv, IInv', [Next]_vars
  PROVE  [Undo!Next]_(Undo!vars)
<1> USE DEF files, hardware, frame, episode
<1>1. ours' = ours => Undo!Next
  BY RemarkStep DEF Undo!Next, IInv
<1>2. ASSUME NEW p \in Port, ours' = ours \ {p}, journal' = journal
      PROVE  Undo!Next
  BY <1>2 DEF Undo!Next, Undo!Undo
<1>3. ASSUME NEW p \in Port, journal, SetDisabled(p), journal' = journal
      PROVE  Undo!Next
  BY <1>1, <1>3 DEF SetDisabled, Undo!Next, Undo!Damage
<1>4. ASSUME NEW x \in Proc, Core(x) PROVE Undo!Next
  <2>1. x = Daemon
    BY DEF Proc, Alone
  <2>2. ASSUME NEW p \in plugged, pc[x] \in {"disable", "verify"}, SetDisabled(p),
               journal' = journal
        PROVE  Undo!Next
    BY <1>3, <2>1, <2>2 DEF IInv, Bookkeeping, TypeOK
  <2>3. DisableAccepted(x) \/ DisableRetried(x) => Undo!Next
    BY <1>1, <2>2 DEF DisableAccepted, DisableRetried, SetDisabled, Step
  <2>4. EnableStarts(x) \/ EnableFails(x) => Undo!Next
    BY <1>1, <1>2 DEF EnableStarts, EnableFails, TypeOK
  <2>5. \A p \in Port : RepairStarts(x, p) \/ RepairRefused(x, p) => Undo!Next
    BY <1>1, <1>2 DEF RepairStarts, RepairRefused
  <2>6. \/ ours' = ours
        \/ DisableAccepted(x) \/ DisableRetried(x)
        \/ EnableStarts(x) \/ EnableFails(x)
        \/ \E p \in Port : RepairStarts(x, p) \/ RepairRefused(x, p)
    BY <1>4 DEF Core, Cycle, HubCycle, Repair, RepairNode, Arm, ArmFails,
       Disarm, DisarmFails, RestartVerified, RestartNoOp, RestartReboot,
       RestartFails, DisableRejected, DisableObserved, DisableNotObserved,
       EnableGivesUp, WalkFindsNothing, WalkCycles, Reenumerated,
       NotReenumerated, RepairDone, RepairIncomplete, RepairSkips
  <2>7. QED
    BY <1>1, <2>3, <2>4, <2>5, <2>6
<1>5. ASSUME NEW p \in Port, UserEnables(p) PROVE Undo!Next
  BY <1>2, <1>5 DEF UserEnables
<1>6. \/ ours' = ours
      \/ \E x \in Proc : Core(x)
      \/ \E p \in Port : UserEnables(p)
  BY DEF Next, Pass, UsbCycleGate, PassElsewhere, World, vars, Alone, BeginCore, BeginRepair, StartupRepair,
     StartupClean, Poll, RungZero, RungZeroBlind, RungZeroNotDue, Blocked,
     PassEnds, EnterLadder, StartUsbCycle, SkipUsbCycle, StartHubCycle,
     SkipHubCycle, Connect, UsbCycleReturns, HubCycleReturns, StartupReturns,
     RepairReturns, DaemonRestarts, EpisodeCloses, UserDeletesUsbOff, Unplug,
     Plug, UserDisables
<1>7. QED
  BY <1>1, <1>4, <1>5, <1>6

\* The radio journal follows the write-ahead discipline of UndoJournal.
THEOREM Refinement ==
  ASSUME Alone
  PROVE  CarefulSpec => ImplementsUndoJournal
<1>1. TypeOK /\ TypeOK' /\ IInv /\ IInv' /\ [Next /\ CarefulUser]_vars
        => [Undo!Next]_(Undo!vars)
  BY RefinesStep
<1>2. QED
  BY <1>1, RefinesInit, TypeCorrectCareful, InductiveInvariant, PTL
  DEF CarefulSpec, ImplementsUndoJournal, Undo!Spec

-----------------------------------------------------------------------------
(* Without the condition on the user.                                        *)

\* A machine with one port whose dongle is not pulled inside a repair pass.
FixedDongle == /\ \A p, q \in Port : p = q
               /\ ~SurpriseRemoval

\* There every user is careful: the plug has no other port to go to, and the
\* steps of a repair pass move no dongle.
LEMMA EveryUserIsCareful ==
  ASSUME Alone, FixedDongle, TypeOK, Next
  PROVE  CarefulUser
<1>1. ASSUME plugged' = plugged PROVE CarefulUser
  BY <1>1 DEF CarefulUser
<1>2. ASSUME NEW p \in Port, Unplug(p) PROVE CarefulUser
  BY <1>2 DEF CarefulUser, Unplug, FixedDongle
<1>3. ASSUME NEW p \in Port, Plug(p) PROVE CarefulUser
  BY <1>3 DEF CarefulUser, Plug, FixedDongle, TypeOK
<1>4. ASSUME NEW x \in Proc, WalkCycles(x) PROVE CarefulUser
  BY <1>4 DEF CarefulUser, WalkCycles, Step, RepairRunning, Alone, Proc
<1>5. ASSUME NEW x \in Proc, Core(x), ~WalkCycles(x) PROVE CarefulUser
  BY <1>1, <1>5 DEF Core, Cycle, HubCycle, Repair, RepairNode, Arm, ArmFails,
     Disarm, DisarmFails, RestartVerified, RestartNoOp, RestartReboot,
     RestartFails, DisableAccepted, DisableRejected, DisableObserved,
     DisableRetried, DisableNotObserved, EnableStarts, EnableFails,
     EnableGivesUp, WalkFindsNothing, Reenumerated, NotReenumerated,
     RepairDone, RepairIncomplete, RepairSkips, RepairStarts, RepairRefused,
     CycleFrame, hardware
<1>6. \/ plugged' = plugged
      \/ \E x \in Proc : Core(x)
      \/ \E p \in Port : Unplug(p) \/ Plug(p)
  BY DEF Next, Pass, UsbCycleGate, PassElsewhere, World, Alone, BeginCore, BeginRepair, StartupRepair,
     StartupClean, Poll, RungZero, RungZeroBlind, RungZeroNotDue, Blocked,
     PassEnds, EnterLadder, StartUsbCycle, SkipUsbCycle, StartHubCycle,
     SkipHubCycle, Connect, UsbCycleReturns, HubCycleReturns, StartupReturns,
     RepairReturns, DaemonRestarts, EpisodeCloses, UserDeletesUsbOff,
     UserDisables, UserEnables, hardware
<1>7. QED
  BY <1>1, <1>2, <1>3, <1>4, <1>5, <1>6

\* So every behaviour of that machine is one with a careful user.
LEMMA FixedDongleIsCareful ==
  ASSUME Alone, FixedDongle
  PROVE  Spec => CarefulSpec
<1>1. TypeOK /\ [Next]_vars => [Next /\ CarefulUser]_vars
  BY EveryUserIsCareful
<1>2. QED
  BY <1>1, TypeCorrect, PTL DEF Spec, CarefulSpec

\* There the journal keeps its promises whatever the user does.
THEOREM FixedDonglePromises ==
  ASSUME Alone, FixedDongle
  PROVE  Spec => /\ []DisableIsJournalled
                 /\ []HubCycleSparesOurDisable
                 /\ ImplementsUndoJournal
  BY FixedDongleIsCareful, DisableAlwaysJournalled, HubCycleAlwaysSpares,
     Refinement, PTL
-----------------------------------------------------------------------------
(* A pass runs out: the stages are numbered so that every step of a process *)
(* goes down, but for the calls counted within the enable and repair stages.*)

\* The numbers of the stages within a core ...
LEMMA CoreStages ==
  ASSUME NEW core
  PROVE  /\ StagesAfterCore(core) \in {0, 1, 9, 18}
         /\ StagesLeft("return", core) = 1 + StagesAfterCore(core)
         /\ StagesLeft("disarm", core) = 2 + StagesAfterCore(core)
         /\ StagesLeft("enable", core) = 3 + StagesAfterCore(core)
         /\ StagesLeft("repair", core) = 3 + StagesAfterCore(core)
         /\ StagesLeft("reenum", core) = 3 + StagesAfterCore(core)
         /\ StagesLeft("verify", core) = 4 + StagesAfterCore(core)
         /\ StagesLeft("walk", core) = 4 + StagesAfterCore(core)
         /\ StagesLeft("disable", core) = 5 + StagesAfterCore(core)
         /\ StagesLeft("restart", core) = 6 + StagesAfterCore(core)
         /\ StagesLeft("arm", core) = 7 + StagesAfterCore(core)
<1>1. StagesAfterCore(core) \in {0, 1, 9, 18}
  BY DEF StagesAfterCore
<1>2. QED
  BY <1>1 DEF StagesLeft, StagesOfCore

\* ... and between the cores.
LEMMA PassStages ==
  ASSUME NEW core
  PROVE  /\ StagesLeft("idle", core) = 0 /\ StagesLeft("connect", core) = 1
         /\ StagesLeft("r4", core) = 9 /\ StagesLeft("rungs", core) = 17
         /\ StagesLeft("choose", core) = 18
         /\ StagesLeft("gate", core) = 22 /\ StagesLeft("startup", core) = 22
  BY DEF StagesLeft

\* What follows each core.
LEMMA AfterCore ==
  /\ StagesAfterCore("repair") = 18 /\ StagesAfterCore("cycle") = 9
  /\ StagesAfterCore("hub") = 1
  /\ StagesAfterCore("startup") = 0 /\ StagesAfterCore("none") = 0
  BY DEF StagesAfterCore

\* Every step of a core brings it nearer to its end.
LEMMA CoreRunsOut ==
  ASSUME TypeOK, NEW x \in Proc, Core(x)
  PROVE  RunsOut(x)
<1> DEFINE G == RunsOut(x)
           Down(from, to) == pc[x] = from /\ pc'[x] = to /\ job'[x] = job[x]
<1>0. pc \in [Proc -> PC] /\ ok \in [Proc -> BOOLEAN]
  BY DEF TypeOK
<1>1. ASSUME \/ \E to \in {"walk", "restart", "return"} : Down("arm", to)
             \/ \E to \in {"disable", "disarm", "return"} : Down("restart", to)
             \/ \E to \in {"verify", "disarm", "return"} : Down("disable", to)
             \/ \E to \in {"enable", "disarm", "return"} : Down("verify", to)
             \/ \E to \in {"disarm", "return"} : Down("enable", to)
             \/ \E to \in {"reenum", "disarm"} : Down("walk", to)
             \/ \E to \in {"disarm", "return"} : Down("reenum", to)
             \/ \E to \in {"disarm", "return"} : Down("repair", to)
             \/ Down("disarm", "return")
      PROVE  G
  BY <1>1, CoreStages DEF RunsOut
<1>2. UsesUpCall(x) => G
  BY DEF RunsOut
<1> HIDE DEF G
<1> USE <1>0, <1>1 DEF Goto, Step, Conclude, frame, CycleFrame, AbortDisable
<1>3. Arm(x) => G  BY DEF Arm
<1>4. ArmFails(x) => G  BY DEF ArmFails
<1>5. Disarm(x) => G  BY DEF Disarm
<1>6. DisarmFails(x) => G  BY DEF DisarmFails
<1>7. RestartVerified(x) => G  BY DEF RestartVerified
<1>8. RestartNoOp(x) => G  BY DEF RestartNoOp
<1>9. RestartReboot(x) => G  BY DEF RestartReboot
<1>10. RestartFails(x) => G  BY DEF RestartFails
<1>11. DisableAccepted(x) => G  BY DEF DisableAccepted
<1>12. DisableRejected(x) => G  BY DEF DisableRejected
<1>13. DisableObserved(x) => G  BY DEF DisableObserved
<1>14. DisableRetried(x) => G  BY DEF DisableRetried
<1>15. DisableNotObserved(x) => G  BY DEF DisableNotObserved
<1>16. EnableStarts(x) => G  BY DEF EnableStarts
<1>17. EnableGivesUp(x) => G  BY DEF EnableGivesUp
<1>18. WalkFindsNothing(x) => G  BY DEF WalkFindsNothing
<1>19. WalkCycles(x) => G  BY DEF WalkCycles
<1>20. Reenumerated(x) => G  BY DEF Reenumerated
<1>21. NotReenumerated(x) => G  BY DEF NotReenumerated
<1>22. RepairDone(x) => G  BY DEF RepairDone
<1>23. RepairIncomplete(x) => G  BY DEF RepairIncomplete
<1>24. ASSUME EnableFails(x) PROVE G
  <2>1. pc[x] = "enable" /\ pc' = pc /\ job' = job
    BY <1>24 DEF EnableFails
  <2>2. tries'[x] = tries[x] + 1 /\ tries[x] < MaxEnable /\ tries[x] \in 0..MaxEnable
    BY <1>24 DEF EnableFails, TypeOK
  <2>3. tries'[x] <= MaxEnable
    BY <2>2
  <2>4. QED
    BY <1>2, <2>1, <2>2, <2>3 DEF UsesUpCall
<1>25. ASSUME NEW p \in Port, RepairSkips(x, p) \/ RepairStarts(x, p) \/ RepairRefused(x, p)
       PROVE  G
  <2>1. pc[x] = "repair" /\ pc' = pc /\ job' = job
    BY <1>25 DEF RepairSkips, RepairStarts, RepairRefused
  <2>2. p \in scan[x] /\ scan' = [scan EXCEPT ![x] = @ \ {p}]
    BY <1>25 DEF RepairSkips, RepairStarts, RepairRefused
  <2>3. scan'[x] = scan[x] \ {p}
    BY <2>2 DEF TypeOK
  <2>4. QED
    BY <1>2, <2>1, <2>2, <2>3 DEF UsesUpCall
<1>26. RunsOut(x) <=> G
  BY DEF G
<1> HIDE <1>1
<1>27. G
  BY <1>3, <1>4, <1>5, <1>6, <1>7, <1>8, <1>9, <1>10, <1>11, <1>12, <1>13, <1>14,
     <1>15, <1>16, <1>17, <1>18, <1>19, <1>20, <1>21, <1>22, <1>23, <1>24, <1>25,
     CoreCases, Zenon
<1>28. QED
  BY <1>26, <1>27
\* The type of what belongs to a process: functions on the processes.
LocalsOK ==
  /\ pc \in [Proc -> PC] /\ job \in [Proc -> Job]
  /\ port \in [Proc -> Port \cup {NoPort}] /\ tries \in [Proc -> 0..MaxEnable]
  /\ ok \in [Proc -> BOOLEAN] /\ scan \in [Proc -> SUBSET Port]
  /\ owns \in [Proc -> BOOLEAN] /\ bad \in [Proc -> BOOLEAN]

\* No core touches the locals of another process.
LEMMA CoreSparesOthers ==
  ASSUME LocalsOK, NEW x \in Proc, NEW y \in Proc, x # y, Core(y)
  PROVE  Untouched(x)
<1> DEFINE G == Untouched(x)
<1>1. Untouched(x) <=> G
  OBVIOUS
<1>2. Untouched(x) <=> /\ pc'[x] = pc[x] /\ job'[x] = job[x] /\ port'[x] = port[x]
                       /\ tries'[x] = tries[x] /\ ok'[x] = ok[x]
                       /\ scan'[x] = scan[x] /\ owns'[x] = owns[x] /\ bad'[x] = bad[x]
  BY DEF Untouched
<1> HIDE DEF G
<1> USE <1>1, <1>2 DEF LocalsOK, Goto, Step, Conclude, frame, CycleFrame, AbortDisable
<1>3. Arm(y) => G  BY DEF Arm
<1>4. ArmFails(y) => G  BY DEF ArmFails
<1>5. Disarm(y) => G  BY DEF Disarm
<1>6. DisarmFails(y) => G  BY DEF DisarmFails
<1>7. RestartVerified(y) => G  BY DEF RestartVerified
<1>8. RestartNoOp(y) => G  BY DEF RestartNoOp
<1>9. RestartReboot(y) => G  BY DEF RestartReboot
<1>10. RestartFails(y) => G  BY DEF RestartFails
<1>11. DisableAccepted(y) => G  BY DEF DisableAccepted
<1>12. DisableRejected(y) => G  BY DEF DisableRejected
<1>13. DisableObserved(y) => G  BY DEF DisableObserved
<1>14. DisableRetried(y) => G  BY DEF DisableRetried
<1>15. DisableNotObserved(y) => G  BY DEF DisableNotObserved
<1>16. EnableStarts(y) => G  BY DEF EnableStarts
<1>17. EnableFails(y) => G  BY DEF EnableFails
<1>18. EnableGivesUp(y) => G  BY DEF EnableGivesUp
<1>19. WalkFindsNothing(y) => G  BY DEF WalkFindsNothing
<1>20. WalkCycles(y) => G  BY DEF WalkCycles
<1>21. Reenumerated(y) => G  BY DEF Reenumerated
<1>22. NotReenumerated(y) => G  BY DEF NotReenumerated
<1>23. RepairDone(y) => G  BY DEF RepairDone
<1>24. RepairIncomplete(y) => G  BY DEF RepairIncomplete
<1>25. ASSUME NEW p \in Port PROVE RepairSkips(y, p) => G  BY DEF RepairSkips
<1>26. ASSUME NEW p \in Port PROVE RepairStarts(y, p) => G  BY DEF RepairStarts
<1>27. ASSUME NEW p \in Port PROVE RepairRefused(y, p) => G  BY DEF RepairRefused
<1> HIDE <1>1, <1>2 DEF LocalsOK
<1>28. G
  BY <1>3, <1>4, <1>5, <1>6, <1>7, <1>8, <1>9, <1>10, <1>11, <1>12, <1>13, <1>14, <1>15, <1>16, <1>17, <1>18, <1>19, <1>20, <1>21, <1>22, <1>23, <1>24, <1>25, <1>26, <1>27,
     CoreCases, Zenon
<1>29. QED
  BY <1>1, <1>28
\* Every step of a pass, between the cores, brings the daemon nearer to its end.
LEMMA DaemonRunsOut ==
  ASSUME LocalsOK, Pass, pc[Daemon] # "idle"
  PROVE  RunsOut(Daemon)
<1> DEFINE G == StagesLeft(pc'[Daemon], job'[Daemon]) < StagesLeft(pc[Daemon], job[Daemon])
           Now(p) == pc[Daemon] = p
           Then(p, core) == pc'[Daemon] = p /\ job'[Daemon] = core
           AfterReturn(core) == pc[Daemon] = "return" /\ job[Daemon] = core
<1>1. ASSUME \/ Now("startup") /\ \/ \E p \in {"return", "repair"} : Then(p, "startup")
                                  \/ pc'[Daemon] = "idle"
             \/ Now("gate") /\ \/ \E p \in {"return", "repair"} : Then(p, "repair")
                               \/ pc'[Daemon] = "choose"
             \/ Now("choose") /\ pc'[Daemon] \in {"idle", "rungs"}
             \/ Now("rungs") /\ \/ \E p \in {"return", "arm"} : Then(p, "cycle")
                                \/ pc'[Daemon] = "r4"
             \/ Now("r4") /\ \/ \E p \in {"return", "arm"} : Then(p, "hub")
                             \/ pc'[Daemon] = "connect"
             \/ Now("connect") /\ pc'[Daemon] = "idle"
             \/ AfterReturn("cycle") /\ pc'[Daemon] \in {"idle", "r4"}
             \/ AfterReturn("hub") /\ pc'[Daemon] \in {"idle", "connect"}
             \/ AfterReturn("startup") /\ pc'[Daemon] = "idle"
             \/ AfterReturn("repair") /\ pc'[Daemon] \in {"idle", "choose"}
      PROVE  G
  BY <1>1, CoreStages, PassStages, AfterCore
<1> HIDE DEF G
<1> USE <1>1 DEF LocalsOK, Goto, Step, Conclude, frame, Proc
<1>2. StartupRepair => G  BY DEF StartupRepair, BeginRepair
<1>3. StartupClean => G  BY DEF StartupClean
<1>4. RungZero => G  BY DEF RungZero, BeginRepair
<1>5. RungZeroBlind => G  BY DEF RungZeroBlind, BeginRepair
<1>6. RungZeroNotDue => G  BY DEF RungZeroNotDue
<1>7. Blocked => G  BY DEF Blocked
<1>8. PassEnds => G  BY DEF PassEnds
<1>9. EnterLadder => G  BY DEF EnterLadder
<1>10. StartUsbCycle => G  BY DEF StartUsbCycle, BeginCore
<1>11. SkipUsbCycle => G  BY DEF SkipUsbCycle
<1>12. StartHubCycle => G  BY DEF StartHubCycle, BeginCore
<1>13. SkipHubCycle => G  BY DEF SkipHubCycle
<1>14. Connect => G  BY DEF Connect
<1>15. UsbCycleReturns => G  BY DEF UsbCycleReturns
<1>16. HubCycleReturns => G  BY DEF HubCycleReturns
<1>17. StartupReturns => G  BY DEF StartupReturns
<1>18. RepairReturns => G  BY DEF RepairReturns
<1> HIDE <1>1 DEF LocalsOK
<1>19. G
  BY <1>2, <1>3, <1>4, <1>5, <1>6, <1>7, <1>8, <1>9, <1>10, <1>11, <1>12, <1>13, <1>14, <1>15, <1>16, <1>17, <1>18, Zenon
     DEF Pass, PassElsewhere, UsbCycleGate, Poll, Step
<1>20. QED
  BY <1>19 DEF RunsOut, G

\* Nor does a pass, or a crash, touch the locals of a tool.
LEMMA PassSparesOthers ==
  ASSUME LocalsOK, NEW x \in Proc, x # Daemon, Pass \/ DaemonRestarts
  PROVE  Untouched(x)
<1> DEFINE G == Untouched(x)
<1>1. Untouched(x) <=> G
  OBVIOUS
<1>2. Untouched(x) <=> /\ pc'[x] = pc[x] /\ job'[x] = job[x] /\ port'[x] = port[x]
                       /\ tries'[x] = tries[x] /\ ok'[x] = ok[x]
                       /\ scan'[x] = scan[x] /\ owns'[x] = owns[x] /\ bad'[x] = bad[x]
  BY DEF Untouched
<1> HIDE DEF G
<1> USE <1>1, <1>2 DEF LocalsOK, Goto, Step, Conclude, frame, ResetFrame, Proc
<1>3. StartupRepair => G  BY DEF StartupRepair, BeginRepair
<1>4. StartupClean => G  BY DEF StartupClean
<1>5. Poll => G  BY DEF Poll
<1>6. RungZero => G  BY DEF RungZero, BeginRepair
<1>7. RungZeroBlind => G  BY DEF RungZeroBlind, BeginRepair
<1>8. RungZeroNotDue => G  BY DEF RungZeroNotDue
<1>9. Blocked => G  BY DEF Blocked
<1>10. PassEnds => G  BY DEF PassEnds
<1>11. EnterLadder => G  BY DEF EnterLadder
<1>12. StartUsbCycle => G  BY DEF StartUsbCycle, BeginCore
<1>13. SkipUsbCycle => G  BY DEF SkipUsbCycle
<1>14. StartHubCycle => G  BY DEF StartHubCycle, BeginCore
<1>15. SkipHubCycle => G  BY DEF SkipHubCycle
<1>16. Connect => G  BY DEF Connect
<1>17. UsbCycleReturns => G  BY DEF UsbCycleReturns
<1>18. HubCycleReturns => G  BY DEF HubCycleReturns
<1>19. StartupReturns => G  BY DEF StartupReturns
<1>20. RepairReturns => G  BY DEF RepairReturns
<1>21. DaemonRestarts => G  BY DEF DaemonRestarts
<1> HIDE <1>1, <1>2 DEF LocalsOK
<1>22. G
  BY <1>3, <1>4, <1>5, <1>6, <1>7, <1>8, <1>9, <1>10, <1>11, <1>12, <1>13, <1>14, <1>15, <1>16, <1>17, <1>18, <1>19, <1>20, <1>21, Zenon
     DEF Pass, PassElsewhere, UsbCycleGate
<1>23. QED
  BY <1>1, <1>22
\* The world works on the devices; a tool that ends or is killed is done.
LEMMA WorldSpares ==
  ASSUME LocalsOK, NEW x \in Proc, pc[x] # "idle", World
  PROVE  RunsOut(x) \/ Untouched(x)
<1>1. CASE EpisodeCloses \/ UserDeletesUsbOff
  BY <1>1 DEF EpisodeCloses, UserDeletesUsbOff, frame, Untouched
<1>2. CASE \E p \in Port : Unplug(p) \/ Plug(p) \/ UserDisables(p) \/ UserEnables(p)
  BY <1>2 DEF Unplug, Plug, UserDisables, UserEnables, frame, Untouched
<1>3. ASSUME NEW y \in Tool, ToolStarts(y) PROVE Untouched(x)
  <2>1. x # y /\ y \in Proc
    BY <1>3 DEF ToolStarts, Proc
  <2>2. CASE BeginCore(y, "cycle")
    BY <2>1, <2>2 DEF BeginCore, Conclude, Goto, LocalsOK, Untouched
  <2>3. CASE \E found \in {{}, plugged} : BeginRepair(y, "repair", TRUE, found)
    BY <2>1, <2>3 DEF BeginRepair, Goto, LocalsOK, Untouched
  <2>4. QED
    BY <1>3, <2>2, <2>3 DEF ToolStarts
<1>4. ASSUME NEW y \in Tool, ToolExits(y) \/ ToolKilled(y)
      PROVE  RunsOut(x) \/ Untouched(x)
  <2>1. y \in Proc /\ pc' = [pc EXCEPT ![y] = "idle"] /\ ResetFrame(y)
    BY <1>4 DEF ToolExits, ToolKilled, Step, Goto, Proc
  <2>2. CASE x # y
    BY <2>1, <2>2 DEF ResetFrame, LocalsOK, Untouched
  <2>3. CASE x = y
    <3>1. pc'[x] = "idle" /\ pc[x] \in PC
      BY <2>1, <2>3 DEF LocalsOK
    <3>2. StagesLeft(pc[x], job[x]) > 0
      BY <3>1, CoreStages, PassStages DEF PC
    <3>3. StagesLeft(pc'[x], job'[x]) = 0
      BY <3>1, PassStages
    <3>4. StagesLeft(pc'[x], job'[x]) < StagesLeft(pc[x], job[x])
      BY <3>2, <3>3
    <3>5. QED
      BY <3>4 DEF RunsOut
  <2>4. QED
    BY <2>2, <2>3
<1>5. QED
  BY <1>1, <1>2, <1>3, <1>4, Zenon DEF World

\* All steps together.
LEMMA StepRunsOut ==
  ASSUME TypeOK, [Next]_vars, NEW x \in Proc
  PROVE  /\ Core(x) => RunsOut(x)
         /\ pc[x] # "idle" => RunsOut(x) \/ Untouched(x) \/ pc'[x] = "startup"
<1>1. LocalsOK /\ Daemon \in Proc
  BY DEF TypeOK, LocalsOK, Proc
<1>2. Core(x) => RunsOut(x)
  BY CoreRunsOut
<1>3. ASSUME pc[x] # "idle" PROVE RunsOut(x) \/ Untouched(x) \/ pc'[x] = "startup"
  <2>1. CASE Pass
    BY <1>1, <1>3, <2>1, DaemonRunsOut, PassSparesOthers, Zenon
  <2>2. CASE DaemonRestarts
    <3>1. CASE x = Daemon
      BY <1>1, <2>2, <3>1 DEF DaemonRestarts, Goto, LocalsOK
    <3>2. CASE x # Daemon
      BY <1>1, <2>2, <3>2, PassSparesOthers, Zenon
    <3>3. QED
      BY <3>1, <3>2
  <2>3. CASE World
    BY <1>1, <1>3, <2>3, WorldSpares, Zenon
  <2>4. ASSUME NEW y \in Proc, Core(y) PROVE RunsOut(x) \/ Untouched(x)
    BY <1>1, <1>2, <2>4, CoreSparesOthers, Zenon
  <2>5. CASE UNCHANGED vars
    BY <2>5 DEF vars, frame, Untouched
  <2>6. QED
    BY <2>1, <2>2, <2>3, <2>4, <2>5, Zenon DEF Next
<1>4. QED
  BY <1>2, <1>3

\* WorkRunsOut: with any tools beside the daemon, any ports and any number of
\* attempts, whatever the devices answer and the user does.
THEOREM WorkAlwaysRunsOut == Spec => WorkRunsOut
<1>1. TypeOK /\ [Next]_vars
        => [\A x \in Proc :
              /\ Core(x) => RunsOut(x)
              /\ pc[x] # "idle" => RunsOut(x) \/ Untouched(x) \/ pc'[x] = "startup"]_vars
  BY StepRunsOut
<1>2. QED
  BY <1>1, TypeCorrect, PTL DEF Spec, WorkRunsOut
=============================================================================
