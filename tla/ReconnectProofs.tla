-------------------------- MODULE ReconnectProofs --------------------------
(***************************************************************************)
(* The safety properties of Reconnect, for every set of sockets and every  *)
(* choice of intervals that ReconnectAssumption allows.  Each of them has  *)
(* an invariant of its own on top of the type invariant; the last lemmas   *)
(* put them together.                                                      *)
(***************************************************************************)
EXTENDS Reconnect, TLAPS

\* The intervals are positive numbers.
LEMMA Intervals ==
  /\ Poll \in Nat /\ Poll > 0 /\ Idle \in Nat /\ Idle > 0
  /\ ResumeDelay \in Nat /\ ResumeDelay > 0 /\ Debounce \in Nat /\ Debounce > 0
  /\ Unpark \in Nat /\ Unpark > 0 /\ Echo \in Nat /\ Echo > 0
  /\ Cadence \in Nat /\ Cadence > 0 /\ Settle \in Nat /\ Settle > 0
  /\ ToggleMin \in Nat /\ ToggleMin > 0 /\ ToggleMax \in Nat /\ ToggleMax > 0
  /\ Retry \in Nat /\ Retry > 0 /\ CallMax \in Nat /\ CallMax > 0
  /\ StablePolls \in Nat /\ StablePolls > 0
  /\ Poll <= Idle /\ ToggleMin <= ToggleMax
  /\ NoSocket \notin Socket
<1>1. {Poll, Idle, ResumeDelay, Debounce, Unpark, Echo, Cadence, Settle, ToggleMin,
       ToggleMax, Retry, CallMax, StablePolls} \subseteq Nat \ {0}
  BY ReconnectAssumption DEF ReconnectAssumption
<1>2. \A n \in Nat \ {0} : n \in Nat /\ n > 0
  OBVIOUS
<1> QED
  BY <1>1, <1>2, ReconnectAssumption DEF ReconnectAssumption

\* What the bounds of the model are made of.
LEMMA Bounds ==
  /\ PollBound = Poll + Debounce + Idle + ResumeDelay
  /\ PollBound \in Nat
  /\ Spacing \in Nat /\ Spacing <= ToggleMin /\ Spacing <= Echo
  /\ QuitBound \in Nat /\ ResumeDelay <= QuitBound /\ Poll <= QuitBound
  /\ LongestStay \in Nat /\ Idle <= LongestStay /\ CallMax <= LongestStay
  /\ QuitBound <= LongestStay
  /\ LongestBackoff \in Nat /\ Retry <= LongestBackoff /\ Settle <= LongestBackoff
<1>1. PollBound \in Nat
  BY Intervals DEF PollBound
<1>2. Spacing \in Nat /\ Spacing <= ToggleMin /\ Spacing <= Echo
  BY Intervals DEF Spacing, Least
<1>3. QuitBound \in Nat /\ ResumeDelay <= QuitBound /\ Poll <= QuitBound
  BY Intervals DEF QuitBound, Most
<1>4. LongestStay \in Nat /\ Idle <= LongestStay /\ CallMax <= LongestStay
  BY <1>3, Intervals DEF LongestStay, Most
<1>5. QuitBound <= LongestStay
  BY <1>3, Intervals DEF LongestStay, Most
<1>6. LongestBackoff \in Nat /\ Retry <= LongestBackoff /\ Settle <= LongestBackoff
  BY Intervals DEF LongestBackoff, Most
<1> QED
  BY <1>1, <1>2, <1>3, <1>4, <1>5, <1>6 DEF PollBound

\* A count that stops at its cap, and one that stops at 0, stay in their range.
LEMMA CountType ==
  ASSUME NEW cap \in Nat, NEW n \in 0..cap
  PROVE  Up(n, cap) \in 0..cap /\ Down(n) \in 0..cap
  BY DEF Up, Down, Least

-----------------------------------------------------------------------------
(* The type invariant.                                                     *)

\* The initial state is well typed.
LEMMA TypeInit == Init => TypeOK
<1> SUFFICES ASSUME Init PROVE TypeOK
  OBVIOUS
<1>1. ControlOK
  BY Zenon DEF Init, ControlOK
<1>2. HoldOK
  BY DEF Init, HoldOK
<1>3. CountsOK
  BY Intervals, Bounds DEF Init, CountsOK, MaxFails
<1> QED
  BY <1>1, <1>2, <1>3 DEF TypeOK

\* Every step keeps the flags and the places of the two threads.
LEMMA ControlStep == ControlOK /\ [Next]_vars => ControlOK'
<1> SUFFICES ASSUME ControlOK, [Next]_vars PROVE ControlOK'
  OBVIOUS
<1> USE DEF ControlOK, vars, main, loop, hold, Goto, Quiet
<1>1. CASE Tick
  BY <1>1 DEF Tick
<1>2. CASE Sleep \/ ResumeBroadcast \/ DeviceBroadcast \/ WaitFails \/ Quit
  BY <1>2 DEF Sleep, ResumeBroadcast, DeviceBroadcast, WaitFails, Quit, MGoto
<1>3. CASE LoopTop \/ WakeSeesQuit \/ ResumeWakes \/ TimerFires \/ PauseEnds
  BY <1>3 DEF LoopTop, WakeSeesQuit, ResumeWakes, TimerFires, PauseEnds, WakeTo
<1>4. CASE ResumeEnds
  BY <1>4 DEF ResumeEnds, Release
<1>5. CASE DeviceCoalesced \/ DevicePolls \/ DeviceUnparks
  BY <1>5 DEF DeviceCoalesced, DevicePolls, DeviceUnparks, TakeDevice, WakeTo
<1>6. CASE PollSeesQuit \/ PollFindsNobody \/ PollTransport \/ PollAudioDead \/ PollDown
  BY <1>6 DEF PollSeesQuit, PollFindsNobody, PollTransport, PollAudioDead, PollDown,
     PollTo
<1>7. CASE PollAudioBlips \/ PollAudioCloses
  BY <1>7 DEF PollAudioBlips, PollAudioCloses, PollHears, PollAudio, PollTo, Release
<1>8. CASE RecoverEnds \/ RecoverRepairs \/ NativeAccepts \/ RecoverSettles \/ RecoverTransport
  BY <1>8 DEF RecoverEnds, RecoverRepairs, NativeAccepts, RecoverSettles,
     RecoverTransport, Recovered
<1>9. CASE PageNotDue \/ PageFails \/ \E s \in Socket : PageStarts(s)
  BY <1>9 DEF PageNotDue, PageFails, PageStarts
<1>10. CASE PageConnects \/ PageRefused \/ PageUnanswered
  BY <1>10 DEF PageConnects, PageRefused, PageUnanswered, PageAnswered
<1>11. CASE RungsPass \/ RungRuns \/ RungSucceeds \/ RungFails
  BY <1>11 DEF RungsPass, RungRuns, RungSucceeds, RungFails
<1>12. CASE ConnectSkipped \/ ConnectPlain \/ ConnectInert \/ ToggleStarts \/ ToggleEnds
  BY <1>12 DEF ConnectSkipped, ConnectPlain, ConnectInert, ToggleStarts, ToggleEnds
<1>13. CASE Main
  BY <1>13 DEF Main, MainSignals, MainJoins, MainEnds, MGoto
<1>14. CASE UNCHANGED vars
  BY <1>14
<1> QED
  BY <1>1, <1>2, <1>3, <1>4, <1>5, <1>6, <1>7, <1>8, <1>9, <1>10, <1>11, <1>12, <1>13,
     <1>14 DEF Next, Loop, Pass

\* Every step keeps the counts in their ranges.
LEMMA CountsStep == CountsOK /\ [Next]_vars => CountsOK'
<1> SUFFICES ASSUME CountsOK, [Next]_vars PROVE CountsOK'
  OBVIOUS
<1> USE Intervals, Bounds DEF CountsOK, vars, loop, wakes, toggle, page, ages, MaxFails
<1> USE DEF Goto, Quiet
<1>1. CASE Tick
  <2>1. waited' \in 0..LongestStay
    BY <1>1 DEF Tick, Sleeping, Calling
  <2>2. CountsOK'
    BY <1>1, <2>1 DEF Tick, Up, Down, Least
  <2> QED
    BY <2>2
<1>2. CASE Sleep \/ ResumeBroadcast \/ DeviceBroadcast \/ WaitFails \/ Quit
  BY <1>2 DEF Sleep, ResumeBroadcast, DeviceBroadcast, WaitFails, Quit, MGoto
<1>3. CASE LoopTop \/ WakeSeesQuit \/ ResumeWakes \/ TimerFires \/ PauseEnds
  BY <1>3 DEF LoopTop, WakeSeesQuit, ResumeWakes, TimerFires, PauseEnds, WakeTo
<1>4. CASE ResumeEnds
  BY <1>4 DEF ResumeEnds
<1>5. CASE DeviceCoalesced \/ DevicePolls \/ DeviceUnparks
  BY <1>5 DEF DeviceCoalesced, DevicePolls, DeviceUnparks, TakeDevice, WakeTo
<1>6. CASE PollSeesQuit \/ PollFindsNobody \/ PollTransport \/ PollAudioDead \/ PollDown
  BY <1>6 DEF PollSeesQuit, PollFindsNobody, PollTransport, PollAudioDead, PollDown,
     PollTo
<1>7. CASE PollAudioBlips \/ PollAudioCloses
  BY <1>7 DEF PollAudioBlips, PollAudioCloses, PollHears, PollAudio, PollTo, Up, Least
<1>8. CASE RecoverEnds \/ RecoverRepairs \/ NativeAccepts \/ RecoverSettles \/ RecoverTransport
  BY <1>8 DEF RecoverEnds, RecoverRepairs, NativeAccepts, RecoverSettles,
     RecoverTransport, Recovered, Stamp, Wait
<1>9. CASE PageNotDue \/ PageFails \/ \E s \in Socket : PageStarts(s)
  BY <1>9 DEF PageNotDue, PageFails, PageStarts
<1>10. CASE PageConnects \/ PageRefused \/ PageUnanswered
  BY <1>10 DEF PageConnects, PageRefused, PageUnanswered, PageAnswered, Wait
<1>11. CASE RungsPass \/ RungRuns \/ RungSucceeds \/ RungFails
  BY <1>11 DEF RungsPass, RungRuns, RungSucceeds, RungFails, Stamp, Wait
<1>12. CASE ConnectSkipped \/ ConnectPlain \/ ConnectInert \/ ToggleStarts \/ ToggleEnds
  BY <1>12 DEF ConnectSkipped, ConnectPlain, ConnectInert, ToggleStarts, ToggleEnds,
     Stamp, Wait, Up, Least
<1>13. CASE Main
  BY <1>13 DEF Main, MainSignals, MainJoins, MainEnds, MGoto
<1>14. CASE UNCHANGED vars
  BY <1>14
<1> QED
  BY <1>1, <1>2, <1>3, <1>4, <1>5, <1>6, <1>7, <1>8, <1>9, <1>10, <1>11, <1>12, <1>13,
     <1>14 DEF Next, Loop, Pass

\* The other actions touch neither the hold nor the sockets, and a page is
\* neither begun nor ended by them.
LEMMA HoldOnlyThere ==
  ASSUME [Next]_vars
  PROVE  \/ UNCHANGED hold /\ (wpc' = "paging" <=> wpc = "paging")
         \/ Sleep \/ ResumeEnds \/ PollAudioCloses
         \/ \E s \in Socket : PageStarts(s)
         \/ PageConnects \/ PageRefused \/ PageUnanswered
<1> USE DEF vars, Quiet, Goto
<1>1. CASE Tick \/ ResumeBroadcast \/ DeviceBroadcast \/ WaitFails \/ Quit \/ Main
  BY <1>1 DEF Tick, ResumeBroadcast, DeviceBroadcast, WaitFails, Quit, Main, MainSignals,
     MainJoins, MainEnds, MGoto
<1>2. CASE Loop /\ ~ResumeEnds
  BY <1>2 DEF Loop, WakeTo, LoopTop, WakeSeesQuit, ResumeWakes, TimerFires, PauseEnds,
     DeviceCoalesced, DevicePolls, DeviceUnparks, TakeDevice
<1>3. CASE PollSeesQuit \/ PollFindsNobody \/ PollTransport \/ PollAudioDead \/ PollDown
           \/ PollAudioBlips
  BY <1>3 DEF PollSeesQuit, PollFindsNobody, PollTransport, PollAudioDead, PollDown,
     PollAudioBlips, PollHears, PollTo
<1>4. CASE RecoverEnds \/ RecoverRepairs \/ NativeAccepts \/ RecoverSettles
           \/ RecoverTransport \/ PageNotDue
  BY <1>4 DEF RecoverEnds, RecoverRepairs, NativeAccepts, RecoverSettles,
     RecoverTransport, PageNotDue, Recovered
<1>5. CASE PageFails \/ RungsPass \/ RungRuns \/ RungSucceeds \/ RungFails
  BY <1>5 DEF PageFails, RungsPass, RungRuns, RungSucceeds, RungFails
<1>6. CASE ConnectSkipped \/ ConnectPlain \/ ConnectInert \/ ToggleStarts \/ ToggleEnds
  BY <1>6 DEF ConnectSkipped, ConnectPlain, ConnectInert, ToggleStarts, ToggleEnds
<1> QED
  BY <1>1, <1>2, <1>3, <1>4, <1>5, <1>6 DEF Next, Pass

\* Every step keeps the types of the hold and of the sockets.
LEMMA HoldStep == HoldOK /\ [Next]_vars => HoldOK'
<1> SUFFICES ASSUME HoldOK, [Next]_vars PROVE HoldOK'
  OBVIOUS
<1> USE DEF HoldOK, vars, hold
<1>1. CASE UNCHANGED hold
  BY <1>1
<1>2. CASE Sleep
  BY <1>2 DEF Sleep
<1>3. CASE ResumeEnds \/ PollAudioCloses
  BY <1>3 DEF ResumeEnds, PollAudioCloses, Release
<1>4. CASE \E s \in Socket : PageStarts(s)
  BY <1>4 DEF PageStarts
<1>5. CASE PageConnects \/ PageRefused \/ PageUnanswered
  BY <1>5 DEF PageConnects, PageRefused, PageUnanswered, Fresh
<1> QED
  BY <1>1, <1>2, <1>3, <1>4, <1>5, HoldOnlyThere

\* Type correctness: SharedState, the events and the history keep their ranges.
THEOREM TypeCorrect == Spec => []TypeOK
<1>1. Init => TypeOK
  BY TypeInit
<1>2. TypeOK /\ [Next]_vars => TypeOK'
  BY ControlStep, HoldStep, CountsStep DEF TypeOK
<1> QED
  BY <1>1, <1>2, PTL DEF Spec
-----------------------------------------------------------------------------
(* The sockets.                                                            *)

HeldOne == IF held = NoSocket THEN {} ELSE {held}

\* Between the attempts the hold is all there is, and an attempt adds one.
SocketsInv ==
  IF wpc = "paging" THEN \E s \in Socket \ HeldOne : open = HeldOne \cup {s}
  ELSE open = HeldOne

HoldInv == HoldOK /\ SocketsInv

\* An attempt that ends leaves nothing of its own but the socket it stores.
LEMMA SocketsStep == HoldInv /\ [Next]_vars => HoldInv'
<1> SUFFICES ASSUME HoldInv, [Next]_vars PROVE SocketsInv'
  BY HoldStep DEF HoldInv
<1> USE Intervals DEF HoldInv, HoldOK, SocketsInv, HeldOne, hold
<1>1. CASE UNCHANGED hold /\ (wpc' = "paging" <=> wpc = "paging")
  BY <1>1
<1>2. CASE Sleep
  BY <1>2 DEF Sleep
<1>3. CASE ResumeEnds \/ PollAudioCloses
  BY <1>3 DEF ResumeEnds, PollAudioCloses, PollHears, PollTo, Release, Goto
<1>4. ASSUME NEW s \in Socket, PageStarts(s) PROVE SocketsInv'
  BY <1>4 DEF PageStarts, Goto
<1>5. CASE PageConnects
  <2>1. PICK s \in Socket \ HeldOne : open = HeldOne \cup {s}
    BY <1>5 DEF PageConnects, PageAnswered, Goto
  <2>2. held' = s
    BY <1>5, <2>1 DEF PageConnects, Fresh
  <2> QED
    BY <1>5, <2>2 DEF PageConnects, PageAnswered, Goto
<1>6. CASE PageRefused \/ PageUnanswered
  <2>1. PICK s \in Socket \ HeldOne : open = HeldOne \cup {s}
    BY <1>6 DEF PageRefused, PageUnanswered, PageAnswered, Goto
  <2>2. open \ Fresh = HeldOne
    BY <2>1 DEF Fresh
  <2> QED
    BY <1>6, <2>2 DEF PageRefused, PageUnanswered, PageAnswered, Goto
<1> QED
  BY <1>1, <1>2, <1>3, <1>4, <1>5, <1>6, HoldOnlyThere

\* Initially there are no sockets.
LEMMA SocketsInit == Init => HoldInv
  BY DEF Init, HoldInv, HoldOK, SocketsInv, HeldOne

\* NoSocketLeaks: outside an attempt the held page socket is the only open one.
THEOREM SocketsNeverLeak == Spec => []NoSocketLeaks
<1>1. HoldInv => NoSocketLeaks
  BY Intervals DEF HoldInv, HoldOK, SocketsInv, HeldOne, NoSocketLeaks
<1> QED
  BY <1>1, SocketsInit, SocketsStep, PTL DEF Spec

\* HoldIsKept: the last socket is only closed after a sleep or for good audio.
THEOREM HoldOutlivesPages == Spec => HoldIsKept
<1> DEFINE Inv == TypeOK /\ HoldInv
<1>1. Inv /\ Inv' /\ [Next]_vars
        => [held # NoSocket /\ open' = {} => wpc = "resume" \/ stable' = StablePolls]_vars
  <2> SUFFICES ASSUME Inv, Inv', [Next]_vars, held # NoSocket, open' = {}
               PROVE  wpc = "resume" \/ stable' = StablePolls
    OBVIOUS
  <2> USE Intervals DEF HoldInv, HoldOK, SocketsInv, HeldOne, hold
  <2>1. held \in open
    OBVIOUS
  <2>2. CASE UNCHANGED hold
    BY <2>1, <2>2
  <2>3. CASE Sleep
    BY <2>1, <2>3 DEF Sleep
  <2>4. CASE ResumeEnds
    BY <2>4 DEF ResumeEnds, Goto
  <2>5. CASE PollAudioCloses
    BY <2>5 DEF PollAudioCloses, TypeOK, CountsOK
  <2>6. CASE \E s \in Socket : PageStarts(s)
    BY <2>6 DEF PageStarts
  <2>7. CASE PageConnects \/ PageRefused \/ PageUnanswered
    BY <2>1, <2>7 DEF PageConnects, PageRefused, PageUnanswered, Fresh
  <2> QED
    BY <2>2, <2>3, <2>4, <2>5, <2>6, <2>7, HoldOnlyThere
<1>2. Spec => []HoldInv
  BY SocketsInit, SocketsStep, PTL DEF Spec
<1> QED
  BY <1>1, <1>2, TypeCorrect, PTL DEF Spec, HoldIsKept

-----------------------------------------------------------------------------
(* The hold and the sleep.                                                 *)

\* Only a sleep makes a socket stale, and it owes the broadcast; the wake that takes
\* the event leads to the step that drops the hold, with no attempt under way.
FreshInv == stale # {} => slept \/ resume \/ wpc = "resume" \/ ~running

\* A step that is not the end of a resume leaves no more stale sockets than there
\* were, unless it is a sleep.
LEMMA StaleOnlyThere ==
  ASSUME HoldOK, [Next]_vars, ~Sleep, ~ResumeEnds
  PROVE  stale' \subseteq stale
<1> USE DEF HoldOK, hold
<1>1. CASE UNCHANGED hold
  BY <1>1
<1>2. CASE PollAudioCloses \/ \E s \in Socket : PageStarts(s)
  BY <1>2 DEF PollAudioCloses, Release, PageStarts
<1>3. CASE PageConnects \/ PageRefused \/ PageUnanswered
  BY <1>3 DEF PageConnects, PageRefused, PageUnanswered
<1> QED
  BY <1>1, <1>2, <1>3, HoldOnlyThere

\* Every step keeps FreshInv.
LEMMA FreshStep == ControlOK /\ HoldInv /\ FreshInv /\ [Next]_vars => FreshInv'
<1> SUFFICES ASSUME ControlOK, HoldInv, FreshInv, [Next]_vars PROVE FreshInv'
  OBVIOUS
<1> DEFINE Owed == slept \/ resume \/ wpc = "resume" \/ ~running
<1> USE DEF ControlOK
<1>1. CASE Sleep
  BY <1>1 DEF Sleep, FreshInv
<1>2. CASE ResumeEnds
  <2>1. stale \subseteq HeldOne
    BY <1>2 DEF HoldInv, HoldOK, SocketsInv, ResumeEnds, Goto
  <2>2. stale' = {}
    BY <1>2, <2>1 DEF ResumeEnds, Release, HeldOne
  <2> QED
    BY <2>2 DEF FreshInv
<1>3. CASE ~Sleep /\ ~ResumeEnds
  <2>1. stale' \subseteq stale
    BY <1>3, StaleOnlyThere DEF HoldInv
  <2>2. Owed => Owed'
    <3> USE DEF vars, main, Goto, MGoto, Quiet
    <3>1. CASE Tick \/ ResumeBroadcast \/ DeviceBroadcast \/ WaitFails \/ Quit \/ Main
      BY <3>1 DEF Tick, ResumeBroadcast, DeviceBroadcast, WaitFails, Quit, Main,
         MainSignals, MainJoins, MainEnds
    <3>2. CASE Loop
      BY <1>3, <3>2 DEF Loop, LoopTop, WakeSeesQuit, ResumeWakes, TimerFires, PauseEnds,
         DeviceCoalesced, DevicePolls, DeviceUnparks, TakeDevice, WakeTo
    <3>3. CASE PollSeesQuit \/ PollFindsNobody \/ PollTransport \/ PollAudioDead
               \/ PollDown \/ PollAudioBlips \/ PollAudioCloses
      BY <3>3 DEF PollSeesQuit, PollFindsNobody, PollTransport, PollAudioDead, PollDown,
         PollAudioBlips, PollAudioCloses, PollHears, PollTo
    <3>4. CASE RecoverEnds \/ RecoverRepairs \/ NativeAccepts \/ RecoverSettles
               \/ RecoverTransport \/ PageNotDue
      BY <3>4 DEF RecoverEnds, RecoverRepairs, NativeAccepts, RecoverSettles,
         RecoverTransport, PageNotDue, Recovered
    <3>5. CASE PageFails \/ (\E s \in Socket : PageStarts(s)) \/ PageConnects
               \/ PageRefused \/ PageUnanswered
      BY <3>5 DEF PageFails, PageStarts, PageConnects, PageRefused, PageUnanswered,
         PageAnswered
    <3>6. CASE RungsPass \/ RungRuns \/ RungSucceeds \/ RungFails
      BY <3>6 DEF RungsPass, RungRuns, RungSucceeds, RungFails
    <3>7. CASE ConnectSkipped \/ ConnectPlain \/ ConnectInert \/ ToggleStarts \/ ToggleEnds
      BY <3>7 DEF ConnectSkipped, ConnectPlain, ConnectInert, ToggleStarts, ToggleEnds
    <3>8. CASE UNCHANGED vars
      BY <3>8
    <3> QED
      BY <1>3, <3>1, <3>2, <3>3, <3>4, <3>5, <3>6, <3>7, <3>8 DEF Next, Pass
  <2> QED
    BY <2>1, <2>2 DEF FreshInv
<1> QED
  BY <1>1, <1>2, <1>3

\* HoldIsFresh: once the broadcast of a resume has been handled, nothing is held that
\* was open before the sleep, in whatever pass or page the sleep came.
THEOREM HoldsAreFresh == Spec => []HoldIsFresh
<1>1. Init => FreshInv
  BY DEF Init, FreshInv
<1>2. FreshInv => HoldIsFresh
  BY DEF FreshInv, HoldIsFresh
<1>3. Spec => []HoldInv
  BY SocketsInit, SocketsStep, PTL DEF Spec
<1>4. Spec => []ControlOK
  BY TypeInit, ControlStep, PTL DEF Spec, TypeOK
<1> QED
  BY <1>1, <1>2, <1>3, <1>4, FreshStep, PTL DEF Spec

-----------------------------------------------------------------------------
(* The pace of the driver re-installs.                                     *)

\* Until the echo time is over since a re-install, its own stamps are at least
\* as young, so no event is news, and none cancels the rate limit.
ToggleInv == sinceToggle < Spacing => churnAge <= sinceToggle /\ toggleAge <= sinceToggle

\* Every step keeps ToggleInv.
LEMMA ToggleStep == CountsOK /\ ToggleInv /\ [Next]_vars => ToggleInv'
<1> SUFFICES ASSUME CountsOK, ToggleInv, [Next]_vars PROVE ToggleInv'
  OBVIOUS
<1> USE Intervals, Bounds DEF ToggleInv, CountsOK, vars, toggle, ages, Quiet
<1>1. CASE Tick
  BY <1>1 DEF Tick, Up, Least
<1>2. CASE Sleep \/ ResumeBroadcast \/ DeviceBroadcast \/ WaitFails \/ Quit \/ Main
  BY <1>2 DEF Sleep, ResumeBroadcast, DeviceBroadcast, WaitFails, Quit, Main, MainSignals,
     MainJoins, MainEnds
<1>3. CASE LoopTop \/ WakeSeesQuit \/ ResumeWakes \/ ResumeEnds \/ TimerFires \/ PauseEnds
  BY <1>3 DEF LoopTop, WakeSeesQuit, ResumeWakes, ResumeEnds, TimerFires, PauseEnds
<1>4. CASE DeviceCoalesced \/ DevicePolls \/ DeviceUnparks
  BY <1>4 DEF DeviceCoalesced, DevicePolls, DeviceUnparks, TakeDevice, MayUnpark
<1>5. CASE PollSeesQuit \/ PollFindsNobody \/ PollTransport \/ PollAudioDead \/ PollDown
  BY <1>5 DEF PollSeesQuit, PollFindsNobody, PollTransport, PollAudioDead, PollDown,
     PollTo
<1>6. CASE PollAudioBlips \/ PollAudioCloses
  BY <1>6 DEF PollAudioBlips, PollAudioCloses, PollHears, PollAudio, PollTo
<1>7. CASE RecoverEnds \/ RecoverRepairs \/ NativeAccepts \/ RecoverSettles
           \/ RecoverTransport \/ PageNotDue
  BY <1>7 DEF RecoverEnds, RecoverRepairs, NativeAccepts, RecoverSettles,
     RecoverTransport, PageNotDue, Stamp
<1>8. CASE PageFails \/ (\E s \in Socket : PageStarts(s)) \/ PageConnects \/ PageRefused
           \/ PageUnanswered
  BY <1>8 DEF PageFails, PageStarts, PageConnects, PageRefused, PageUnanswered,
     PageAnswered
<1>9. CASE RungsPass \/ RungRuns \/ RungSucceeds \/ RungFails
  BY <1>9 DEF RungsPass, RungRuns, RungSucceeds, RungFails, Stamp
<1>10. CASE ConnectSkipped \/ ConnectPlain \/ ConnectInert \/ ToggleStarts \/ ToggleEnds
  BY <1>10 DEF ConnectSkipped, ConnectPlain, ConnectInert, ToggleStarts, ToggleEnds,
     Stamp
<1>11. CASE UNCHANGED vars
  BY <1>11
<1> QED
  BY <1>1, <1>2, <1>3, <1>4, <1>5, <1>6, <1>7, <1>8, <1>9, <1>10, <1>11
  DEF Next, Loop, Pass

\* ToggleSpacing: two re-installs are an echo time apart, unless a resume was
\* handled in between.
THEOREM TogglesAreSpaced == Spec => ToggleSpacing
<1>1. CountsOK /\ ToggleInv => [ToggleStarts => sinceToggle >= Spacing]_vars
  <2> SUFFICES ASSUME CountsOK, ToggleInv, ToggleStarts PROVE sinceToggle >= Spacing
    OBVIOUS
  <2> USE Intervals, Bounds DEF CountsOK
  <2>1. ToggleInterval >= ToggleMin
    BY DEF ToggleInterval, Least
  <2>2. toggleAge >= ToggleMin
    BY <2>1 DEF ToggleStarts, ShouldToggle, ToggleInterval, Least
  <2> QED
    BY <2>2 DEF ToggleInv
<1>2. Init => CountsOK /\ ToggleInv
  BY TypeInit, Bounds DEF TypeOK, Init, ToggleInv
<1> QED
  BY <1>1, <1>2, CountsStep, ToggleStep, PTL DEF Spec, ToggleSpacing

-----------------------------------------------------------------------------
(* The settle time of an answered page.                                    *)

\* The deadline and the time since the answer add up, and a pass that has got
\* past the deadline found it expired.
SettleInv ==
  /\ answered < Settle => settle + answered = Settle
  /\ wpc \in {"paging", "rungs", "churning", "connect", "toggling"} => answered = Settle

\* Every step keeps SettleInv.
LEMMA SettleStep == CountsOK /\ SettleInv /\ [Next]_vars => SettleInv'
<1> SUFFICES ASSUME CountsOK, SettleInv, [Next]_vars PROVE SettleInv'
  OBVIOUS
<1> USE Intervals, Bounds DEF SettleInv, CountsOK, vars, page, ages, Quiet, Goto, MGoto
<1>1. CASE Tick
  BY <1>1 DEF Tick, Up, Down, Least
<1>2. CASE Sleep \/ ResumeBroadcast \/ DeviceBroadcast \/ WaitFails \/ Quit \/ Main
  BY <1>2 DEF Sleep, ResumeBroadcast, DeviceBroadcast, WaitFails, Quit, Main, MainSignals,
     MainJoins, MainEnds
<1>3. CASE LoopTop \/ WakeSeesQuit \/ ResumeWakes \/ ResumeEnds \/ TimerFires \/ PauseEnds
  BY <1>3 DEF LoopTop, WakeSeesQuit, ResumeWakes, ResumeEnds, TimerFires, PauseEnds,
     WakeTo
<1>4. CASE DeviceCoalesced \/ DevicePolls \/ DeviceUnparks
  BY <1>4 DEF DeviceCoalesced, DevicePolls, DeviceUnparks, TakeDevice, WakeTo
<1>5. CASE PollSeesQuit \/ PollFindsNobody \/ PollTransport \/ PollAudioDead \/ PollDown
           \/ PollAudioBlips \/ PollAudioCloses
  BY <1>5 DEF PollSeesQuit, PollFindsNobody, PollTransport, PollAudioDead, PollDown,
     PollAudioBlips, PollAudioCloses, PollHears, PollTo
<1>6. CASE RecoverEnds \/ RecoverRepairs \/ NativeAccepts \/ RecoverSettles
  BY <1>6 DEF RecoverEnds, RecoverRepairs, NativeAccepts, RecoverSettles, Recovered
<1>7. CASE RecoverTransport \/ PageNotDue \/ PageFails \/ \E s \in Socket : PageStarts(s)
  BY <1>7 DEF RecoverTransport, PageNotDue, PageFails, PageStarts, PageSettling
<1>8. CASE PageConnects \/ PageRefused \/ PageUnanswered
  BY <1>8 DEF PageConnects, PageRefused, PageUnanswered, PageAnswered
<1>9. CASE RungsPass \/ RungRuns \/ RungSucceeds \/ RungFails
  BY <1>9 DEF RungsPass, RungRuns, RungSucceeds, RungFails
<1>10. CASE ConnectSkipped \/ ConnectPlain \/ ConnectInert \/ ToggleStarts \/ ToggleEnds
  BY <1>10 DEF ConnectSkipped, ConnectPlain, ConnectInert, ToggleStarts, ToggleEnds
<1>11. CASE UNCHANGED vars
  BY <1>11
<1> QED
  BY <1>1, <1>2, <1>3, <1>4, <1>5, <1>6, <1>7, <1>8, <1>9, <1>10, <1>11
  DEF Next, Loop, Pass

\* SettleProtects: no rung and no connect within the settle time of a page.
THEOREM SettlingIsRespected == Spec => SettleProtects
<1>1. CountsOK /\ SettleInv
        => [RungRuns \/ ToggleStarts \/ ConnectPlain \/ ConnectInert
              => answered >= Settle]_vars
  BY Intervals DEF CountsOK, SettleInv, RungRuns, ToggleStarts, ConnectPlain,
     ConnectInert, Goto
<1>2. Init => CountsOK /\ SettleInv
  BY TypeInit, Intervals DEF TypeOK, Init, SettleInv
<1> QED
  BY <1>1, <1>2, CountsStep, SettleStep, PTL DEF Spec, SettleProtects

-----------------------------------------------------------------------------
(* The time between two polls.                                             *)

\* A failed wait adds its pause, once between two polls.
Paused == IF failed THEN Poll ELSE 0

\* Where a device event may send the worker back to its wait, the last poll is
\* as recent as the last accepted event; from then on each place adds its own
\* time to the time since the poll.
PollsInv ==
  /\ wpc \notin {"poll", "exit"} => sincePoll <= wakeAge \/ wakeAge = Debounce
  /\ wpc = "top" => sincePoll < Debounce + Paused
  /\ wpc = "wait" => waited <= timeout /\ sincePoll < Debounce + Paused + waited
  /\ wpc = "paused" => failed /\ waited <= Poll /\ sincePoll < Debounce + waited
  /\ wpc = "resume" =>
       waited <= ResumeDelay /\ sincePoll < Debounce + Poll + Idle + waited
  /\ wpc \in {"poll", "exit"} => sincePoll < PollBound
  /\ wpc \in {"recover", "recoverUp", "paging", "rungs", "churning", "connect", "toggling"}
       => sincePoll = 0

\* Every step keeps PollsInv.
LEMMA PollsStep == CountsOK /\ PollsInv /\ [Next]_vars => PollsInv'
<1> SUFFICES ASSUME CountsOK, PollsInv, [Next]_vars PROVE PollsInv'
  OBVIOUS
<1> USE Intervals, Bounds DEF PollsInv, Paused, CountsOK, vars, loop, wakes, ages
<1> USE DEF Quiet, Goto, MGoto
<1>1. CASE Tick
  BY <1>1 DEF Tick, Sleeping, Calling, Up, Least
<1>2. CASE Sleep \/ ResumeBroadcast \/ DeviceBroadcast \/ WaitFails \/ Quit \/ Main
  BY <1>2 DEF Sleep, ResumeBroadcast, DeviceBroadcast, WaitFails, Quit, Main, MainSignals,
     MainJoins, MainEnds
<1>3. CASE LoopTop \/ WakeSeesQuit \/ ResumeWakes \/ ResumeEnds \/ TimerFires \/ PauseEnds
  BY <1>3 DEF LoopTop, WakeSeesQuit, ResumeWakes, ResumeEnds, TimerFires, PauseEnds,
     WakeTo
<1>4. CASE DeviceCoalesced \/ DevicePolls \/ DeviceUnparks
  BY <1>4 DEF DeviceCoalesced, DevicePolls, DeviceUnparks, TakeDevice, WakeTo
<1>5. CASE PollSeesQuit \/ PollFindsNobody \/ PollTransport \/ PollAudioDead \/ PollDown
           \/ PollAudioBlips \/ PollAudioCloses
  BY <1>5 DEF PollSeesQuit, PollFindsNobody, PollTransport, PollAudioDead, PollDown,
     PollAudioBlips, PollAudioCloses, PollHears, PollTo
<1>6. CASE RecoverEnds \/ RecoverRepairs \/ NativeAccepts \/ RecoverSettles
           \/ RecoverTransport \/ PageNotDue
  BY <1>6 DEF RecoverEnds, RecoverRepairs, NativeAccepts, RecoverSettles,
     RecoverTransport, PageNotDue, Recovered
<1>7. CASE PageFails \/ (\E s \in Socket : PageStarts(s)) \/ PageConnects \/ PageRefused
           \/ PageUnanswered
  BY <1>7 DEF PageFails, PageStarts, PageConnects, PageRefused, PageUnanswered,
     PageAnswered
<1>8. CASE RungsPass \/ RungRuns \/ RungSucceeds \/ RungFails
  BY <1>8 DEF RungsPass, RungRuns, RungSucceeds, RungFails
<1>9. CASE ConnectSkipped \/ ConnectPlain \/ ConnectInert \/ ToggleStarts \/ ToggleEnds
  BY <1>9 DEF ConnectSkipped, ConnectPlain, ConnectInert, ToggleStarts, ToggleEnds
<1>10. CASE UNCHANGED vars
  BY <1>10
<1> QED
  BY <1>1, <1>2, <1>3, <1>4, <1>5, <1>6, <1>7, <1>8, <1>9, <1>10
  DEF Next, Loop, Pass

\* PollsKeepComing: neither a storm of device events nor a failed wait, nor both
\* around a resume, keeps the worker from its poll for longer than PollBound.
THEOREM PollsAreBounded == Spec => []PollsKeepComing
<1>1. CountsOK /\ PollsInv /\ ControlOK => PollsKeepComing
  BY Intervals, Bounds DEF CountsOK, PollsInv, Paused, ControlOK, PollsKeepComing
<1>2. Init => CountsOK /\ PollsInv
  BY TypeInit, Intervals DEF TypeOK, Init, PollsInv, Paused
<1>3. Spec => []ControlOK
  BY TypeInit, ControlStep, PTL DEF Spec, TypeOK
<1> QED
  BY <1>1, <1>2, <1>3, CountsStep, PollsStep, PTL DEF Spec

-----------------------------------------------------------------------------
(* The quit.                                                               *)

\* After the quit the resume event stays set, so the worker does not sleep in its
\* wait any more; only a pause or a resume delay already begun is slept out, and
\* the top of the loop, the poll and the resume all lead out.
QuitInv ==
  /\ running <=> mpc = "pump"
  /\ mpc \in {"pump", "signal"} => quitAge = 0
  /\ mpc \in {"join", "keepalive", "done"} => resume
  /\ wpc \in {"paused", "resume"} =>
       quitAge <= waited /\ waited <= IF wpc = "paused" THEN Poll ELSE ResumeDelay
  /\ wpc \in {"top", "poll", "exit"} => quitAge <= QuitBound
  /\ wpc \notin {"paused", "resume", "top", "poll", "exit"} => quitAge = 0

\* Every step keeps QuitInv.
LEMMA QuitStep == ControlOK /\ CountsOK /\ QuitInv /\ [Next]_vars => QuitInv'
<1> SUFFICES ASSUME ControlOK, CountsOK, QuitInv, [Next]_vars PROVE QuitInv'
  OBVIOUS
<1> USE Intervals, Bounds DEF QuitInv, ControlOK, CountsOK, vars, main, loop, ages
<1> USE DEF Quiet, Goto, MGoto
<1>1. CASE Tick
  BY <1>1 DEF Tick, Sleeping, Calling, Up, Least
<1>2. CASE Sleep \/ ResumeBroadcast \/ DeviceBroadcast \/ WaitFails \/ Quit \/ Main
  BY <1>2 DEF Sleep, ResumeBroadcast, DeviceBroadcast, WaitFails, Quit, Main, MainSignals,
     MainJoins, MainEnds
<1>3. CASE LoopTop \/ WakeSeesQuit \/ ResumeWakes \/ ResumeEnds \/ TimerFires \/ PauseEnds
  BY <1>3 DEF LoopTop, WakeSeesQuit, ResumeWakes, ResumeEnds, TimerFires, PauseEnds,
     WakeTo
<1>4. CASE DeviceCoalesced \/ DevicePolls \/ DeviceUnparks
  BY <1>4 DEF DeviceCoalesced, DevicePolls, DeviceUnparks, TakeDevice, WakeTo
<1>5. CASE PollSeesQuit \/ PollFindsNobody \/ PollTransport \/ PollAudioDead \/ PollDown
           \/ PollAudioBlips \/ PollAudioCloses
  BY <1>5 DEF PollSeesQuit, PollFindsNobody, PollTransport, PollAudioDead, PollDown,
     PollAudioBlips, PollAudioCloses, PollHears, PollTo
<1>6. CASE RecoverEnds \/ RecoverRepairs \/ NativeAccepts \/ RecoverSettles
           \/ RecoverTransport \/ PageNotDue
  BY <1>6 DEF RecoverEnds, RecoverRepairs, NativeAccepts, RecoverSettles,
     RecoverTransport, PageNotDue, Recovered
<1>7. CASE PageFails \/ (\E s \in Socket : PageStarts(s)) \/ PageConnects \/ PageRefused
           \/ PageUnanswered
  BY <1>7 DEF PageFails, PageStarts, PageConnects, PageRefused, PageUnanswered,
     PageAnswered
<1>8. CASE RungsPass \/ RungRuns \/ RungSucceeds \/ RungFails
  BY <1>8 DEF RungsPass, RungRuns, RungSucceeds, RungFails
<1>9. CASE ConnectSkipped \/ ConnectPlain \/ ConnectInert \/ ToggleStarts \/ ToggleEnds
  BY <1>9 DEF ConnectSkipped, ConnectPlain, ConnectInert, ToggleStarts, ToggleEnds
<1>10. CASE UNCHANGED vars
  BY <1>10
<1> QED
  BY <1>1, <1>2, <1>3, <1>4, <1>5, <1>6, <1>7, <1>8, <1>9, <1>10
  DEF Next, Loop, Pass

\* QuitIsPrompt: once the pump has ended, the worker never sleeps for longer than
\* the one delay it may be in.
THEOREM QuitsArePrompt == Spec => []QuitIsPrompt
<1>1. CountsOK /\ QuitInv => QuitIsPrompt
  BY Intervals, Bounds DEF CountsOK, QuitInv, QuitIsPrompt
<1>2. Init => TypeOK /\ QuitInv
  BY TypeInit, Intervals, Bounds DEF Init, QuitInv
<1>3. TypeOK /\ QuitInv /\ [Next]_vars => TypeOK' /\ QuitInv'
  BY ControlStep, HoldStep, CountsStep, QuitStep DEF TypeOK
<1> QED
  BY <1>1, <1>2, <1>3, PTL DEF Spec, TypeOK
-----------------------------------------------------------------------------
(* QuitLeadsOut.                                                           *)

\* The numbers of the places the worker can be in.
LEMMA Ways ==
  /\ WayOut("exit") = 0 /\ WayOut("top") = 1
  /\ WayOut("paused") = 2 /\ WayOut("toggling") = 2
  /\ WayOut("wait") = 3 /\ WayOut("resume") = 3 /\ WayOut("poll") = 3
  /\ WayOut("connect") = 3
  /\ WayOut("rungs") = 4 /\ WayOut("churning") = 4
  /\ WayOut("paging") = 5 /\ WayOut("recover") = 6 /\ WayOut("recoverUp") = 6
  BY DEF WayOut

\* With running down, the worker goes along one of these edges or stays.
Edge(from, to) ==
  \/ from = "top" /\ to = "exit"
  \/ from = "wait" /\ to \in {"exit", "paused"}
  \/ from = "paused" /\ to = "top"
  \/ from = "resume" /\ to = "exit"
  \/ from = "poll" /\ to = "exit"
  \/ from \in {"recover", "recoverUp"} /\ to \in {"top", "connect", "rungs", "paging"}
  \/ from = "paging" /\ to \in {"top", "rungs"}
  \/ from = "rungs" /\ to \in {"connect", "churning"}
  \/ from = "churning" /\ to \in {"top", "rungs"}
  \/ from = "connect" /\ to \in {"top", "toggling"}
  \/ from = "toggling" /\ to = "top"

\* Every edge leads out.
LEMMA EdgesLeadOut ==
  ASSUME Edge(wpc, wpc')
  PROVE  LeadsOut
<1>1. ASSUME NEW from, NEW to, Edge(from, to)
      PROVE  WayOut(to) < WayOut(from) \/ {from, to} = {"rungs", "churning"}
  <2>1. CASE from \in {"top", "wait", "paused", "resume", "poll"}
    BY <1>1, <2>1, Ways DEF Edge
  <2>2. CASE from \in {"recover", "recoverUp", "paging"}
    BY <1>1, <2>2, Ways DEF Edge
  <2>3. CASE from \in {"rungs", "churning"}
    BY <1>1, <2>3, Ways DEF Edge
  <2>4. CASE from \in {"connect", "toggling"}
    BY <1>1, <2>4, Ways DEF Edge
  <2> QED
    BY <1>1, <2>1, <2>2, <2>3, <2>4 DEF Edge
<1> QED
  BY <1>1, Zenon DEF LeadsOut

\* A tick lengthens the stay, and no stay is longer than the longest.
LEMMA TickStays ==
  ASSUME CountsOK, Tick
  PROVE  LeadsOut
<1>1. wpc' = wpc /\ waited' = waited + 1
  BY DEF Tick
<1>2. waited < timeout \/ waited < ResumeDelay \/ waited < Poll \/ waited < CallMax
  BY DEF Tick, Sleeping, Calling
<1>3. timeout <= LongestStay /\ ResumeDelay <= LongestStay /\ Poll <= LongestStay
      /\ CallMax <= LongestStay
  BY Intervals, Bounds DEF CountsOK
<1>4. waited \in Nat /\ LongestStay \in Nat /\ timeout \in Nat
  BY Intervals, Bounds DEF CountsOK
<1>5. waited + 1 <= LongestStay
  BY <1>2, <1>3, <1>4, Intervals
<1> QED
  BY <1>1, <1>5, Zenon DEF LeadsOut

\* Every step after the quit leads out.
LEMMA QuitStepLeadsOut ==
  ASSUME CountsOK, [Next]_vars, ~running
  PROVE  LeadsOut
<1>1. CASE Tick
  BY <1>1, TickStays
<1>2. CASE Sleep \/ ResumeBroadcast \/ DeviceBroadcast \/ Quit \/ Main \/ UNCHANGED vars
  BY <1>2 DEF LeadsOut, Sleep, ResumeBroadcast, DeviceBroadcast, Quit, Main, MainSignals, MainJoins,
     MainEnds, loop, vars
<1>3. CASE WaitFails \/ Loop
  <2>1. Edge(wpc, wpc')
    BY <1>3 DEF Edge, WaitFails, Loop, LoopTop, WakeSeesQuit, ResumeWakes, ResumeEnds,
       DeviceCoalesced, DevicePolls, DeviceUnparks, TakeDevice, WakeTo, TimerFires, PauseEnds,
       Goto
  <2> QED
    BY <2>1, EdgesLeadOut
<1>4. CASE Pass
  <2>1. CASE PollSeesQuit \/ PollFindsNobody \/ PollAudioBlips \/ PollAudioCloses
             \/ PollTransport \/ PollAudioDead \/ PollDown
    BY <2>1, EdgesLeadOut DEF Edge, PollSeesQuit, PollFindsNobody, PollAudioBlips,
       PollAudioCloses, PollHears, PollTransport, PollAudioDead, PollDown, PollTo, Goto
  <2>2. CASE RecoverEnds \/ RecoverRepairs \/ NativeAccepts \/ RecoverSettles
             \/ RecoverTransport \/ PageNotDue \/ PageFails
             \/ \E s \in Socket : PageStarts(s)
    BY <2>2, EdgesLeadOut DEF Edge, RecoverEnds, RecoverRepairs, NativeAccepts, RecoverSettles,
       RecoverTransport, PageNotDue, PageFails, PageStarts, Recovered, Goto
  <2>3. CASE PageConnects \/ PageRefused \/ PageUnanswered \/ RungsPass \/ RungRuns
             \/ RungSucceeds \/ RungFails
    BY <2>3, EdgesLeadOut DEF Edge, PageConnects, PageRefused, PageAnswered, PageUnanswered,
       RungsPass, RungRuns, RungSucceeds, RungFails, Goto
  <2>4. CASE ConnectSkipped \/ ConnectPlain \/ ConnectInert \/ ToggleStarts \/ ToggleEnds
    BY <2>4, EdgesLeadOut DEF Edge, ConnectSkipped, ConnectPlain, ConnectInert, ToggleStarts,
       ToggleEnds, Goto
  <2> QED
    BY <1>4, <2>1, <2>2, <2>3, <2>4, Zenon DEF Pass
<1> QED
  BY <1>1, <1>2, <1>3, <1>4, Zenon DEF Next

\* QuitLeadsOut: once running is down, the worker can only come nearer to its exit.
THEOREM QuitAlwaysLeadsOut == Spec => QuitLeadsOut
<1>1. CountsOK /\ [Next]_vars => [~running => LeadsOut]_vars
  BY QuitStepLeadsOut
<1>2. TypeOK => CountsOK
  BY DEF TypeOK
<1> QED
  BY <1>1, <1>2, TypeCorrect, PTL DEF Spec, QuitLeadsOut
=============================================================================
