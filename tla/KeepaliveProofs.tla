-------------------------- MODULE KeepaliveProofs --------------------------
(***************************************************************************)
(* The safety properties of Keepalive, for any set of threads and any      *)
(* thresholds: one session at a time, and silence once stop has returned.  *)
(***************************************************************************)
EXTENDS Keepalive, TLAPS

\* The failure counters stop at MaxFails.
LEMMA SaturateType ==
  ASSUME NEW n \in 0..MaxFails
  PROVE  Saturate(n) \in 0..MaxFails /\ 0 \in 0..MaxFails
  BY KeepaliveAssumption DEF KeepaliveAssumption, Saturate

-----------------------------------------------------------------------------
(* The type invariant.                                                     *)

\* The initial state is well typed.
LEMMA TypeInit == Init => TypeOK
<1> SUFFICES ASSUME Init PROVE TypeOK
  OBVIOUS
<1>1. 0 \in 0..MaxFails
  BY KeepaliveAssumption DEF KeepaliveAssumption
<1>2. WorkerOK /\ WorldOK
  BY <1>1 DEF Init, WorkerOK, WorldOK
<1>3. "none" \in Place
  BY DEF Place
<1>4. ThreadOK
  BY <1>1, <1>3 DEF Init, ThreadOK
<1> QED
  BY <1>2, <1>4 DEF TypeOK

\* Writing one entry keeps the types of the threads.
LEMMA UpdateType ==
  ASSUME NEW S, NEW f \in [Thread -> S], NEW t \in Thread, NEW v \in S
  PROVE  [f EXCEPT ![t] = v] \in [Thread -> S]
  OBVIOUS

\* Every step of the worker keeps the types.
LEMMA WorkerType == TypeOK /\ Worker => TypeOK'
<1> SUFFICES ASSUME TypeOK, Worker PROVE TypeOK'
  OBVIOUS
<1> USE DEF TypeOK, shared, thread, world, WGoto, CallStop
<1>1. WorldOK'
  BY DEF WorldOK, Worker, SampleOk, SampleTrips, PollFindsNobody, PollConnected,
     PollAudioDead, PollDown, StartFails, StartSpawns, Ready, Recover, WorkerExits,
     StopAsks, StopResets, StopJoins
<1>2. WorkerOK'
  <2> USE DEF WorkerOK
  <2>1. CASE SampleOk \/ SampleTrips \/ Recover \/ WorkerExits
    BY <2>1 DEF SampleOk, SampleTrips, Recover, WorkerExits
  <2>2. CASE PollFindsNobody \/ PollConnected \/ PollAudioDead \/ PollDown
    BY <2>2 DEF PollFindsNobody, PollConnected, PollAudioDead, PollDown
  <2>3. CASE \E t \in Thread : StartSpawns(t)
    BY <2>3 DEF StartSpawns
  <2>4. CASE StartFails \/ Ready \/ StopAsks
    BY <2>4 DEF StartFails, Ready, StopAsks
  <2>5. CASE StopResets \/ StopJoins
    BY <2>5, SaturateType DEF StopResets, StopJoins
  <2> QED
    BY <2>1, <2>2, <2>3, <2>4, <2>5 DEF Worker
<1>3. ThreadOK'
  <2>1. CASE UNCHANGED thread
    BY <2>1 DEF ThreadOK
  <2>2. CASE \E t \in Thread : StartSpawns(t)
    <3> PICK t \in Thread : StartSpawns(t)
      BY <2>2
    <3>1. tpc' = [tpc EXCEPT ![t] = "top"] /\ UNCHANGED <<fails, opened, dev>>
      BY DEF StartSpawns
    <3>2. "top" \in Place
      BY DEF Place
    <3> QED
      BY <3>1, <3>2, UpdateType DEF ThreadOK
  <2>3. CASE StopJoins
    <3>1. "none" \in Place /\ 0 \in 0..MaxFails
      BY KeepaliveAssumption DEF Place, KeepaliveAssumption
    <3>2. UNCHANGED <<opened, dev>>
      BY <2>3 DEF StopJoins
    <3>3. tpc' \in [Thread -> Place] /\ fails' \in [Thread -> 0..MaxFails]
      BY <2>3, <3>1 DEF StopJoins, Joined, ThreadOK
    <3> QED
      BY <3>2, <3>3 DEF ThreadOK
  <2>4. UNCHANGED thread \/ (\E t \in Thread : StartSpawns(t)) \/ StopJoins
    BY DEF Worker, SampleOk, SampleTrips, PollFindsNobody, PollConnected,
       PollAudioDead, PollDown, StartFails, Ready, Recover, WorkerExits, StopAsks,
       StopResets
  <2> QED
    BY <2>1, <2>2, <2>3, <2>4
<1> QED
  BY <1>1, <1>2, <1>3

\* Every step of a render thread keeps the types.
LEMMA RenderType ==
  ASSUME TypeOK, NEW t \in Thread, Render(t)
  PROVE  TypeOK'
<1> DEFINE Dev == {"closed", "open", "prepared", "queued", "done"}
<1> USE DEF worker, shared, world
<1>1. \A n \in 0..MaxFails : Saturate(n) \in 0..MaxFails /\ 0 \in 0..MaxFails
  BY SaturateType
<1>2. WorldOK' /\ UNCHANGED <<wpc, after, handle, watchdog, running, wantRun>>
  BY DEF TypeOK, WorldOK, Render, ThreadExits, BreakerAllows, EndpointMissing,
     EndpointFound, OpenSucceeds, OpenFails, PrepareSucceeds, PrepareFails,
     WriteSucceeds, WriteFails, RaiseFlag, PlayEnds, PlayNaps, PlayGoesOn, Rearm,
     RearmPrepares, RearmFails, DropLowersFlag, DropCloses, Publish
<1>3. streaming' \in {streaming, TRUE, FALSE}
  BY DEF Render, ThreadExits, BreakerAllows, EndpointMissing,
     EndpointFound, OpenSucceeds, OpenFails, PrepareSucceeds, PrepareFails,
     WriteSucceeds, WriteFails, RaiseFlag, PlayEnds, PlayNaps, PlayGoesOn, Rearm,
     RearmPrepares, RearmFails, DropLowersFlag, DropCloses, Publish
<1>4. /\ \E p \in Place : tpc' = [tpc EXCEPT ![t] = p]
      /\ opened' = opened \/ \E b \in BOOLEAN : opened' = [opened EXCEPT ![t] = b]
      /\ dev' = dev \/ \E d \in Dev : dev' = [dev EXCEPT ![t] = d]
  BY DEF Place, Step, Goto, SetOpened, SetDev, Render, ThreadExits, BreakerAllows,
     EndpointMissing, EndpointFound, OpenSucceeds, OpenFails, PrepareSucceeds,
     PrepareFails, WriteSucceeds, WriteFails, RaiseFlag, PlayEnds, PlayNaps, PlayGoesOn,
     Rearm, RearmPrepares, RearmFails, DropLowersFlag, DropCloses, Publish
<1>5. /\ UNCHANGED <<fails, streak>>
      \/ \E n \in {0, Saturate(fails[t])} :
           fails' = [fails EXCEPT ![t] = n] /\ streak' = n
  BY DEF Render, ThreadExits, BreakerAllows, EndpointMissing,
     EndpointFound, OpenSucceeds, OpenFails, PrepareSucceeds, PrepareFails,
     WriteSucceeds, WriteFails, RaiseFlag, PlayEnds, PlayNaps, PlayGoesOn, Rearm,
     RearmPrepares, RearmFails, DropLowersFlag, DropCloses, Publish
<1>6. WorkerOK' /\ fails' \in [Thread -> 0..MaxFails]
  <2>1. fails[t] \in 0..MaxFails
    BY DEF TypeOK, ThreadOK
  <2>2. \A n \in {0, Saturate(fails[t])} : n \in 0..MaxFails
    BY <1>1, <2>1
  <2>3. fails' \in [Thread -> 0..MaxFails] /\ streak' \in 0..MaxFails
    BY <1>5, <2>2, UpdateType DEF TypeOK, WorkerOK, ThreadOK
  <2> QED
    BY <1>2, <1>3, <2>3 DEF TypeOK, WorkerOK
<1>7. ThreadOK'
  <2>1. tpc' \in [Thread -> Place]
    BY <1>4, UpdateType DEF TypeOK, ThreadOK
  <2>2. opened' \in [Thread -> BOOLEAN]
    BY <1>4, UpdateType DEF TypeOK, ThreadOK
  <2>3. dev' \in [Thread -> Dev]
    BY <1>4, UpdateType DEF TypeOK, ThreadOK
  <2> QED
    BY <1>6, <2>1, <2>2, <2>3 DEF ThreadOK
<1> QED
  BY <1>2, <1>6, <1>7 DEF TypeOK

\* Every step of the peer, the audio stack and the user keeps the types.
LEMMA WorldType == TypeOK /\ World => TypeOK'
<1> SUFFICES ASSUME TypeOK, World PROVE TypeOK'
  OBVIOUS
<1> USE DEF TypeOK, worker, shared, thread, world
<1>1. CASE LinkChanges \/ DeviceChanges
  BY <1>1 DEF LinkChanges, DeviceChanges, WorkerOK, ThreadOK, WorldOK
<1>2. CASE Quit
  <2>1. UNCHANGED <<wpc, after, handle, watchdog, shared, thread, world>>
        /\ running' = FALSE
    BY <1>2 DEF Quit
  <2>2. WorkerOK'
    BY <2>1 DEF WorkerOK
  <2>3. ThreadOK' /\ WorldOK'
    BY <2>1 DEF ThreadOK, WorldOK
  <2> QED
    BY <2>2, <2>3
<1>3. CASE \E t \in Thread : DriverFinishes(t)
  <2>1. WorkerOK' /\ WorldOK' /\ UNCHANGED <<tpc, fails, opened>>
    BY <1>3 DEF DriverFinishes, WorkerOK, WorldOK
  <2>2. \E t \in Thread : dev' = [dev EXCEPT ![t] = "done"]
    BY <1>3 DEF DriverFinishes, SetDev
  <2> QED
    BY <2>1, <2>2 DEF ThreadOK
<1> QED
  BY <1>1, <1>2, <1>3 DEF World

\* TypeOK: every variable stays in its range, for any number of threads.
THEOREM TypeCorrect == Spec => []TypeOK
<1>1. TypeOK /\ UNCHANGED vars => TypeOK'
  BY DEF TypeOK, WorkerOK, ThreadOK, WorldOK, vars, worker, shared, thread, world
<1>2. TypeOK /\ [Next]_vars => TypeOK'
  BY <1>1, WorkerType, RenderType, WorldType DEF Next
<1> QED
  BY <1>2, TypeInit, PTL DEF Spec

-----------------------------------------------------------------------------
(* Where a session is open.  A thread that the handle does not name is not *)
(* there at all; the place of the one it names tells whether it holds the  *)
(* device, and the flag is up only in the middle of its session.           *)

Idle == {"none", "top", "resolve", "open", "publish", "exited"}
Flagged == {"write", "flag", "play", "nap", "rearm", "drop"}

OneThread ==
  /\ \A t \in Thread : t # handle => tpc[t] = "none"
  /\ wpc = "start" => handle = NoThread

DeviceFollows == \A t \in Thread : dev[t] = "closed" <=> tpc[t] \in Idle

FlagInSession == streaming => handle \in Thread /\ tpc[handle] \in Flagged

SessionInv == OneThread /\ DeviceFollows /\ FlagInSession

\* The initial state satisfies SessionInv.
LEMMA SessionInit == Init => SessionInv
  BY DEF Init, SessionInv, OneThread, DeviceFollows, FlagInSession, Idle

\* Every step of the worker keeps SessionInv.
LEMMA WorkerSession == TypeOK /\ SessionInv /\ Worker => SessionInv'
<1> SUFFICES ASSUME TypeOK, SessionInv, Worker PROVE SessionInv'
  OBVIOUS
<1> USE DEF TypeOK, ThreadOK, SessionInv, OneThread, DeviceFollows, FlagInSession,
            shared, thread, WGoto, CallStop
<1>1. CASE SampleOk \/ SampleTrips \/ Recover \/ WorkerExits \/ PollFindsNobody
           \/ PollAudioDead \/ PollDown
  <2>1. UNCHANGED <<handle, tpc, dev, streaming>> /\ wpc' # "start"
    BY <1>1 DEF SampleOk, SampleTrips, Recover, WorkerExits, PollFindsNobody,
       PollAudioDead, PollDown
  <2> QED
    BY <2>1
<1>2. CASE PollConnected
  BY <1>2 DEF PollConnected
<1>3. CASE \E t \in Thread : StartSpawns(t)
  BY <1>3, KeepaliveAssumption DEF StartSpawns, Idle, KeepaliveAssumption
<1>4. CASE StartFails \/ Ready \/ StopAsks \/ StopResets
  BY <1>4 DEF StartFails, Ready, StopAsks, StopResets
<1>5. CASE StopJoins
  <2>1. ~streaming
    BY <1>5 DEF StopJoins, Joined, Flagged
  <2>2. \A t \in Thread : tpc'[t] = "none" /\ dev'[t] = dev[t]
    BY <1>5 DEF StopJoins, Joined
  <2>3. \A t \in Thread : tpc[t] \in Idle
    BY <1>5 DEF StopJoins, Joined, Idle
  <2>4. handle' = NoThread /\ streaming' = streaming
    BY <1>5 DEF StopJoins
  <2> QED
    BY <2>1, <2>2, <2>3, <2>4 DEF Idle
<1> QED
  BY <1>1, <1>2, <1>3, <1>4, <1>5 DEF Worker

\* Only the thread that the handle names takes steps.
LEMMA OnlyTheHandle ==
  ASSUME OneThread, NEW t \in Thread, Render(t)
  PROVE  t = handle
<1>1. tpc[t] # "none"
  BY DEF Render, ThreadExits, BreakerAllows, EndpointMissing, EndpointFound,
     OpenSucceeds, OpenFails, PrepareSucceeds, PrepareFails, WriteSucceeds, WriteFails,
     RaiseFlag, PlayEnds, PlayNaps, PlayGoesOn, Rearm, RearmPrepares, RearmFails,
     DropLowersFlag, DropCloses, Publish, Step
<1> QED
  BY <1>1 DEF OneThread

\* Every step of a render thread keeps SessionInv.
LEMMA RenderSession ==
  ASSUME TypeOK, SessionInv, NEW t \in Thread, Render(t)
  PROVE  SessionInv'
<1>1. t = handle /\ handle' = handle /\ wpc' = wpc
  BY OnlyTheHandle DEF SessionInv, Render, worker, ThreadExits, BreakerAllows,
     EndpointMissing, EndpointFound, OpenSucceeds, OpenFails, PrepareSucceeds,
     PrepareFails, WriteSucceeds, WriteFails, RaiseFlag, PlayEnds, PlayNaps, PlayGoesOn,
     Rearm, RearmPrepares, RearmFails, DropLowersFlag, DropCloses, Publish
<1>2. /\ \E p \in Place : tpc' = [tpc EXCEPT ![t] = p]
      /\ \A u \in Thread : u # t => dev'[u] = dev[u]
  BY DEF TypeOK, ThreadOK, Place, Step, Goto, SetDev, Render, ThreadExits, BreakerAllows,
     EndpointMissing, EndpointFound, OpenSucceeds, OpenFails, PrepareSucceeds,
     PrepareFails, WriteSucceeds, WriteFails, RaiseFlag, PlayEnds, PlayNaps, PlayGoesOn,
     Rearm, RearmPrepares, RearmFails, DropLowersFlag, DropCloses, Publish
<1>3. \A u \in Thread : u # t => tpc'[u] = tpc[u]
  BY <1>2 DEF TypeOK, ThreadOK
<1>4. OneThread'
  BY <1>1, <1>3 DEF SessionInv, OneThread
<1>5. /\ dev'[t] = "closed" <=> tpc'[t] \in Idle
      /\ streaming' => tpc'[t] \in Flagged
  <2>1. /\ dev[t] = "closed" <=> tpc[t] \in Idle
        /\ streaming => tpc[t] \in Flagged
        /\ t \in DOMAIN tpc /\ t \in DOMAIN dev
    BY <1>1 DEF TypeOK, ThreadOK, SessionInv, DeviceFollows, FlagInSession
  <2> USE DEF Idle, Flagged, shared, Step, Goto, SetDev
  <2>2. CASE ThreadExits(t) \/ BreakerAllows(t) \/ EndpointMissing(t) \/ EndpointFound(t)
    BY <2>1, <2>2 DEF ThreadExits, BreakerAllows, EndpointMissing, EndpointFound
  <2>3. CASE OpenSucceeds(t) \/ PrepareSucceeds(t)
    <3>1. tpc[t] \in {"open", "prepare"} /\ UNCHANGED streaming
      BY <2>3 DEF OpenSucceeds, PrepareSucceeds
    <3>2. tpc'[t] \in {"prepare", "write"} /\ dev'[t] \in {"open", "prepared"}
      BY <2>1, <2>3 DEF OpenSucceeds, PrepareSucceeds
    <3> QED
      BY <2>1, <3>1, <3>2
  <2>4. CASE OpenFails(t) \/ PrepareFails(t)
    <3>1. tpc[t] \in {"open", "prepare"} /\ UNCHANGED streaming /\ tpc'[t] = "publish"
      BY <2>1, <2>4 DEF OpenFails, PrepareFails
    <3>2. dev'[t] = "closed"
      BY <2>1, <2>4 DEF OpenFails, PrepareFails
    <3> QED
      BY <2>1, <3>1, <3>2
  <2>5. CASE WriteSucceeds(t) \/ WriteFails(t) \/ RaiseFlag(t) \/ PlayEnds(t)
    BY <2>1, <2>5 DEF WriteSucceeds, WriteFails, RaiseFlag, PlayEnds
  <2>6. CASE PlayNaps(t) \/ PlayGoesOn(t) \/ Rearm(t) \/ RearmPrepares(t) \/ RearmFails(t)
    BY <2>1, <2>6 DEF PlayNaps, PlayGoesOn, Rearm, RearmPrepares, RearmFails
  <2>7. CASE DropLowersFlag(t) \/ DropCloses(t)
    BY <2>1, <2>7 DEF DropLowersFlag, DropCloses
  <2>8. CASE Publish(t)
    BY <2>1, <2>8 DEF Publish
  <2> QED
    BY <2>2, <2>3, <2>4, <2>5, <2>6, <2>7, <2>8, Zenon DEF Render
<1> QED
  BY <1>1, <1>2, <1>3, <1>4, <1>5 DEF SessionInv, DeviceFollows, FlagInSession

\* The peer, the audio stack and the user keep SessionInv.
LEMMA WorldSession == TypeOK /\ SessionInv /\ World => SessionInv'
  BY DEF TypeOK, ThreadOK, SessionInv, OneThread, DeviceFollows, FlagInSession, World, LinkChanges,
     DeviceChanges, Quit, DriverFinishes, SetDev, worker, shared, thread

\* SessionInv is an invariant.
LEMMA Sessions == Spec => [](TypeOK /\ SessionInv)
<1>1. SessionInv /\ UNCHANGED vars => SessionInv'
  BY DEF SessionInv, OneThread, DeviceFollows, FlagInSession, vars, worker, shared, thread
<1>2. TypeOK /\ SessionInv /\ [Next]_vars => SessionInv'
  BY <1>1, WorkerSession, RenderSession, WorldSession DEF Next
<1> QED
  BY <1>2, SessionInit, TypeCorrect, PTL DEF Spec

\* IdleIsSilent: once stop has returned, no thread is left, no session is open and
\* the flag is down.
THEOREM StopIsSilent == Spec => []IdleIsSilent
<1>1. TypeOK /\ SessionInv => IdleIsSilent
  BY KeepaliveAssumption DEF KeepaliveAssumption, SessionInv, OneThread, DeviceFollows,
     FlagInSession, IdleIsSilent, Idle
<1> QED
  BY <1>1, Sessions, PTL

-----------------------------------------------------------------------------
(* What stop waits for.                                                    *)

\* While stop waits, want_run stays down.
AskedToEnd == StopHasAsked => ~wantRun

\* Only start raises want_run, and it is not called inside stop.
LEMMA Asked == Spec => []AskedToEnd
<1>1. Init => AskedToEnd
  BY DEF Init, AskedToEnd, StopHasAsked
<1>2. ASSUME TypeOK, AskedToEnd, Worker PROVE AskedToEnd'
  BY <1>2 DEF TypeOK, WorkerOK, AskedToEnd, StopHasAsked, Worker, shared, WGoto, CallStop, SampleOk, SampleTrips,
     PollFindsNobody, PollConnected, PollAudioDead, PollDown, StartFails, StartSpawns,
     Ready, Recover, WorkerExits, StopAsks, StopResets, StopJoins
<1>3. ASSUME NEW t \in Thread, Render(t) PROVE UNCHANGED <<wpc, wantRun>>
  BY <1>3 DEF worker, shared, Render, ThreadExits, BreakerAllows, EndpointMissing,
     EndpointFound, OpenSucceeds, OpenFails, PrepareSucceeds, PrepareFails,
     WriteSucceeds, WriteFails, RaiseFlag, PlayEnds, PlayNaps, PlayGoesOn, Rearm,
     RearmPrepares, RearmFails, DropLowersFlag, DropCloses, Publish
<1>4. ASSUME World \/ UNCHANGED vars PROVE UNCHANGED <<wpc, wantRun>>
  BY <1>4 DEF World, LinkChanges, DeviceChanges, Quit, DriverFinishes, vars, worker,
     shared
<1>5. TypeOK /\ AskedToEnd /\ [Next]_vars => AskedToEnd'
  BY <1>2, <1>3, <1>4 DEF Next, AskedToEnd, StopHasAsked
<1> QED
  BY <1>1, <1>5, TypeCorrect, PTL DEF Spec

\* A thread that was asked to end takes only steps towards its exit.
LEMMA RenderNearer ==
  ASSUME TypeOK, ~wantRun, NEW t \in Thread, Render(t)
  PROVE  Nearer(t)
<1>1. t \in DOMAIN tpc
  BY DEF TypeOK, ThreadOK
<1> DEFINE Goes(from, to) == tpc[t] = from /\ tpc'[t] = to
<1>2. \A from, to : Step(t, from, to) => Goes(from, to)
  BY <1>1 DEF Step, Goto
<1>3. \/ Goes("top", "exited") \/ Goes("resolve", "top") \/ Goes("resolve", "open")
      \/ Goes("open", "prepare") \/ Goes("open", "publish")
      \/ Goes("prepare", "write") \/ Goes("prepare", "publish")
      \/ Goes("write", "flag") \/ Goes("write", "drop") \/ Goes("flag", "play")
      \/ Goes("play", "drop") \/ Goes("nap", "play") \/ Goes("nap", "rearm")
      \/ Goes("rearm", "write") \/ Goes("rearm", "drop") \/ Goes("drop", "close")
      \/ Goes("close", "publish") \/ Goes("publish", "top")
  <2> HIDE DEF Goes
  <2> QED
    BY <1>2, Zenon DEF Render, ThreadExits, BreakerAllows, EndpointMissing,
       EndpointFound, OpenSucceeds, OpenFails, PrepareSucceeds, PrepareFails,
       WriteSucceeds, WriteFails, RaiseFlag, PlayEnds, PlayNaps, PlayGoesOn, Rearm,
       RearmPrepares, RearmFails, DropLowersFlag, DropCloses, Publish
<1> QED
  BY <1>3 DEF Nearer, StepsToExit

\* StopDrains: eleven steps of its own at most, and the joined thread is gone.
THEOREM StopAlwaysDrains == Spec => StopDrains
<1>1. ASSUME TypeOK, AskedToEnd, [Next]_vars, StopHasAsked
      PROVE  TurnsToExit
  <2>1. ASSUME NEW t \in Thread, NEW u \in Thread, Render(u)
        PROVE  tpc'[t] = tpc[t] \/ Nearer(t)
    <3>1. CASE t = u
      BY <1>1, <2>1, <3>1, RenderNearer DEF AskedToEnd
    <3>2. CASE t # u
      <4>1. \E p \in Place : tpc' = [tpc EXCEPT ![u] = p]
        BY <2>1 DEF Place, Step, Goto, Render, ThreadExits, BreakerAllows,
           EndpointMissing, EndpointFound, OpenSucceeds, OpenFails, PrepareSucceeds,
           PrepareFails, WriteSucceeds, WriteFails, RaiseFlag, PlayEnds, PlayNaps,
           PlayGoesOn, Rearm, RearmPrepares, RearmFails, DropLowersFlag, DropCloses,
           Publish
      <4> QED
        BY <1>1, <3>2, <4>1 DEF TypeOK, ThreadOK
    <3> QED
      BY <3>1, <3>2
  <2>2. ASSUME NEW t \in Thread, StopJoins PROVE tpc'[t] = tpc[t] \/ Nearer(t)
    BY <1>1, <2>2 DEF StopHasAsked, StopJoins, Joined, TypeOK, ThreadOK, Nearer, StepsToExit
  <2>3. Worker => StopJoins \/ UNCHANGED tpc
    BY <1>1 DEF StopHasAsked, Worker, thread, WGoto, SampleOk, SampleTrips, PollFindsNobody,
       PollConnected, PollAudioDead, PollDown, StartFails, StartSpawns, Ready, Recover,
       WorkerExits, StopAsks, StopResets
  <2>4. World \/ UNCHANGED vars => UNCHANGED tpc
    BY DEF World, LinkChanges, DeviceChanges, Quit, DriverFinishes, vars, thread
  <2> QED
    BY <1>1, <2>1, <2>2, <2>3, <2>4 DEF Next, TurnsToExit
<1>2. TypeOK /\ AskedToEnd /\ [Next]_vars
        => [StopHasAsked => TurnsToExit]_vars
  BY <1>1
<1> QED
  BY <1>2, TypeCorrect, Asked, PTL DEF Spec, StopDrains

-----------------------------------------------------------------------------
(* The refinement.                                                         *)

\* The initial state maps to the initial state of ExclusiveStream.
LEMMA RefinesInit == Init => Stream!Init
  BY DEF Init, Stream!Init

\* A step that changes neither the flag nor who holds the device is a stutter.
LEMMA Stutters ==
  ASSUME streaming' = streaming, \A t \in Thread : dev'[t] = "closed" <=> dev[t] = "closed"
  PROVE  UNCHANGED Stream!vars
  BY DEF Stream!vars

\* A step of the thread that the handle names is a step of ExclusiveStream.
LEMMA RenderRefines ==
  ASSUME TypeOK, SessionInv, NEW t \in Thread, Render(t)
  PROVE  [Stream!Next]_(Stream!vars)
<1>1. t = handle /\ \A u \in Thread : u # t => dev[u] = "closed"
  BY OnlyTheHandle DEF SessionInv, OneThread, DeviceFollows, Idle
<1>2. streaming => tpc[t] \in Flagged
  BY <1>1 DEF SessionInv, FlagInSession
<1>3. dev[t] = "closed" <=> tpc[t] \in Idle
  BY DEF SessionInv, DeviceFollows
<1> USE DEF TypeOK, ThreadOK, worker, shared, Step, Goto, SetDev
<1>4. CASE ThreadExits(t) \/ BreakerAllows(t) \/ EndpointFound(t) \/ OpenFails(t)
           \/ WriteFails(t) \/ PlayEnds(t) \/ PlayNaps(t) \/ PlayGoesOn(t)
           \/ RearmFails(t) \/ Publish(t)
  <2>1. UNCHANGED <<streaming, dev>>
    BY <1>4 DEF ThreadExits, BreakerAllows, EndpointFound, OpenFails, WriteFails,
       PlayEnds, PlayNaps, PlayGoesOn, RearmFails, Publish
  <2> QED
    BY <2>1, Stutters
<1>5. CASE PrepareSucceeds(t) \/ WriteSucceeds(t) \/ Rearm(t) \/ RearmPrepares(t)
  <2>1. tpc[t] \notin Idle /\ UNCHANGED streaming
    BY <1>5 DEF PrepareSucceeds, WriteSucceeds, Rearm, RearmPrepares, Idle
  <2>2. dev'[t] # "closed" /\ \A u \in Thread : u # t => dev'[u] = dev[u]
    BY <1>5 DEF PrepareSucceeds, WriteSucceeds, Rearm, RearmPrepares
  <2> QED
    BY <1>3, <2>1, <2>2, Stutters
<1>6. CASE EndpointMissing(t) \/ DropLowersFlag(t)
  <2>1. streaming' = FALSE /\ UNCHANGED dev
    BY <1>6 DEF EndpointMissing, DropLowersFlag
  <2>2. Stream!Lower
    BY <2>1 DEF Stream!Lower
  <2> QED
    BY <2>2 DEF Stream!Next
<1>7. CASE RaiseFlag(t)
  <2>1. streaming' = TRUE /\ UNCHANGED dev /\ tpc[t] = "flag"
    BY <1>7 DEF RaiseFlag
  <2>2. dev[t] # "closed"
    BY <1>3, <2>1 DEF Idle
  <2>3. Stream!Raise
    BY <2>1, <2>2 DEF Stream!Raise
  <2> QED
    BY <2>3 DEF Stream!Next
<1>8. CASE OpenSucceeds(t)
  <2>1. tpc[t] = "open" /\ dev' = [dev EXCEPT ![t] = "open"] /\ UNCHANGED streaming
    BY <1>8 DEF OpenSucceeds
  <2>2. {u \in Thread : dev[u] # "closed"} = {}
    BY <1>1, <1>3, <2>1 DEF Idle
  <2>3. {u \in Thread : dev'[u] # "closed"} = {t}
    BY <1>1, <2>1
  <2>4. Stream!Open(t)
    BY <2>1, <2>2, <2>3 DEF Stream!Open
  <2> QED
    BY <2>4 DEF Stream!Next
<1>9. CASE PrepareFails(t) \/ DropCloses(t)
  <2>1. tpc[t] \notin Flagged
    BY <1>9 DEF PrepareFails, DropCloses, Flagged
  <2>2. dev' = [dev EXCEPT ![t] = "closed"] /\ UNCHANGED streaming
    BY <1>9 DEF PrepareFails, DropCloses
  <2>3. {u \in Thread : dev'[u] # "closed"} = {}
    BY <1>1, <2>2
  <2>4. Stream!Close
    BY <1>2, <2>1, <2>2, <2>3 DEF Stream!Close
  <2> QED
    BY <2>4 DEF Stream!Next
<1> QED
  BY <1>4, <1>5, <1>6, <1>7, <1>8, <1>9, Zenon DEF Render

\* The worker and the world never touch the flag or the device's holder.
LEMMA OthersStutter ==
  ASSUME TypeOK, Worker \/ World \/ UNCHANGED vars
  PROVE  UNCHANGED Stream!vars
<1>1. CASE Worker
  <2>1. UNCHANGED <<streaming, dev>>
    BY <1>1 DEF Worker, SampleOk, SampleTrips, PollFindsNobody, PollConnected,
       PollAudioDead, PollDown, StartFails, StartSpawns, Ready, Recover, WorkerExits,
       StopAsks, StopResets, StopJoins, shared, thread
  <2> QED
    BY <2>1, Stutters
<1>2. CASE World
  BY <1>2, Stutters DEF TypeOK, ThreadOK, World, LinkChanges, DeviceChanges, Quit, DriverFinishes,
     SetDev, worker, shared, thread
<1>3. CASE UNCHANGED vars
  BY <1>3, Stutters DEF vars, shared, thread
<1> QED
  BY <1>1, <1>2, <1>3

\* ImplementsExclusiveStream: whatever the worker stops and starts, there is one
\* session at a time, and its flag falls before it closes.
THEOREM Refinement == Spec => ImplementsExclusiveStream
<1>1. TypeOK /\ SessionInv /\ [Next]_vars => [Stream!Next]_(Stream!vars)
  BY RenderRefines, OthersStutter DEF Next
<1> QED
  BY <1>1, RefinesInit, Sessions, PTL DEF Spec, ImplementsExclusiveStream, Stream!Spec
=============================================================================
