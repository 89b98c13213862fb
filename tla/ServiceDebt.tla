---------------------------- MODULE ServiceDebt ----------------------------
(***************************************************************************)
(* The profile-driver reconnect path: connect_fsm.rs (drive_connect,       *)
(* toggle_profile, reenable_profile), the debt marker of connect.rs        *)
(* (btf_pending_service_enable.txt) and the part of worker.rs::recover_link *)
(* that repays a debt before any rung runs.                                *)
(*                                                                         *)
(* A reconnect REMOVES a profile driver (DISABLE) and re-installs it       *)
(* (ENABLE).  Both calls are persistent, either can fail, and the process  *)
(* can die between them; the marker names the profile that is owed.        *)
(*                                                                         *)
(* Profiles are 1..NProfiles, in the order of Profile::ORDER.  One step is *)
(* one call with an outside effect (set_state, write or remove of the      *)
(* marker) or one decision between two of them.                            *)
(***************************************************************************)
EXTENDS Integers, FiniteSets

CONSTANTS
  NProfiles,       \* length of Profile::ORDER (3 in the code)
  MaxAttempts,     \* CONNECT_REENABLE_ATTEMPTS (8 in the code)
  MarkerReadFails  \* TRUE: fs::read_to_string of the marker may fail

ASSUME ServiceDebtAssumption ==
  /\ NProfiles \in Nat \ {0}
  /\ MaxAttempts \in Nat \ {0}
  /\ MarkerReadFails \in BOOLEAN

Profile == 1..NProfiles
NoProfile == 0

VARIABLES
  driver,    \* driver[p]: the profile's driver is installed (OS, persistent)
  inert,     \* the export changes nothing on this stack and refuses both ways
  marker,    \* debt_profile(): the profile named on disk, or NoProfile
  pc,        \* what the worker is about to do
  cur,       \* the profile in hand
  attempt,   \* re-enable attempts made so far
  repaying,  \* reenable_profile was called by repay_debt, not by the toggle
  allow,     \* allow_toggle of this pass
  seen,      \* drive_connect's any_* flags
  outcome,   \* ConnectOutcome of the last pass that reached connect()
  reach,     \* what a poll finds: see Reach
  owed       \* history: drivers we removed that nobody has put back

worker == <<pc, cur, attempt, repaying, allow, seen, outcome>>
vars == <<driver, inert, marker, worker, reach, owed>>

\* "down": the peer is found without streaming audio, so recover_link runs;
\* "streaming": the target audio streams; "away": no radio or no peer is
\* enumerated, or the watchdog has tripped.
Reach == {"down", "streaming", "away"}
Outcome == {"None", "Connected", "Reconnecting", "Refused", "Inert",
            "NotFound", "ServiceDebt", "Failed"}
PC == {"idle", "rungs", "enable", "arm", "disable", "reenable", "clear"}
Flag == {"not_supported", "already_enabled", "error"}

TypeOK ==
  /\ driver \in [Profile -> BOOLEAN]
  /\ inert \in BOOLEAN
  /\ marker \in Profile \cup {NoProfile}
  /\ pc \in PC
  /\ cur \in Profile
  /\ attempt \in 0..MaxAttempts
  /\ repaying \in BOOLEAN
  /\ allow \in BOOLEAN
  /\ seen \in SUBSET Flag
  /\ outcome \in Outcome
  /\ reach \in Reach
  /\ owed \in SUBSET Profile

\* A first run: drivers are as pairing left them, no marker, nothing owed.
Init ==
  /\ driver \in [Profile -> BOOLEAN]
  /\ inert \in BOOLEAN
  /\ marker = NoProfile
  /\ pc = "idle"
  /\ cur = 1
  /\ attempt = 0
  /\ repaying = FALSE
  /\ allow = FALSE
  /\ seen = {}
  /\ outcome = "None"
  /\ reach \in Reach
  /\ owed = {}

Finish(res) == pc' = "idle" /\ outcome' = res

-----------------------------------------------------------------------------
(* The poll: recover_link's rung -1 and everything up to connect().        *)

\* A disconnected poll reads the marker first and repays what it names.
PollRepays ==
  /\ pc = "idle" /\ reach = "down"
  /\ marker # NoProfile
  /\ pc' = "reenable" /\ cur' = marker /\ attempt' = 0 /\ repaying' = TRUE
  /\ UNCHANGED <<driver, inert, marker, allow, seen, outcome, reach, owed>>

\* No marker (or one that could not be read): straight to the rungs.
PollOwesNothing ==
  /\ pc = "idle" /\ reach = "down"
  /\ marker = NoProfile \/ MarkerReadFails
  /\ pc' = "rungs"
  /\ UNCHANGED <<driver, inert, marker, cur, attempt, repaying, allow, seen,
                 outcome, reach, owed>>

\* A rung, the grace period, the backoff or the breaker ends the pass early.
RungsReturn ==
  /\ pc = "rungs"
  /\ pc' = "idle"
  /\ UNCHANGED <<driver, inert, marker, cur, attempt, repaying, allow, seen,
                 outcome, reach, owed>>

\* The pass reaches connect(); should_toggle decides allow_toggle.
RungsConnect ==
  /\ pc = "rungs"
  /\ pc' = "enable" /\ cur' = 1 /\ seen' = {}
  /\ allow' \in BOOLEAN
  /\ UNCHANGED <<driver, inert, marker, attempt, repaying, outcome, reach, owed>>

-----------------------------------------------------------------------------
(* drive_connect: plain ENABLE on every profile in order.                  *)

\* The verdict when no profile ended the loop early.
Verdict(flags) ==
  IF "error" \in flags THEN "Failed"
  ELSE IF "already_enabled" \in flags THEN "Refused"
  ELSE "NotFound"

NextProfile(flag) ==
  /\ seen' = seen \cup {flag}
  /\ IF cur = NProfiles
       THEN Finish(Verdict(seen')) /\ UNCHANGED cur
       ELSE cur' = cur + 1 /\ UNCHANGED <<pc, outcome>>
  /\ UNCHANGED <<driver, inert, marker, attempt, repaying, allow, reach, owed>>

EnableInstalls ==
  /\ pc = "enable"
  /\ ~driver[cur] /\ ~inert
  /\ driver' = [driver EXCEPT ![cur] = TRUE]
  /\ owed' = owed \ {cur}
  /\ Finish("Connected")
  /\ UNCHANGED <<inert, marker, cur, attempt, repaying, allow, seen, reach>>

EnableRefused ==
  /\ pc = "enable"
  /\ driver[cur] \/ inert
  /\ ~allow
  /\ NextProfile("already_enabled")

EnableRefusedToggles ==
  /\ pc = "enable"
  /\ driver[cur] \/ inert
  /\ allow
  /\ pc' = "arm"
  /\ UNCHANGED <<driver, inert, marker, cur, attempt, repaying, allow, seen,
                 outcome, reach, owed>>

\* ERROR_SERVICE_DOES_NOT_EXIST, or any other failure: the driver is as it was.
EnableFails ==
  /\ pc = "enable"
  /\ \E flag \in {"not_supported", "error"} : NextProfile(flag)

-----------------------------------------------------------------------------
(* toggle_profile: marker, DISABLE, then the re-enable loop.               *)

\* Mutant: the marker is not written before the driver is removed.
ArmMarkerSkipped ==
  /\ pc = "arm"
  /\ pc' = "disable"
  /\ UNCHANGED <<driver, inert, marker, cur, attempt, repaying, allow, seen,
                 outcome, reach, owed>>

\* Mutant: debt_arm's verdict is ignored.
ArmMarkerFailureIgnored ==
  /\ pc = "arm"
  /\ marker' \in {marker, NoProfile, cur}
  /\ pc' = "disable"
  /\ UNCHANGED <<driver, inert, cur, attempt, repaying, allow, seen, outcome,
                 reach, owed>>

ArmMarker ==
  /\ pc = "arm"
  /\ marker' = cur
  /\ pc' = "disable"
  /\ UNCHANGED <<driver, inert, cur, attempt, repaying, allow, seen, outcome,
                 reach, owed>>

\* debt_arm reports failure: File::create kept the old file, truncated it, or
\* the name got written and only the sync failed.  Nothing may be removed.
ArmMarkerFails ==
  /\ pc = "arm"
  /\ marker' \in {marker, NoProfile, cur}
  /\ Finish("Failed")
  /\ UNCHANGED <<driver, inert, cur, attempt, repaying, allow, seen, reach, owed>>

DisableRemoves ==
  /\ pc = "disable"
  /\ driver[cur] /\ ~inert
  /\ driver' = [driver EXCEPT ![cur] = FALSE]
  /\ owed' = owed \cup {cur}
  /\ pc' = "reenable" /\ attempt' = 0 /\ repaying' = FALSE
  /\ UNCHANGED <<inert, marker, cur, allow, seen, outcome, reach>>

\* "already disabled": the pass ends Inert, after the marker is dropped.
DisableRefused ==
  /\ pc = "disable"
  /\ ~driver[cur] \/ inert
  /\ pc' = "clear" /\ outcome' = "Inert" /\ repaying' = FALSE
  /\ UNCHANGED <<driver, inert, marker, cur, attempt, allow, seen, reach, owed>>

DisableFails ==
  /\ pc = "disable"
  /\ pc' = "clear" /\ outcome' = "Failed" /\ repaying' = FALSE
  /\ UNCHANGED <<driver, inert, marker, cur, attempt, allow, seen, reach, owed>>

\* Changed or AlreadyInState: either way the driver is there again.
ReenableSucceeds ==
  /\ pc = "reenable"
  /\ attempt < MaxAttempts
  /\ driver' = [driver EXCEPT ![cur] = driver[cur] \/ ~inert]
  /\ owed' = owed \ {cur}
  /\ pc' = "clear"
  /\ outcome' = IF repaying THEN outcome ELSE "Reconnecting"
  /\ UNCHANGED <<inert, marker, cur, attempt, repaying, allow, seen, reach>>

\* Mutant: one attempt too many.
ReenableFailsOnceMore ==
  /\ pc = "reenable"
  /\ attempt' = attempt + 1
  /\ UNCHANGED <<driver, inert, marker, pc, cur, repaying, allow, seen, outcome,
                 reach, owed>>

\* 1060 and every other code are transient here: wait and try again.
ReenableFails ==
  /\ pc = "reenable"
  /\ attempt < MaxAttempts
  /\ attempt' = attempt + 1
  /\ UNCHANGED <<driver, inert, marker, pc, cur, repaying, allow, seen, outcome,
                 reach, owed>>

\* Mutant: a failed repayment does not end the pass.
ReenableGivesUpGoesOn ==
  /\ pc = "reenable"
  /\ attempt = MaxAttempts
  /\ IF repaying THEN pc' = "rungs" /\ UNCHANGED outcome
                 ELSE Finish("ServiceDebt")
  /\ UNCHANGED <<driver, inert, marker, cur, attempt, repaying, allow, seen,
                 reach, owed>>

\* Mutant: 1060 after the DISABLE is taken for "no such profile".
ReenableGivesUpNotFound ==
  /\ pc = "reenable"
  /\ attempt = MaxAttempts
  /\ Finish(IF repaying THEN outcome ELSE "NotFound")
  /\ UNCHANGED <<driver, inert, marker, cur, attempt, repaying, allow, seen,
                 reach, owed>>

\* Mutant: giving up drops the marker.
ReenableGivesUpForgets ==
  /\ pc = "reenable"
  /\ attempt = MaxAttempts
  /\ marker' = NoProfile
  /\ Finish(IF repaying THEN outcome ELSE "ServiceDebt")
  /\ UNCHANGED <<driver, inert, cur, attempt, repaying, allow, seen, reach, owed>>

\* The attempts are used up: the marker stays, the pass ends here.
ReenableGivesUp ==
  /\ pc = "reenable"
  /\ attempt = MaxAttempts
  /\ Finish(IF repaying THEN outcome ELSE "ServiceDebt")
  /\ UNCHANGED <<driver, inert, marker, cur, attempt, repaying, allow, seen,
                 reach, owed>>

\* Mutant: whoever cleared the marker goes on with the pass.
ClearMarkerGoesOn ==
  /\ pc = "clear"
  /\ marker' \in {NoProfile, marker}
  /\ pc' = "rungs"
  /\ UNCHANGED <<driver, inert, cur, attempt, repaying, allow, seen, outcome,
                 reach, owed>>

\* debt_clear ignores a failed remove; a repaid debt lets the pass go on.
ClearMarker ==
  /\ pc = "clear"
  /\ marker' \in {NoProfile, marker}
  /\ pc' = IF repaying THEN "rungs" ELSE "idle"
  /\ UNCHANGED <<driver, inert, cur, attempt, repaying, allow, seen, outcome,
                 reach, owed>>

-----------------------------------------------------------------------------
(* The world.                                                              *)

\* The process dies at any step and is started again: the file and the
\* drivers survive, everything else is as at the start.
CrashRestart ==
  /\ pc' = "idle" /\ cur' = 1 /\ attempt' = 0 /\ repaying' = FALSE
  /\ allow' = FALSE /\ seen' = {} /\ outcome' = "None"
  /\ UNCHANGED <<driver, inert, marker, reach, owed>>

ReachChanges ==
  /\ reach' \in Reach \ {reach}
  /\ UNCHANGED <<driver, inert, marker, worker, owed>>

\* The user ticks or clears a service in the Bluetooth control panel.
UserSetsService(p) ==
  /\ ~inert
  /\ driver' = [driver EXCEPT ![p] = ~driver[p]]
  /\ owed' = owed \ {p}
  /\ UNCHANGED <<inert, marker, worker, reach>>

Toggle == ArmMarker \/ ArmMarkerFails \/ DisableRemoves \/ DisableRefused
          \/ DisableFails \/ ReenableSucceeds \/ ReenableFails
          \/ ReenableGivesUp \/ ClearMarker
DriveConnect == EnableInstalls \/ EnableRefused \/ EnableRefusedToggles
                \/ EnableFails
Poll == PollRepays \/ PollOwesNothing \/ RungsReturn \/ RungsConnect
World == CrashRestart \/ ReachChanges \/ \E p \in Profile : UserSetsService(p)

Next == Poll \/ DriveConnect \/ Toggle \/ World

\* The worker thread keeps polling a peer it keeps finding, also across
\* restarts, and the stack lets a re-enable through now and then (every field
\* log shows the 1060 blackout end after seconds).
Fairness == SF_vars(Poll) /\ WF_vars(DriveConnect) /\ WF_vars(Toggle)
            /\ SF_vars(ReenableSucceeds)

Spec == Init /\ [][Next]_vars /\ Fairness

-----------------------------------------------------------------------------
(* Properties.                                                             *)

\* A driver that is missing because of us is named by the marker on disk, in
\* every state a crash can expose (connect_fsm.rs debt_arm before DISABLE,
\* debt_clear only after the driver is back).
MarkerCoversDebt == owed \subseteq {marker}

\* Rung -1 outranks every rung: while a driver is owed the pass is nowhere
\* past the repayment -- no rung, no plain enable, no second toggle.
DebtOutranksLadder == pc \in {"rungs", "enable", "arm", "disable"} => owed = {}

\* reenable_profile works on the profile the marker names, also when a stale
\* marker or a crash chose it, so its debt_clear never drops another's promise.
ReenableServesMarker == pc = "reenable" => marker = cur

\* The strengthening the three facts above need to be inductive.
IInv ==
  /\ MarkerCoversDebt
  /\ DebtOutranksLadder
  /\ ReenableServesMarker
  /\ pc = "disable" => marker = cur
  /\ pc = "clear" => owed = {}

\* A verdict that promises "nothing was touched" (Refused, NotFound, Inert)
\* is never reported by a pass that leaves a driver owed.
UntouchedVerdictOwesNothing ==
  pc = "idle" /\ outcome \in {"Refused", "NotFound", "Inert", "Connected"}
    => owed = {}

\* The calls of a pass are synchronous and park the only poll loop
\* (worker.rs:806), so a pass must run out whatever the stack answers: it
\* repays once, toggles once, and each step either leaves a stage for good or
\* uses up one of the calls of its stage.
StagesLeft ==
  CASE pc = "idle" -> 0
    [] pc = "clear" -> IF repaying THEN 7 ELSE 1
    [] pc = "reenable" -> IF repaying THEN 8 ELSE 2
    [] pc = "disable" -> 3
    [] pc = "arm" -> 4
    [] pc = "enable" -> 5
    [] pc = "rungs" -> 6

CallsLeft ==
  CASE pc = "enable" -> NProfiles - cur
    [] pc = "reenable" -> MaxAttempts - attempt
    [] OTHER -> 0

RunsOut ==
  /\ CallsLeft' \in Nat
  /\ \/ StagesLeft' < StagesLeft
     \/ StagesLeft' = StagesLeft /\ CallsLeft' < CallsLeft

PassRunsOut == [][pc # "idle" => RunsOut \/ UNCHANGED worker]_vars

\* As long as polls keep finding the peer down, an owed driver comes back,
\* whatever crashes and failed attempts happen on the way.
DebtIsRepaid == ([]<>(reach = "down")) => (owed # {} ~> owed = {})

\* What app.rs announces at startup ("the first poll re-installs it") and
\* connect.rs says of the marker ("read on every poll"): polls that keep
\* finding the peer repay the debt, also while its audio streams.
EveryPollRepays == (<>[](reach # "away")) => (owed # {} ~> owed = {})

\* The write-ahead discipline both markers follow.
Journal == INSTANCE UndoJournal WITH
  Resource <- Profile,
  promised <- {marker} \ {NoProfile},
  damaged  <- owed

ImplementsUndoJournal == Journal!Spec
=============================================================================
