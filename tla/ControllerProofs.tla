--------------------------- MODULE ControllerProofs ---------------------------
(***************************************************************************)
(* Theorems about three parts of the controllers that share no state: the  *)
(* fold dependency of the expansion controller (FoldPreparation), for      *)
(* every number of episodes, deaths, evictions and refused writes; the     *)
(* feature exploration (FeatureExploration), for every number of           *)
(* processes, definitions, proposals and faults; and the admission of jobs *)
(* (ResourceAdmission), for every number of programs and jobs, every       *)
(* budget and every estimate.                                              *)
(***************************************************************************)
EXTENDS FoldPreparation, FeatureExploration, ResourceAdmission, FiniteSetTheorems,
        SequenceTheorems, TLAPS

-----------------------------------------------------------------------------
(***************************************************************************)
(* PART 1.  FoldPreparation.                                               *)
(***************************************************************************)

\* The build in flight is the one in runtime.json.
FlightNamed == inflight # None => Names(inflight)

\* Nothing is built for a blocked dependency, so a build in flight can still be
\* counted.
FlightOpen == inflight # None => failures < Threshold

IInv ==
    /\ TypeOK
    /\ FlightNamed
    /\ FlightOpen
    /\ ReadyIsSettled

-----------------------------------------------------------------------------
(***************************************************************************)
(* The executor: what its steps keep, whoever takes them.                  *)
(***************************************************************************)

\* An episode that runtime.json names stays named.
NamesKept == \A m \in Nonces : Names(m) => Names(m)'

\* A status written to a runtime gives a runtime of the same episode.
LEMMA StatusTyped ==
    ASSUME NEW file \in Runtimes, NEW st \in Statuses
    PROVE  /\ [file EXCEPT !.status = st] \in Runtimes
           /\ [file EXCEPT !.status = st] # None
           /\ [file EXCEPT !.status = st].nonce = file.nonce
BY ExecutorAssumption DEF Runtimes, Statuses

\* Marked gives a runtime of the same episode, or none where there was none.
LEMMA MarkedTyped ==
    ASSUME runtime \in Runtimes \cup {None}, NEW n \in Nonces, NEW st \in Statuses
    PROVE  /\ Marked(n, st) \in Runtimes \cup {None}
           /\ runtime # None =>
                Marked(n, st) # None /\ Marked(n, st).nonce = runtime.nonce
BY ExecutorAssumption, StatusTyped DEF Marked, Names

\* A runtime made of an episode and a status is one.
LEMMA RuntimeTyped ==
    ASSUME NEW n \in Nonces, NEW st \in Statuses
    PROVE  /\ [nonce |-> n, status |-> st] \in Runtimes
           /\ [nonce |-> n, status |-> st] # None
           /\ [nonce |-> n, status |-> st].nonce = n
BY ExecutorAssumption DEF Runtimes

\* A write of runtime.json is an episode's own mark, or leaves it.
Marks == runtime' = runtime \/ \E n \in Nonces, s \in Statuses : runtime' = Marked(n, s)

\* A mark keeps the type and the episode of the file.
LEMMA MarksKeep ==
    ASSUME runtime \in Runtimes \cup {None}, Marks
    PROVE  runtime' \in Runtimes \cup {None} /\ NamesKept
<1>1. CASE runtime' = runtime
  BY <1>1 DEF NamesKept, Names
<1>2. CASE \E n \in Nonces, s \in Statuses : runtime' = Marked(n, s)
  <2>1. PICK n \in Nonces, s \in Statuses : runtime' = Marked(n, s)
    BY <1>2
  <2>q. QED BY <2>1, MarkedTyped DEF NamesKept, Names
<1>q. QED BY <1>1, <1>2 DEF Marks

\* A refused write is counted.
LEMMA BlockedTyped ==
    ASSUME blocks \in 0..MaxBlocks, Blocked
    PROVE  blocks' \in 0..MaxBlocks
BY ExecutorAssumption DEF Blocked

\* The clock.
LEMMA DeadlinePassesKeeps ==
    ASSUME ExecutorTypeOK, DeadlinePasses
    PROVE  ExecutorTypeOK' /\ NamesKept
BY DEF ExecutorTypeOK, DeadlinePasses, NamesKept, Names

\* The worker claims the episode or stops before it.
LEMMA ClaimKeeps ==
    ASSUME ExecutorTypeOK, NEW n \in Nonces, Claim(n)
    PROVE  ExecutorTypeOK' /\ NamesKept
<1>1. runtime' = runtime \/ (MayClaim(n) /\ runtime' = [nonce |-> n, status |-> "running"])
  BY DEF Claim
<1>2. runtime' \in Runtimes \cup {None} /\ NamesKept
  <2>1. CASE runtime' = runtime
    BY <2>1 DEF ExecutorTypeOK, NamesKept, Names
  <2>2. CASE MayClaim(n) /\ runtime' = [nonce |-> n, status |-> "running"]
    BY <2>2, RuntimeTyped DEF NamesKept, Names, MayClaim, Statuses
  <2>q. QED BY <1>1, <2>1, <2>2
<1>3. blocks' \in 0..MaxBlocks
  BY BlockedTyped DEF Claim, ExecutorTypeOK
<1>4. /\ worker' \in [Nonces -> {"none", "assigned", "running", "ended"}]
      /\ raw' \in [Nonces -> Outcomes \cup {"none", "pending"}]
  BY DEF Claim, Stops, Outcomes, ExecutorTypeOK
<1>5. late' = late /\ future' = future /\ timer' = timer
  BY DEF Claim
<1>q. QED BY <1>2, <1>3, <1>4, <1>5 DEF ExecutorTypeOK

\* The worker's function ends, with or without its last write.
LEMMA EndKeeps ==
    ASSUME ExecutorTypeOK, NEW n \in Nonces, End(n) \/ EndUnwritten(n) \/ WorkerDies(n) \/ Cancelled(n)
    PROVE  ExecutorTypeOK' /\ NamesKept
<1>1. Marks
  <2>1. CASE End(n)
    <3>1. PICK outcome \in Outcomes : runtime' = Ended(n, outcome)
      BY <2>1 DEF End
    <3>q. QED BY <3>1 DEF Marks, Ended, Statuses
  <2>2. CASE EndUnwritten(n)
    <3>1. runtime' = runtime \/ \E outcome \in Outcomes : runtime' = Ended(n, outcome)
      BY <2>2 DEF EndUnwritten
    <3>q. QED BY <3>1 DEF Marks, Ended, Statuses
  <2>3. CASE WorkerDies(n) \/ Cancelled(n)
    BY <2>3 DEF WorkerDies, Cancelled, Marks
  <2>q. QED BY <2>1, <2>2, <2>3
<1>2. blocks' \in 0..MaxBlocks
  BY BlockedTyped DEF End, EndUnwritten, WorkerDies, Cancelled, ExecutorTypeOK
<1>3. worker' = [worker EXCEPT ![n] = "ended"]
  BY DEF End, EndUnwritten, WorkerDies, Cancelled, Stops
<1>4. raw' \in [Nonces -> Outcomes \cup {"none", "pending"}]
  BY DEF End, EndUnwritten, WorkerDies, Cancelled, Stops, Outcomes, ExecutorTypeOK
<1>5. late' = late /\ future' = future /\ timer' = timer
  BY DEF End, EndUnwritten, WorkerDies, Cancelled
<1>q. QED BY <1>1, <1>2, <1>3, <1>4, <1>5, MarksKeep DEF ExecutorTypeOK

\* The deadline timer decides and marks.
LEMMA TimerKeeps ==
    ASSUME ExecutorTypeOK, NEW n \in Nonces, TimerStep(n)
    PROVE  ExecutorTypeOK' /\ NamesKept
<1>1. Marks
  BY DEF TimerStep, Expire, MarkExpired, Marks, Statuses
<1>2. blocks' \in 0..MaxBlocks
  BY BlockedTyped DEF TimerStep, Expire, MarkExpired, ExecutorTypeOK
<1>3. /\ future' \in [Nonces -> Outcomes \cup {"none", "pending"}]
      /\ timer' \in [Nonces -> {"off", "armed", "decided"}]
  BY DEF TimerStep, Expire, MarkExpired, Outcomes, ExecutorTypeOK
<1>4. late' = late /\ worker' = worker /\ raw' = raw
  BY DEF TimerStep, Expire, MarkExpired
<1>q. QED BY <1>1, <1>2, <1>3, <1>4, MarksKeep DEF ExecutorTypeOK

\* The pool's callback decides.
LEMMA FinishKeeps ==
    ASSUME ExecutorTypeOK, NEW n \in Nonces,
           FinishAccepted(n) \/ FinishTimedOut(n) \/ FinishFailed(n)
    PROVE  ExecutorTypeOK' /\ NamesKept
<1>1. Marks
  BY DEF FinishAccepted, FinishTimedOut, FinishFailed, Marks, Statuses
<1>2. blocks' \in 0..MaxBlocks
  BY BlockedTyped DEF FinishAccepted, FinishTimedOut, FinishFailed, ExecutorTypeOK
<1>3. /\ future' \in [Nonces -> Outcomes \cup {"none", "pending"}]
      /\ timer' \in [Nonces -> {"off", "armed", "decided"}]
  BY DEF FinishAccepted, FinishTimedOut, FinishFailed, Resolve, Outcomes, ExecutorTypeOK
<1>4. late' = late /\ worker' = worker /\ raw' = raw
  BY DEF FinishAccepted, FinishTimedOut, FinishFailed
<1>q. QED BY <1>1, <1>2, <1>3, <1>4, MarksKeep DEF ExecutorTypeOK

\* A submission names its episode.
LEMMA SubmitTyped ==
    ASSUME ExecutorTypeOK, NEW n \in Nonces, NEW file, Submit(n, file)
    PROVE  ExecutorTypeOK' /\ Names(n)'
<1>1. runtime' \in Runtimes /\ runtime' # None /\ runtime'.nonce = n
  BY RuntimeTyped DEF Submit, Statuses
<1>2. late' \in BOOLEAN
  BY DEF Submit, Lateness, ExecutorTypeOK
<1>q. QED BY <1>1, <1>2 DEF Submit, ExecutorTypeOK, Outcomes, Names

\* The death of a controller leaves processes, and no future or timer.
LEMMA OrphanTyped ==
    ASSUME ExecutorTypeOK, Orphan
    PROVE  /\ worker' \in [Nonces -> {"none", "assigned", "running", "ended"}]
           /\ raw' \in [Nonces -> Outcomes \cup {"none", "pending"}]
           /\ future' \in [Nonces -> Outcomes \cup {"none", "pending"}]
           /\ timer' \in [Nonces -> {"off", "armed", "decided"}]
BY DEF Orphan, ExecutorTypeOK

\* Cleaning up a worker group only ends processes.
LEMMA CleanedTyped ==
    ASSUME ExecutorTypeOK
    PROVE  Cleaned \in [Nonces -> {"none", "assigned", "running", "ended"}]
BY DEF Cleaned, ExecutorTypeOK

-----------------------------------------------------------------------------
(***************************************************************************)
(* The fold: one lemma per action.                                         *)
(***************************************************************************)

Waits == [active : BOOLEAN, due : BOOLEAN, snapshot : Runtimes \cup {None}]

\* The part of TypeOK about the fold itself.
FoldTypeOK ==
    /\ failures \in 0..Threshold
    /\ delayed \in BOOLEAN
    /\ wait \in Waits
    /\ ready \in BOOLEAN
    /\ up \in BOOLEAN
    /\ inflight \in Nonces \cup {None}
    /\ crashes \in 0..MaxCrashes
    /\ evictions \in 0..MaxEvictions

\* TypeOK is the two parts together, before and after a step.
LEMMA TypesSplit ==
    /\ TypeOK <=> ExecutorTypeOK /\ FoldTypeOK
    /\ TypeOK' <=> ExecutorTypeOK' /\ FoldTypeOK'
BY DEF TypeOK, FoldTypeOK, Waits

\* The rest of the invariant.
LEMMA InvSplit ==
    /\ IInv <=> ExecutorTypeOK /\ FoldTypeOK /\ FlightNamed /\ FlightOpen /\ ReadyIsSettled
    /\ IInv' <=> ExecutorTypeOK' /\ FoldTypeOK' /\ FlightNamed' /\ FlightOpen' /\ ReadyIsSettled'
BY TypesSplit DEF IInv

\* A step that leaves the fold alone, and every named episode named.
LEMMA ExecutorOnly ==
    ASSUME IInv, ExecutorTypeOK', NamesKept, UNCHANGED fold
    PROVE  IInv'
<1>1. FoldTypeOK' /\ FlightOpen' /\ ReadyIsSettled'
  BY InvSplit DEF FoldTypeOK, FlightOpen, ReadyIsSettled, fold
<1>2. FlightNamed'
  BY InvSplit DEF FlightNamed, NamesKept, FoldTypeOK, fold
<1>q. QED BY <1>1, <1>2, InvSplit

\* A death of the controller that keeps runtime.json typed and counts itself.
LEMMA DiesKeeps ==
    ASSUME IInv, Dies, UNCHANGED <<failures, delayed, wait, evictions, blocks>>,
           runtime' \in {runtime, None}, late' \in BOOLEAN, crashes' \in 0..MaxCrashes
    PROVE  IInv'
<1>1. ExecutorTypeOK'
  BY InvSplit, OrphanTyped DEF Dies, ExecutorTypeOK
<1>2. up' = FALSE /\ ready' = FALSE /\ inflight' = None
  BY DEF Dies
<1>3. FoldTypeOK'
  BY <1>2, InvSplit DEF FoldTypeOK
<1>4. FlightNamed' /\ FlightOpen' /\ ReadyIsSettled'
  BY <1>2 DEF FlightNamed, FlightOpen, ReadyIsSettled
<1>q. QED BY <1>1, <1>3, <1>4, InvSplit

\* A build is submitted.
LEMMA SubmitBuildKeeps ==
    ASSUME IInv, NEW n \in Nonces, SubmitBuild(n)
    PROVE  IInv'
<1>1. ExecutorTypeOK' /\ Names(n)'
  BY InvSplit, SubmitTyped DEF SubmitBuild
<1>2. /\ inflight' = n
      /\ ~ready
      /\ failures < Threshold
      /\ UNCHANGED <<failures, delayed, wait, ready, up, crashes, evictions>>
  BY InvSplit DEF SubmitBuild, Wanted, blocked, FoldTypeOK, Threshold
<1>3. FoldTypeOK'
  BY <1>2, InvSplit DEF FoldTypeOK
<1>4. FlightNamed' /\ FlightOpen' /\ ReadyIsSettled'
  BY <1>1, <1>2 DEF FlightNamed, FlightOpen, ReadyIsSettled
<1>q. QED BY <1>1, <1>3, <1>4, InvSplit

\* The archived build changed: the campaign ends.
LEMMA ResetRefusedKeeps ==
    ASSUME IInv, ResetRefused
    PROVE  IInv'
<1>1. /\ Dies
      /\ UNCHANGED <<failures, delayed, wait, evictions, blocks, runtime, late, crashes>>
  BY DEF ResetRefused
<1>q. QED BY <1>1, DiesKeeps, InvSplit DEF FoldTypeOK, ExecutorTypeOK

\* The campaign ends in the middle of a reset.
LEMMA ResetOnlyKeeps ==
    ASSUME IInv, ResetOnly
    PROVE  IInv'
<1>1. /\ Dies
      /\ UNCHANGED <<failures, delayed, wait, evictions, blocks>>
      /\ runtime' = None
      /\ late' \in BOOLEAN
  BY DEF ResetOnly
<1>2. crashes' \in 0..MaxCrashes
  BY FoldAssumption, InvSplit DEF ResetOnly, FoldTypeOK
<1>q. QED BY <1>1, <1>2, DiesKeeps

\* The controller dies at any other moment.
LEMMA CrashKeeps ==
    ASSUME IInv, Crash
    PROVE  IInv'
<1>1. /\ Dies
      /\ UNCHANGED <<failures, delayed, wait, evictions, blocks, runtime, late>>
  BY DEF Crash
<1>2. crashes' \in 0..MaxCrashes
  BY FoldAssumption, InvSplit DEF Crash, FoldTypeOK
<1>q. QED BY <1>1, <1>2, DiesKeeps, InvSplit DEF ExecutorTypeOK

\* What the executor's part of every completion is.
LEMMA TakesTyped ==
    ASSUME IInv, NEW n \in Nonces, Takes(n), blocks' \in 0..MaxBlocks,
           \/ future' = [future EXCEPT ![n] = "none"] /\ timer' = timer
           \/ Raises
    PROVE  ExecutorTypeOK'
<1>1. worker' \in [Nonces -> {"none", "assigned", "running", "ended"}]
  BY InvSplit, CleanedTyped DEF Takes
<1>2. UNCHANGED <<runtime, late, raw>>
  BY DEF Takes
<1>3. /\ future' \in [Nonces -> Outcomes \cup {"none", "pending"}]
      /\ timer' \in [Nonces -> {"off", "armed", "decided"}]
  BY InvSplit DEF Raises, ExecutorTypeOK
<1>q. QED BY <1>1, <1>2, <1>3, InvSplit DEF ExecutorTypeOK

\* A completion finds its own build in flight, and leaves none.
LEMMA TakesOpen ==
    ASSUME IInv, NEW n \in Nonces, Takes(n)
    PROVE  up /\ failures + 1 \in 0..Threshold /\ UNCHANGED <<crashes, evictions>>
BY InvSplit, ExecutorAssumption DEF Takes, FlightOpen, FoldTypeOK, Threshold

\* The build is good.
LEMMA CompleteValueKeeps ==
    ASSUME IInv, NEW n \in Nonces, CompleteValue(n)
    PROVE  IInv'
<1>1. Takes(n)
  BY DEF CompleteValue
<1>2. ExecutorTypeOK'
  BY <1>1, TakesTyped, InvSplit DEF CompleteValue, ExecutorTypeOK
<1>3. /\ inflight' = None /\ failures' = 0 /\ delayed' = FALSE /\ ready' = TRUE /\ up' = up
      /\ wait' = [wait EXCEPT !.active = FALSE]
  BY DEF CompleteValue
<1>4. wait' \in Waits /\ ~wait'.active
  BY <1>3, InvSplit DEF FoldTypeOK, Waits
<1>5. up /\ UNCHANGED <<crashes, evictions>>
  BY <1>1, TakesOpen
<1>6. FoldTypeOK'
  <2>1. failures' \in 0..Threshold /\ inflight' \in Nonces \cup {None}
    BY <1>3 DEF Threshold
  <2>2. delayed' \in BOOLEAN /\ ready' \in BOOLEAN /\ up' \in BOOLEAN
    BY <1>3, InvSplit DEF FoldTypeOK
  <2>3. crashes' \in 0..MaxCrashes /\ evictions' \in 0..MaxEvictions
    BY <1>5, InvSplit DEF FoldTypeOK
  <2>q. QED BY <1>4, <2>1, <2>2, <2>3 DEF FoldTypeOK
<1>7. FlightNamed' /\ FlightOpen' /\ ReadyIsSettled'
  BY <1>3, <1>4, <1>5 DEF FlightNamed, FlightOpen, ReadyIsSettled
<1>q. QED BY <1>2, <1>6, <1>7, InvSplit

\* A completion that goes on, or ends the campaign, with typed records.
LEMMA UnreadyKeeps ==
    ASSUME IInv, NEW n \in Nonces, Takes(n), Proceeds(n) \/ Raises,
           blocks' \in 0..MaxBlocks, failures' \in 0..Threshold,
           delayed' \in BOOLEAN, wait' \in Waits
    PROVE  IInv'
<1>1. ExecutorTypeOK'
  BY TakesTyped DEF Proceeds
<1>2. inflight' = None /\ ready' = FALSE /\ up' \in BOOLEAN
  BY InvSplit DEF Proceeds, Raises, FoldTypeOK
<1>3. FoldTypeOK'
  BY <1>2, TakesOpen, InvSplit DEF FoldTypeOK
<1>4. FlightNamed' /\ FlightOpen' /\ ReadyIsSettled'
  BY <1>2 DEF FlightNamed, FlightOpen, ReadyIsSettled
<1>q. QED BY <1>1, <1>3, <1>4, InvSplit

\* The build failed and is counted, or the count is lost with the campaign.
LEMMA CompleteFailedKeeps ==
    ASSUME IInv, NEW n \in Nonces, CompleteFailed(n)
    PROVE  IInv'
<1>1. Takes(n) /\ wait' = wait /\ (Proceeds(n) \/ Raises)
  BY DEF CompleteFailed
<1>2. blocks' \in 0..MaxBlocks
  BY BlockedTyped, InvSplit DEF CompleteFailed, ExecutorTypeOK
<1>3. failures' \in 0..Threshold /\ delayed' \in BOOLEAN
  BY <1>1, TakesOpen, InvSplit DEF CompleteFailed, CountsFailure, FoldTypeOK
<1>q. QED BY <1>1, <1>2, <1>3, UnreadyKeeps, InvSplit DEF FoldTypeOK

\* A deferral archives the file, or ends the campaign.
LEMMA DefersTyped ==
    ASSUME IInv, NEW n \in Nonces, NEW count \in 0..Threshold,
           runtime' = runtime, Defers(n, count)
    PROVE  /\ Proceeds(n) \/ Raises
           /\ failures' \in 0..Threshold /\ delayed' \in BOOLEAN /\ wait' \in Waits
<1>1. failures' = count /\ delayed' = FALSE
  BY DEF Defers
<1>2. CASE Interrupted
  <2>1. Proceeds(n) /\ wait' = [active |-> TRUE, due |-> FALSE, snapshot |-> runtime]
    BY <1>2 DEF Defers
  <2>2. wait' \in Waits
    BY <2>1, InvSplit DEF Waits, ExecutorTypeOK
  <2>q. QED BY <1>1, <2>1, <2>2
<1>3. CASE ~Interrupted
  BY <1>1, <1>3, InvSplit DEF Defers, FoldTypeOK
<1>q. QED BY <1>2, <1>3

\* The build met a storage failure.
LEMMA CompleteBlockedKeeps ==
    ASSUME IInv, NEW n \in Nonces, CompleteBlocked(n)
    PROVE  IInv'
<1>1. Takes(n) /\ blocks' = blocks /\ Defers(n, failures) /\ runtime' = runtime
  BY DEF CompleteBlocked, Takes
<1>2. failures \in 0..Threshold /\ blocks' \in 0..MaxBlocks
  BY <1>1, InvSplit DEF FoldTypeOK, ExecutorTypeOK
<1>q. QED BY <1>1, <1>2, DefersTyped, UnreadyKeeps

\* The build is good and a write after it is refused.
LEMMA PublishBlockedKeeps ==
    ASSUME IInv, NEW n \in Nonces, PublishBlocked(n)
    PROVE  IInv'
<1>1. Takes(n) /\ Blocked /\ Defers(n, 0) /\ runtime' = runtime
  BY DEF PublishBlocked, Takes
<1>2. 0 \in 0..Threshold /\ blocks' \in 0..MaxBlocks
  BY <1>1, BlockedTyped, InvSplit DEF ExecutorTypeOK, Threshold
<1>q. QED BY <1>1, <1>2, DefersTyped, UnreadyKeeps

\* Delays and waits elapse, pins are lost, the controller starts again.
LEMMA IdleKeeps ==
    ASSUME IInv, DelayOver \/ BackoffElapses \/ Invalidate \/ Start
    PROVE  IInv'
<1>1. UNCHANGED <<executor, failures, inflight, crashes>>
  BY DEF DelayOver, BackoffElapses, Invalidate, Start
<1>2. ExecutorTypeOK' /\ FlightNamed' /\ FlightOpen'
  BY <1>1, InvSplit DEF executor, ExecutorTypeOK, FlightNamed, FlightOpen, Names
<1>3. evictions' \in 0..MaxEvictions
  BY FoldAssumption, InvSplit DEF DelayOver, BackoffElapses, Invalidate, Start, FoldTypeOK
<1>4. wait' \in Waits
  BY InvSplit DEF DelayOver, BackoffElapses, Invalidate, Start, FoldTypeOK, Waits
<1>5. delayed' \in BOOLEAN /\ ready' \in BOOLEAN /\ up' \in BOOLEAN
  BY InvSplit DEF DelayOver, BackoffElapses, Invalidate, Start, FoldTypeOK
<1>6. FoldTypeOK'
  BY <1>1, <1>3, <1>4, <1>5, InvSplit DEF FoldTypeOK
<1>7. ReadyIsSettled'
  <2>1. CASE BackoffElapses
    BY <2>1, InvSplit DEF BackoffElapses, ReadyIsSettled
  <2>2. CASE DelayOver \/ Invalidate \/ Start
    BY <2>2, InvSplit DEF DelayOver, Invalidate, Start, ReadyIsSettled
  <2>q. QED BY <2>1, <2>2
<1>q. QED BY <1>2, <1>6, <1>7, InvSplit

\* A step of the executor's own.
LEMMA ExecutorStepKeeps ==
    ASSUME IInv, ExecutorStep
    PROVE  IInv'
<1>1. UNCHANGED fold /\ ExecutorTypeOK
  BY InvSplit DEF ExecutorStep
<1>2. CASE DeadlinePasses
  BY <1>1, <1>2, DeadlinePassesKeeps, ExecutorOnly
<1>3. ASSUME NEW n \in Nonces, WorkerStep(n) PROVE IInv'
  BY <1>1, <1>3, ClaimKeeps, EndKeeps, ExecutorOnly DEF WorkerStep
<1>4. ASSUME NEW n \in Nonces, TimerStep(n) PROVE IInv'
  BY <1>1, <1>4, TimerKeeps, ExecutorOnly
<1>q. QED BY <1>2, <1>3, <1>4 DEF ExecutorStep

\* The callback of the build.
LEMMA FinishBuildKeeps ==
    ASSUME IInv, NEW n \in Nonces, FinishBuild(n)
    PROVE  IInv'
<1>1. UNCHANGED fold /\ ExecutorTypeOK
  BY InvSplit DEF FinishBuild
<1>q. QED BY <1>1, FinishKeeps, ExecutorOnly DEF FinishBuild

-----------------------------------------------------------------------------
(***************************************************************************)
(* The theorems.                                                           *)
(***************************************************************************)

LEMMA InitInv == Init => IInv
<1> SUFFICES ASSUME Init PROVE IInv
  OBVIOUS
<1>1. ExecutorTypeOK
  <2>1. runtime = None /\ late = FALSE /\ blocks \in 0..MaxBlocks
    BY ExecutorAssumption DEF Init, ExecutorInit
  <2>2. /\ worker \in [Nonces -> {"none", "assigned", "running", "ended"}]
        /\ raw \in [Nonces -> Outcomes \cup {"none", "pending"}]
        /\ future \in [Nonces -> Outcomes \cup {"none", "pending"}]
        /\ timer \in [Nonces -> {"off", "armed", "decided"}]
    BY DEF Init, ExecutorInit
  <2>q. QED BY <2>1, <2>2 DEF ExecutorTypeOK
<1>2. FoldTypeOK
  <2>1. failures \in 0..Threshold /\ crashes \in 0..MaxCrashes /\ evictions \in 0..MaxEvictions
    BY FoldAssumption DEF Init, Threshold
  <2>2. wait \in Waits
    BY DEF Init, NoWait, Waits
  <2>3. delayed \in BOOLEAN /\ ready \in BOOLEAN /\ up \in BOOLEAN /\ inflight = None
    BY DEF Init
  <2>q. QED BY <2>1, <2>2, <2>3 DEF FoldTypeOK
<1>3. FlightNamed /\ FlightOpen /\ ReadyIsSettled
  BY DEF Init, FlightNamed, FlightOpen, ReadyIsSettled
<1>q. QED BY <1>1, <1>2, <1>3, InvSplit

LEMMA NextKeeps == IInv /\ [Next]_vars => IInv'
<1> SUFFICES ASSUME IInv, [Next]_vars PROVE IInv'
  OBVIOUS
<1>1. CASE UNCHANGED vars
  <2>1. UNCHANGED fold /\ UNCHANGED executor
    BY <1>1 DEF vars
  <2>2. ExecutorTypeOK' /\ NamesKept
    BY <2>1, InvSplit DEF executor, ExecutorTypeOK, NamesKept, Names
  <2>q. QED BY <2>1, <2>2, ExecutorOnly
<1>2. CASE ExecutorStep
  BY <1>2, ExecutorStepKeeps
<1>3. CASE ResetRefused \/ ResetOnly \/ Crash
  BY <1>3, ResetRefusedKeeps, ResetOnlyKeeps, CrashKeeps
<1>4. CASE DelayOver \/ BackoffElapses \/ Invalidate \/ Start
  BY <1>4, IdleKeeps
<1>5. ASSUME NEW n \in Nonces, SubmitBuild(n) \/ FinishBuild(n)
      PROVE  IInv'
  BY <1>5, SubmitBuildKeeps, FinishBuildKeeps
<1>6. ASSUME NEW n \in Nonces,
             CompleteValue(n) \/ CompleteFailed(n) \/ CompleteBlocked(n) \/ PublishBlocked(n)
      PROVE  IInv'
  BY <1>6, CompleteValueKeeps, CompleteFailedKeeps, CompleteBlockedKeeps, PublishBlockedKeeps
<1>q. QED BY <1>1, <1>2, <1>3, <1>4, <1>5, <1>6 DEF Next

\* The inductive invariant holds in every reachable state.
THEOREM Inductive == Spec => []IInv
<1>1. Init => IInv
  BY InitInv
<1>2. IInv /\ [Next]_vars => IInv'
  BY NextKeeps
<1>q. QED BY <1>1, <1>2, PTL DEF Spec

\* Type correctness: the circuit never counts past its threshold and a storage
\* wait archives a well-formed runtime.json.
THEOREM TypeCorrect == Spec => []TypeOK
<1>1. IInv => TypeOK
  BY DEF IInv
<1>q. QED BY <1>1, Inductive, PTL

\* What the controller calls ready is settled in all three records.
THEOREM ReadySettled == Spec => []ReadyIsSettled
<1>1. IInv => ReadyIsSettled
  BY DEF IInv
<1>q. QED BY <1>1, Inductive, PTL

\* runtime.json names the build the controller waits for: nothing an orphan of a
\* dead controller or a late timer writes takes the file from it.
THEOREM BuildNamed == Spec => []CurrentBuildNamed
<1>1. IInv => CurrentBuildNamed
  BY DEF IInv, FlightNamed, CurrentBuildNamed
<1>q. QED BY <1>1, Inductive, PTL

\* A dependency that is blocked stays blocked: no build is in flight then whose
\* completion could clear the circuit.
LEMMA StepBlocked ==
    ASSUME IInv, [Next]_vars, failures = Threshold
    PROVE  failures' = failures
<1>1. inflight = None
  BY InvSplit DEF FlightOpen, Threshold
<1>2. \A n \in Nonces : ~Takes(n)
  BY <1>1, ExecutorAssumption DEF Takes
<1>3. CASE UNCHANGED vars
  BY <1>3 DEF vars, fold
<1>4. CASE ExecutorStep \/ ResetRefused \/ ResetOnly \/ Crash
  BY <1>4 DEF ExecutorStep, ResetRefused, ResetOnly, Crash, fold
<1>5. CASE DelayOver \/ BackoffElapses \/ Invalidate \/ Start
  BY <1>5 DEF DelayOver, BackoffElapses, Invalidate, Start
<1>6. ASSUME NEW n \in Nonces, SubmitBuild(n) \/ FinishBuild(n)
      PROVE  failures' = failures
  BY <1>6 DEF SubmitBuild, FinishBuild, fold
<1>7. ASSUME NEW n \in Nonces,
             CompleteValue(n) \/ CompleteFailed(n) \/ CompleteBlocked(n) \/ PublishBlocked(n)
      PROVE  FALSE
  BY <1>2, <1>7 DEF CompleteValue, CompleteFailed, CompleteBlocked, PublishBlocked
<1>q. QED BY <1>3, <1>4, <1>5, <1>6, <1>7 DEF Next

THEOREM StaysBlocked == Spec => BlockedStays
<1>1. IInv /\ [Next]_vars => [failures = Threshold => failures' = failures]_vars
  BY StepBlocked
<1>q. QED BY <1>1, Inductive, PTL DEF Spec, BlockedStays

-----------------------------------------------------------------------------
(***************************************************************************)
(* PART 2.  FeatureExploration.                                            *)
(***************************************************************************)

\* Where an entry is at test, and where it is published.
Testing == {"build", "control", "controlFit", "candidate", "candidateFit", "record", "screen"}
Publishing == {"search", "create", "note", "finish", "settle"}

QueueOK ==
    /\ rows \in Seq(Entries) /\ IsInjective(rows)
    /\ status \in [Entries -> EntryStatuses]
    /\ \A e \in Entries : status[e] # "absent" <=> e \in ToSet(rows)
    /\ source \in [Entries -> 0..2]
    /\ track \in [Entries -> {"none", "pending", "published"}]
    /\ promising \subseteq Entries /\ proposed \subseteq Proposals

\* Nothing is accepted or created twice.
Counts ==
    /\ executed \in [Attempts -> 0..1] /\ outcomes \subseteq Entries
    /\ runs \in [Attempts -> 0..1] /\ finished \subseteq Attempts

\* One process at most is at work, and it has the lock.
Places ==
    /\ pc \in [Procs -> Labels] /\ my \in [Procs -> Locals]
    /\ holder \in Procs \cup {Nobody}
    /\ \A p \in Procs : holder = p <=> pc[p] # "idle"
    /\ starts \in 0..StartLimitBurst
    /\ faults \in 0..MaxFaults

\* What a process at l with the locals m may rely on: its entry is running
\* while it is at test and screened while it is published, and what it found
\* missing is still missing when it makes it.
Held(l, m, st, ex, ru) ==
    /\ l \in Testing =>
            m.cur \in Entries /\ st[m.cur] = "running" /\ m.mode = "step"
    /\ l \in Publishing =>
            m.cur \in Entries /\ st[m.cur] = "screened"
    /\ (l = "retry" \/ (l \in Publishing /\ m.mode = "retry")) =>
            \A e \in m.todo : st[e] = "screened"
    /\ l = "controlFit" => ex[Control] = 0
    /\ l = "candidateFit" => ex[m.cur] = 0
    /\ l = "create" => ru[m.at] = 0

Grounds == \A p \in Procs : Held(pc[p], my[p], status, executed, runs)

ExplorationInv == QueueOK /\ Counts /\ Places /\ Grounds

\* What SettledStays says of a step.
Steady ==
    \A e \in Entries :
        /\ status[e] \in {"rejected", "failed"} => status'[e] = status[e]
        /\ status[e] = "screened" => status'[e] \in {"screened", "failed"}

-----------------------------------------------------------------------------
(***************************************************************************)
(* How a step moves its process.                                           *)
(***************************************************************************)

\* Who is at work is alone.
LEMMA Alone ==
    ASSUME Places, NEW p \in Procs, NEW q \in Procs, pc[p] # "idle", q # p
    PROVE  holder = p /\ pc[q] = "idle"
BY DEF Places

\* The process at work goes on to l.
LEMMA Moved ==
    ASSUME Places, NEW p \in Procs, NEW l \in Labels \ {"idle"}, pc[p] # "idle",
           pc' = [pc EXCEPT ![p] = l], my' \in [Procs -> Locals],
           UNCHANGED lock, faults' \in 0..MaxFaults,
           Held(l, my'[p], status', executed', runs')
    PROVE  Places' /\ Grounds'
<1>1. \A q \in Procs : q # p => pc'[q] = "idle"
    BY Alone DEF Places
<1>2. pc' \in [Procs -> Labels] /\ pc'[p] = l
    BY DEF Places
<1>3. Places'
    BY <1>1, <1>2, Alone DEF Places, lock
<1>4. ASSUME NEW q \in Procs
      PROVE  Held(pc'[q], my'[q], status', executed', runs')
    <2>1. CASE q = p
        BY <2>1, <1>2
    <2>2. CASE q # p
        BY <2>2, <1>1 DEF Held, Testing, Publishing
    <2> QED BY <2>1, <2>2
<1> QED BY <1>3, <1>4 DEF Grounds

\* The process at work leaves.
LEMMA Left ==
    ASSUME Places, NEW p \in Procs, NEW granted \in SUBSET (0..StartLimitBurst),
           pc[p] # "idle", Leave(p, granted), faults' \in 0..MaxFaults
    PROVE  Places' /\ Grounds'
<1>1. NoEntry \in Locals
    BY DEF NoEntry, Locals, Attempts
<1>2. holder = p
    BY DEF Places
<1>3. \A q \in Procs : pc'[q] = "idle"
    BY Alone DEF Places, Leave, Goto
<1>4. Places'
    BY <1>1, <1>2, <1>3, ExplorationAssumption DEF Places, Leave, Goto, Local, Labels
<1>5. Grounds'
    BY <1>3 DEF Grounds, Held, Testing, Publishing
<1> QED BY <1>4, <1>5

\* A process begins while nobody is at work.
LEMMA Begun ==
    ASSUME Places, NEW p \in Procs, NEW l \in {"recover", "candidates"}, holder = Nobody,
           pc' = [pc EXCEPT ![p] = l], my' \in [Procs -> Locals], holder' = p,
           UNCHANGED <<starts, faults>>
    PROVE  Places' /\ Grounds'
<1>1. \A q \in Procs : pc[q] = "idle"
    BY ExplorationAssumption DEF Places
<1>2. \A q \in Procs : q # p => pc'[q] = "idle"
    BY <1>1 DEF Places
<1>3. pc' \in [Procs -> Labels] /\ pc'[p] = l /\ l # "idle"
    BY DEF Places, Labels
<1>4. Places'
    BY <1>2, <1>3 DEF Places
<1>5. Grounds'
    BY <1>2, <1>3 DEF Grounds, Held, Testing, Publishing
<1> QED BY <1>4, <1>5

\* The locals of a process, one of them changed.
LEMMA LocalsTyped ==
    ASSUME NEW m \in Locals, NEW t \in SUBSET Entries, NEW a \in Attempts,
           NEW b \in Attempts, NEW o \in {"refill", "retry", "step"},
           NEW g \in {"pending", "published"}
    PROVE  /\ [m EXCEPT !.todo = t] \in Locals
           /\ [m EXCEPT !.todo = t, !.cur = a, !.at = b] \in Locals
           /\ [m EXCEPT !.mode = o, !.todo = t] \in Locals
           /\ [m EXCEPT !.cur = a] \in Locals
           /\ [m EXCEPT !.at = b] \in Locals
           /\ [m EXCEPT !.got = g] \in Locals
           /\ [m EXCEPT !.cur = a, !.at = b, !.got = g] \in Locals
BY DEF Locals

\* The locals of p are replaced.
LEMMA LocalTyped ==
    ASSUME Places, NEW p \in Procs, NEW m \in Locals, Local(p, m)
    PROVE  my' \in [Procs -> Locals] /\ my'[p] = m
BY DEF Places, Local

-----------------------------------------------------------------------------
(***************************************************************************)
(* How a step writes the queue.                                            *)
(***************************************************************************)

\* Nothing is written.
LEMMA QueueSame ==
    ASSUME QueueOK, UNCHANGED queue, proposed' \subseteq Proposals
    PROVE  QueueOK' /\ Steady
BY DEF QueueOK, queue, Steady

\* Entries that are running, or are screened, get a status that stays legal.
LEMMA StatusWritten ==
    ASSUME QueueOK, NEW e \in Entries, NEW s \in EntryStatuses \ {"absent"},
           status[e] = "running" \/ (status[e] = "screened" /\ s \in {"screened", "failed"}),
           status' = [status EXCEPT ![e] = s],
           UNCHANGED <<rows, source, proposed>>,
           track' \in [Entries -> {"none", "pending", "published"}],
           promising' \subseteq Entries
    PROVE  QueueOK' /\ Steady
<1>1. status' \in [Entries -> EntryStatuses]
    BY DEF QueueOK
<1>2. \A f \in Entries : status'[f] # "absent" <=> status[f] # "absent"
    BY DEF QueueOK
<1>3. QueueOK'
    BY <1>1, <1>2 DEF QueueOK
<1>4. Steady
    BY DEF QueueOK, Steady
<1> QED BY <1>3, <1>4

\* Nothing is counted.
LEMMA CountsSame ==
    ASSUME Counts, UNCHANGED work, UNCHANGED server
    PROVE  Counts'
BY DEF Counts, work, server

-----------------------------------------------------------------------------
(***************************************************************************)
(* Every step keeps the invariant.                                         *)
(***************************************************************************)

\* The planner of the campaign proposes.
LEMMA ProposeKeeps ==
    ASSUME ExplorationInv, Propose
    PROVE  ExplorationInv' /\ Steady
<1>1. QueueOK' /\ Steady
    BY QueueSame DEF ExplorationInv, QueueOK, Propose
<1>2. Counts' /\ Places' /\ Grounds'
    BY DEF ExplorationInv, Counts, Places, Grounds, Propose, queue, work, server, lock
<1> QED BY <1>1, <1>2 DEF ExplorationInv

\* What systemd and the operator do to the unit changes its starts only.
LEMMA UnitKeeps ==
    ASSUME ExplorationInv, StartFails \/ SwitchOn
    PROVE  ExplorationInv' /\ Steady
<1>1. QueueOK' /\ Steady
    BY QueueSame DEF ExplorationInv, QueueOK, StartFails, SwitchOn
<1>2. Counts'
    BY CountsSame DEF ExplorationInv, StartFails, SwitchOn
<1>3. starts' \in 0..StartLimitBurst
    BY ExplorationAssumption DEF ExplorationInv, Places, StartFails, SwitchOn
<1>4. UNCHANGED <<queue, work, server, holder, pc, my, faults>>
    BY DEF StartFails, SwitchOn
<1>5. Places' /\ Grounds'
    BY <1>3, <1>4 DEF ExplorationInv, Places, Grounds, queue, work, server
<1> QED BY <1>1, <1>2, <1>5 DEF ExplorationInv

\* Somebody begins.
LEMMA StartLoopKeeps ==
    ASSUME ExplorationInv, NEW p \in Procs, StartLoop(p) \/ StartRefill(p)
    PROVE  ExplorationInv' /\ Steady
<1>1. QueueOK' /\ Steady
    BY QueueSame DEF ExplorationInv, QueueOK, StartLoop, StartRefill
<1>2. Counts'
    BY CountsSame DEF ExplorationInv, StartLoop, StartRefill
<1>3. CASE StartLoop(p)
    BY <1>1, <1>2, <1>3, Begun DEF ExplorationInv, StartLoop, MayStart, Goto, Places
<1>4. CASE StartRefill(p)
    <2>1. [NoEntry EXCEPT !.mode = "refill"] \in Locals
        BY DEF NoEntry, Locals, Attempts
    <2>2. my' \in [Procs -> Locals]
        BY <1>4, <2>1, LocalTyped DEF ExplorationInv, StartRefill
    <2>3. Places' /\ Grounds'
        BY <1>4, <2>2, Begun DEF ExplorationInv, StartRefill, MayStart, Goto
    <2> QED BY <1>1, <1>2, <2>3 DEF ExplorationInv
<1> QED BY <1>3, <1>4

\* Whatever ends a process gives the lock back.
LEMMA LeavesKeep ==
    ASSUME ExplorationInv, NEW p \in Procs, Done(p) \/ EndRefill(p) \/ Ends(p)
    PROVE  ExplorationInv' /\ Steady
<1>1. QueueOK' /\ Steady
    BY QueueSame DEF ExplorationInv, QueueOK, Done, EndRefill, Ends
<1>2. Counts'
    BY CountsSame DEF ExplorationInv, Done, EndRefill, Ends
<1>3. faults' \in 0..MaxFaults
    BY ExplorationAssumption DEF ExplorationInv, Places, Done, EndRefill, Ends, Fault
<1>4. PICK granted \in SUBSET (0..StartLimitBurst) : Leave(p, granted)
    <2>1. {0} \subseteq 0..StartLimitBurst /\ {starts} \subseteq 0..StartLimitBurst
        BY ExplorationAssumption DEF ExplorationInv, Places
    <2> QED BY <2>1 DEF Done, EndRefill, Ends
<1>5. pc[p] # "idle"
    BY DEF Done, EndRefill, Ends
<1>6. Places' /\ Grounds'
    BY <1>3, <1>4, <1>5, Left DEF ExplorationInv
<1> QED BY <1>1, <1>2, <1>6 DEF ExplorationInv

\* What was running is queued again: only entries at test are running, and
\* nobody is at test.
LEMMA RecoverKeeps ==
    ASSUME ExplorationInv, NEW p \in Procs, Recover(p)
    PROVE  ExplorationInv' /\ Steady
<1>1. status' \in [Entries -> EntryStatuses]
    BY DEF ExplorationInv, QueueOK, Recover, Recovered, EntryStatuses
<1>2. \A e \in Entries : status'[e] # "absent" <=> status[e] # "absent"
    BY DEF Recover, Recovered
<1>3. QueueOK'
    BY <1>1, <1>2 DEF ExplorationInv, QueueOK, Recover
<1>4. Steady
    BY DEF Steady, Recover, Recovered
<1>5. Counts'
    BY CountsSame DEF ExplorationInv, Recover
<1>6. Held("loop", my'[p], status', executed', runs')
    BY DEF Held, Testing, Publishing
<1>7. Places' /\ Grounds'
    BY <1>6, Moved DEF ExplorationInv, Places, Recover, Goto, Labels
<1> QED BY <1>3, <1>4, <1>5, <1>7 DEF ExplorationInv

\* The rows that are due are screened.
LEMMA LoopKeeps ==
    ASSUME ExplorationInv, NEW p \in Procs, NEW due \in SUBSET Due, Loop(p, due)
    PROVE  ExplorationInv' /\ Steady
<1>1. QueueOK' /\ Steady
    BY QueueSame DEF ExplorationInv, QueueOK, Loop
<1>2. Counts'
    BY CountsSame DEF ExplorationInv, Loop
<1>3. due \in SUBSET Entries /\ my[p] \in Locals
    BY DEF ExplorationInv, Places, Due, Pending, With
<1>4. [my[p] EXCEPT !.mode = "retry", !.todo = due] \in Locals
    BY <1>3 DEF Locals
<1>5. my' \in [Procs -> Locals] /\ my'[p] = [my[p] EXCEPT !.mode = "retry", !.todo = due]
    BY <1>4, LocalTyped DEF ExplorationInv, Loop
<1>6. my'[p].todo = due
    BY <1>3, <1>5 DEF Locals
<1>7. Held("retry", my'[p], status', executed', runs')
    BY <1>6 DEF Held, Testing, Publishing, Due, Pending, With, Loop, queue
<1>8. Places' /\ Grounds'
    BY <1>5, <1>7, Moved DEF ExplorationInv, Places, Loop, Goto, Labels
<1> QED BY <1>1, <1>2, <1>8 DEF ExplorationInv

\* The next of the rows that are due is published.
LEMMA RetryKeeps ==
    ASSUME ExplorationInv, NEW p \in Procs, Retry(p)
    PROVE  ExplorationInv' /\ Steady
<1>1. QueueOK' /\ Steady
    BY QueueSame DEF ExplorationInv, QueueOK, Retry
<1>2. Counts'
    BY CountsSame DEF ExplorationInv, Retry
<1>3. my[p] \in Locals /\ Held("retry", my[p], status, executed, runs)
    BY DEF ExplorationInv, Places, Grounds, Retry
<1>4. CASE my[p].todo = {}
    <2>1. NoEntry \in Locals
        BY DEF NoEntry, Locals, Attempts
    <2>2. my' \in [Procs -> Locals]
        BY <1>4, <2>1, LocalTyped DEF ExplorationInv, Retry
    <2>3. Held("candidates", my'[p], status', executed', runs')
        BY DEF Held, Testing, Publishing
    <2>4. Places' /\ Grounds'
        BY <1>4, <2>2, <2>3, Moved DEF ExplorationInv, Places, Retry, Goto, Labels
    <2> QED BY <1>1, <1>2, <2>4 DEF ExplorationInv
<1>5. CASE my[p].todo # {}
    <2>1. PICK e \in my[p].todo :
            /\ Local(p, [my[p] EXCEPT !.todo = @ \ {e}, !.cur = e, !.at = Control])
            /\ Goto(p, "search")
        BY <1>5 DEF Retry
    <2> DEFINE m == [my[p] EXCEPT !.todo = @ \ {e}, !.cur = e, !.at = Control]
    <2>2. e \in Entries /\ e \in Attempts /\ Control \in Attempts /\ my[p].todo \ {e} \in SUBSET Entries
        BY <1>3 DEF Locals, Attempts
    <2>3. m \in Locals /\ m.cur = e /\ m.todo = my[p].todo \ {e}
        BY <1>3, <2>2 DEF Locals
    <2>4. my' \in [Procs -> Locals] /\ my'[p] = m
        BY <2>1, <2>3, LocalTyped DEF ExplorationInv
    <2>5. status' = status
        BY DEF Retry, queue
    <2>6. \A f \in my[p].todo : status[f] = "screened"
        BY <1>3 DEF Held
    <2> HIDE DEF m
    <2>7. Held("search", m, status', executed', runs')
        BY <2>2, <2>3, <2>5, <2>6 DEF Held, Testing, Publishing
    <2>8. Places' /\ Grounds'
        BY <2>1, <2>4, <2>7, Moved DEF ExplorationInv, Places, Retry, Goto, Labels
    <2> QED BY <1>1, <1>2, <2>8 DEF ExplorationInv
<1> QED BY <1>4, <1>5

-----------------------------------------------------------------------------
(***************************************************************************)
(* The refill.                                                             *)
(***************************************************************************)

\* The next stage of a refill has entries at hand.
LEMMA ThenKeeps ==
    ASSUME ExplorationInv, NEW p \in Procs, NEW todo \in SUBSET Entries,
           NEW l \in {"planner", "bundle", "pick"}, pc[p] # "idle", Then(p, todo, l)
    PROVE  ExplorationInv' /\ Steady
<1>1. QueueOK' /\ Steady
    BY QueueSame DEF ExplorationInv, QueueOK, Then
<1>2. Counts'
    BY CountsSame DEF ExplorationInv, Then
<1>3. my[p] \in Locals
    BY DEF ExplorationInv, Places
<1>4. my' \in [Procs -> Locals]
    <2>1. [my[p] EXCEPT !.todo = todo] \in Locals
        BY <1>3 DEF Locals
    <2> QED BY <2>1, LocalTyped DEF ExplorationInv, Then
<1>5. Held(l, my'[p], status', executed', runs')
    BY DEF Held, Testing, Publishing
<1>6. l \in Labels \ {"idle"}
    BY DEF Labels
<1>7. Places' /\ Grounds'
    BY <1>4, <1>5, <1>6, Moved DEF ExplorationInv, Places, Then, Goto
<1> QED BY <1>1, <1>2, <1>7 DEF ExplorationInv

\* A definition by itself is an entry.
LEMMA SinglesTyped == Singles \subseteq Entries
BY DEF Singles, Entries

\* What the candidates stage has at hand are entries.
LEMMA CandidatesKeeps ==
    ASSUME ExplorationInv, NEW p \in Procs, Candidates(p)
    PROVE  ExplorationInv' /\ Steady
<1>1. PICK todo \in SUBSET Entries : Then(p, todo, "planner")
    <2> DEFINE unused == {{d} : d \in Definitions \ UNION ToSet(rows)}
    <2>1. unused \subseteq Entries
        BY DEF Entries
    <2>2. \E todo \in SUBSET unused : Then(p, todo, "planner")
        BY DEF Candidates
    <2> HIDE DEF unused
    <2> QED BY <2>1, <2>2
<1> QED BY <1>1, ThenKeeps DEF Candidates

\* A step that finds no room on the disk does nothing.
LEMMA WaitsDiskKeeps ==
    ASSUME ExplorationInv, NEW p \in Procs, WaitsDisk(p)
    PROVE  ExplorationInv' /\ Steady
<1>1. QueueOK' /\ Steady
    BY QueueSame DEF ExplorationInv, QueueOK, WaitsDisk
<1>2. Counts'
    BY CountsSame DEF ExplorationInv, WaitsDisk
<1>3. faults' \in 0..MaxFaults
    BY ExplorationAssumption DEF ExplorationInv, Places, WaitsDisk, Fault
<1>4. Held("loop", my'[p], status', executed', runs')
    BY DEF Held, Testing, Publishing
<1>5. Places' /\ Grounds'
    BY <1>3, <1>4, Moved DEF ExplorationInv, Places, WaitsDisk, Goto, Labels
<1> QED BY <1>1, <1>2, <1>5 DEF ExplorationInv

\* What the planner asks for are entries.
LEMMA PlannerKeeps ==
    ASSUME ExplorationInv, NEW p \in Procs, Planner(p)
    PROVE  ExplorationInv' /\ Steady
<1>1. proposed \in SUBSET Entries
    BY ExplorationAssumption DEF ExplorationInv, QueueOK
<1> QED BY <1>1, ThenKeeps DEF Planner

\* Two definitions or more together are an entry.
LEMMA BundleKeeps ==
    ASSUME ExplorationInv, NEW p \in Procs, Bundle(p)
    PROVE  ExplorationInv' /\ Steady
<1> DEFINE single == promising \cap With("screened") \cap Singles
<1> DEFINE size == IF Cardinality(single) < BundleSize THEN Cardinality(single) ELSE BundleSize
<1>1. CASE Then(p, {}, "pick")
    BY <1>1, ThenKeeps DEF Bundle
<1>2. ASSUME NEW best \in SUBSET single, Cardinality(best) = size, size >= 2,
             Then(p, {UNION best}, "pick")
      PROVE  ExplorationInv' /\ Steady
    <2> HIDE DEF size
    <2>1. best # {}
        BY <1>2, FS_EmptySet
    <2>2. PICK e : e \in best
        BY <2>1
    <2>3. e \in Singles /\ best \subseteq Singles
        BY <2>2
    <2> HIDE DEF single
    <2>4. e \subseteq UNION best /\ e # {}
        BY <2>2, <2>3 DEF Singles
    <2>5. UNION best \subseteq Definitions
        BY <2>3 DEF Singles
    <2>6. UNION best \in Entries
        BY <2>4, <2>5 DEF Entries
    <2>7. {UNION best} \in SUBSET Entries
        BY <2>6
    <2> QED BY <1>2, <2>7, ThenKeeps DEF Bundle
<1>3. \/ Then(p, {}, "pick")
      \/ size >= 2 /\ \E best \in SUBSET single :
            Cardinality(best) = size /\ Then(p, {UNION best}, "pick")
    BY DEF Bundle
<1> QED BY <1>1, <1>2, <1>3

\* A row is created once.
LEMMA RowCreated ==
    ASSUME NEW s \in Seq(Entries), IsInjective(s), NEW e \in Entries, e \notin ToSet(s)
    PROVE  /\ Append(s, e) \in Seq(Entries) /\ IsInjective(Append(s, e))
           /\ ToSet(Append(s, e)) = ToSet(s) \cup {e}
<1>1. Append(s, e) \in Seq(Entries) /\ Len(Append(s, e)) = Len(s) + 1
    BY AppendProperties
<1>2. \A i \in 1..Len(s) : Append(s, e)[i] = s[i]
    BY AppendProperties
<1>3. Append(s, e)[Len(s) + 1] = e
    BY AppendProperties
<1>4. DOMAIN s = 1..Len(s) /\ DOMAIN Append(s, e) = 1..(Len(s) + 1) /\ Len(s) \in Nat
    BY <1>1
<1>5. \A i \in 1..Len(s) : s[i] # e
    BY <1>4 DEF ToSet
<1>6. IsInjective(Append(s, e))
    <2> SUFFICES ASSUME NEW i \in 1..(Len(s) + 1), NEW j \in 1..(Len(s) + 1),
                        Append(s, e)[i] = Append(s, e)[j]
                 PROVE  i = j
        BY <1>4 DEF IsInjective
    <2>1. CASE i \in 1..Len(s) /\ j \in 1..Len(s)
        BY <2>1, <1>2, <1>4 DEF IsInjective
    <2>2. CASE i = Len(s) + 1 /\ j \in 1..Len(s)
        BY <2>2, <1>2, <1>3, <1>5
    <2>3. CASE j = Len(s) + 1 /\ i \in 1..Len(s)
        BY <2>3, <1>2, <1>3, <1>5
    <2>4. CASE i = Len(s) + 1 /\ j = Len(s) + 1
        BY <2>4
    <2> QED BY <1>4, <2>1, <2>2, <2>3, <2>4
<1>7. ToSet(Append(s, e)) = ToSet(s) \cup {e}
    <2>1. ASSUME NEW x \in ToSet(Append(s, e))
          PROVE  x \in ToSet(s) \cup {e}
        <3>1. PICK i \in 1..(Len(s) + 1) : x = Append(s, e)[i]
            BY <2>1, <1>4 DEF ToSet
        <3>2. CASE i \in 1..Len(s)
            BY <3>1, <3>2, <1>2, <1>4 DEF ToSet
        <3>3. CASE i = Len(s) + 1
            BY <3>1, <3>3, <1>3
        <3> QED BY <3>2, <3>3, <1>4
    <2>2. ASSUME NEW x \in ToSet(s)
          PROVE  x \in ToSet(Append(s, e))
        <3>1. PICK i \in 1..Len(s) : x = s[i]
            BY <2>2, <1>4 DEF ToSet
        <3> QED BY <3>1, <1>2, <1>4 DEF ToSet
    <2>3. e \in ToSet(Append(s, e))
        BY <1>3, <1>4 DEF ToSet
    <2> QED BY <2>1, <2>2, <2>3
<1> QED BY <1>1, <1>6, <1>7

\* INSERT OR IGNORE: only an absent entry is created and queued.
LEMMA EnqueueKeeps ==
    ASSUME ExplorationInv, NEW p \in Procs, Enqueue(p)
    PROVE  ExplorationInv' /\ Steady
<1>1. my[p] \in Locals
    BY DEF ExplorationInv, Places
<1>2. PICK e \in my[p].todo :
        /\ status' = [status EXCEPT ![e] = Inserted(e)]
        /\ rows' = IF status[e] = "absent" THEN Append(rows, e) ELSE rows
        /\ source' = IF status[e] = "absent"
                     THEN [source EXCEPT ![e] = Rank(pc[p])] ELSE source
        /\ Local(p, [my[p] EXCEPT !.todo = @ \ {e}])
    BY DEF Enqueue
<1>3. e \in Entries /\ my[p].todo \ {e} \in SUBSET Entries
    BY <1>1 DEF Locals
<1>4. UNCHANGED <<track, promising, proposed>>
    BY DEF Enqueue
<1>5. Rank(pc[p]) \in 0..2
    BY DEF Enqueue, Rank, Sources
<1>6. QueueOK' /\ Steady
    <2>1. CASE status[e] = "absent"
        <3>1. Inserted(e) = "queued"
            BY <2>1 DEF Inserted
        <3>2. status' = [status EXCEPT ![e] = "queued"] /\ rows' = Append(rows, e)
              /\ source' = [source EXCEPT ![e] = Rank(pc[p])]
            BY <1>2, <2>1, <3>1
        <3>3. e \notin ToSet(rows)
            BY <1>3, <2>1 DEF ExplorationInv, QueueOK
        <3>4. rows' \in Seq(Entries) /\ IsInjective(rows') /\ ToSet(rows') = ToSet(rows) \cup {e}
            BY <1>3, <3>2, <3>3, RowCreated DEF ExplorationInv, QueueOK
        <3>5. status' \in [Entries -> EntryStatuses]
            BY <3>2 DEF ExplorationInv, QueueOK, EntryStatuses
        <3>6. source' \in [Entries -> 0..2]
            BY <1>5, <3>2 DEF ExplorationInv, QueueOK
        <3>7. \A f \in Entries : status'[f] # "absent" <=> f \in ToSet(rows')
            BY <1>3, <3>2, <3>4 DEF ExplorationInv, QueueOK
        <3>8. QueueOK'
            BY <1>4, <3>4, <3>5, <3>6, <3>7 DEF ExplorationInv, QueueOK
        <3>9. Steady
            BY <2>1, <3>2 DEF Steady, ExplorationInv, QueueOK
        <3> QED BY <3>8, <3>9
    <2>2. CASE status[e] # "absent"
        <3>1. status' = status /\ rows' = rows /\ source' = source
            BY <1>2, <1>3, <2>2 DEF ExplorationInv, QueueOK, Inserted
        <3> QED BY <1>4, <3>1, QueueSame DEF ExplorationInv, QueueOK, queue
    <2> QED BY <2>1, <2>2
<1>7. Counts'
    BY CountsSame DEF ExplorationInv, Enqueue
<1>8. my' \in [Procs -> Locals]
    <2>1. [my[p] EXCEPT !.todo = @ \ {e}] \in Locals
        BY <1>1, <1>3 DEF Locals
    <2> QED BY <1>2, <2>1, LocalTyped DEF ExplorationInv
<1>9. pc[p] \in Labels \ {"idle"} /\ pc' = [pc EXCEPT ![p] = pc[p]]
    BY DEF ExplorationInv, Places, Enqueue, Labels
<1>10. Held(pc[p], my'[p], status', executed', runs')
    BY DEF Held, Testing, Publishing, Enqueue
<1>11. Places' /\ Grounds'
    BY <1>8, <1>9, <1>10, Moved DEF ExplorationInv, Places, Enqueue
<1> QED BY <1>6, <1>7, <1>11 DEF ExplorationInv
-----------------------------------------------------------------------------
(***************************************************************************)
(* The test of an entry.                                                   *)
(***************************************************************************)

\* What a process relies on where it is.
LEMMA HeldBy ==
    ASSUME ExplorationInv, NEW p \in Procs
    PROVE  my[p] \in Locals /\ Held(pc[p], my[p], status, executed, runs)
BY DEF ExplorationInv, Places, Grounds

\* A fault is counted up to its bound.
LEMMA FaultTyped ==
    ASSUME Places, Fault
    PROVE  faults' \in 0..MaxFaults
BY ExplorationAssumption DEF Places, Fault

\* The process goes on and writes nothing but its place.
LEMMA GoesOn ==
    ASSUME ExplorationInv, NEW p \in Procs, NEW l \in Labels \ {"idle"}, pc[p] # "idle", Goto(p, l),
           UNCHANGED <<queue, proposed, work, server, lock, my, faults>>,
           Held(l, my[p], status, executed, runs)
    PROVE  ExplorationInv' /\ Steady
<1>1. QueueOK' /\ Steady
    BY QueueSame DEF ExplorationInv, QueueOK
<1>2. Counts'
    BY CountsSame DEF ExplorationInv
<1>3. Held(l, my'[p], status', executed', runs')
    BY DEF queue, work, server
<1>4. Places' /\ Grounds'
    BY <1>3, Moved DEF ExplorationInv, Places, Goto
<1> QED BY <1>1, <1>2, <1>4 DEF ExplorationInv

\* The entry at work is updated.
LEMMA UpdateKeeps ==
    ASSUME ExplorationInv, NEW p \in Procs, NEW s \in EntryStatuses \ {"absent"}, NEW l \in {"loop", "finish"},
           pc[p] # "idle", Update(p, s, l),
           my[p].cur \in Entries,
           status[my[p].cur] = "running" \/
               (status[my[p].cur] = "screened" /\ s \in {"screened", "failed"}),
           UNCHANGED <<track, promising, work, lock>>, faults' \in 0..MaxFaults,
           Held(l, my[p], status', executed', runs')
    PROVE  ExplorationInv' /\ Steady
<1>1. QueueOK' /\ Steady
    <2>1. /\ status' = [status EXCEPT ![my[p].cur] = s]
          /\ UNCHANGED <<rows, source, proposed, track, promising>>
        BY DEF Update
    <2>2. /\ track \in [Entries -> {"none", "pending", "published"}]
          /\ promising \subseteq Entries /\ QueueOK
        BY DEF ExplorationInv, QueueOK
    <2> QED BY <2>1, <2>2, StatusWritten
<1>2. Counts'
    BY CountsSame DEF ExplorationInv, Update
<1>3. my' = my /\ l \in Labels \ {"idle"}
    BY DEF Update, Labels
<1>4. Places' /\ Grounds'
    BY <1>3, Moved DEF ExplorationInv, Places, Update, Goto
<1> QED BY <1>1, <1>2, <1>4 DEF ExplorationInv

\* Nothing is relied on once an entry is left.
LEMMA LoopFree ==
    ASSUME NEW m, NEW st, NEW ex, NEW ru
    PROVE  Held("loop", m, st, ex, ru)
BY DEF Held, Testing, Publishing

\* The first queued entry is at test.
LEMMA PickKeeps ==
    ASSUME ExplorationInv, NEW p \in Procs, Pick(p)
    PROVE  ExplorationInv' /\ Steady
<1>1. CASE With("queued") = {}
    BY <1>1, GoesOn, LoopFree DEF Pick, Labels, queue
<1>2. CASE With("queued") # {}
    <2>1. PICK e \in Entries :
            /\ First(e)
            /\ status' = [status EXCEPT ![e] = "running"]
            /\ Local(p, [my[p] EXCEPT !.cur = e])
            /\ Goto(p, "build")
        BY <1>2 DEF Pick
    <2>2. status[e] = "queued"
        BY <2>1 DEF First, With
    <2>3. status' \in [Entries -> EntryStatuses] /\ status'[e] = "running"
        BY <2>1 DEF ExplorationInv, QueueOK, EntryStatuses
    <2>4. \A f \in Entries : status'[f] # "absent" <=> status[f] # "absent"
        BY <2>1, <2>2 DEF ExplorationInv, QueueOK
    <2>5. QueueOK'
        BY <2>3, <2>4 DEF ExplorationInv, QueueOK, Pick
    <2>6. Steady
        BY <2>1, <2>2 DEF Steady, ExplorationInv, QueueOK
    <2>7. Counts'
        BY CountsSame DEF ExplorationInv, Pick
    <2>8. /\ [my[p] EXCEPT !.cur = e] \in Locals
          /\ [my[p] EXCEPT !.cur = e].cur = e
          /\ [my[p] EXCEPT !.cur = e].mode = "step"
        BY HeldBy DEF Locals, Attempts, Pick
    <2>9. my' \in [Procs -> Locals] /\ my'[p].cur = e /\ my'[p].mode = "step"
        BY <2>1, <2>8, LocalTyped DEF ExplorationInv
    <2>10. Held("build", my'[p], status', executed', runs')
        BY <2>3, <2>9 DEF Held, Testing, Publishing
    <2>11. Places' /\ Grounds'
        BY <2>1, <2>9, <2>10, Moved DEF ExplorationInv, Places, Pick, Goto, Labels
    <2> QED BY <2>5, <2>6, <2>7, <2>11 DEF ExplorationInv
<1> QED BY <1>1, <1>2

\* A build that is rejected or retried ends the test of a running entry.
LEMMA BuildKeeps ==
    ASSUME ExplorationInv, NEW p \in Procs, Build(p) \/ BuildRejected(p) \/ BuildRetried(p)
    PROVE  ExplorationInv' /\ Steady
<1>1. pc[p] = "build" /\ my[p] \in Locals /\ Held("build", my[p], status, executed, runs)
    BY HeldBy DEF Build, BuildRejected, BuildRetried
<1>2. my[p].cur \in Entries /\ status[my[p].cur] = "running" /\ my[p].mode = "step"
    BY <1>1 DEF Held, Testing
<1>3. CASE Build(p)
    <2>1. Held("control", my[p], status, executed, runs)
        BY <1>2 DEF Held, Testing, Publishing
    <2> QED BY <1>1, <1>3, <2>1, GoesOn DEF Build, Labels
<1>4. CASE BuildRejected(p)
    BY <1>1, <1>2, <1>4, UpdateKeeps, LoopFree DEF BuildRejected, EntryStatuses, ExplorationInv, Places
<1>5. CASE BuildRetried(p)
    BY <1>1, <1>2, <1>5, UpdateKeeps, LoopFree, FaultTyped DEF BuildRetried, EntryStatuses, ExplorationInv
<1> QED BY <1>3, <1>4, <1>5

\* An accepted result is looked for; what is not there is fitted.
LEMMA LooksKeep ==
    ASSUME ExplorationInv, NEW p \in Procs, Baseline(p) \/ Candidate(p)
    PROVE  ExplorationInv' /\ Steady
<1>1. my[p] \in Locals /\ Held(pc[p], my[p], status, executed, runs)
    BY HeldBy
<1>2. my[p].cur \in Entries /\ status[my[p].cur] = "running" /\ my[p].mode = "step"
    BY <1>1 DEF Held, Testing, Baseline, Candidate
<1>3. \A a \in Attempts : ~Reusable(a) => executed[a] = 0
    BY DEF ExplorationInv, Counts, Reusable
<1>4. Control \in Attempts /\ my[p].cur \in Attempts
    BY <1>2 DEF Attempts
<1>5. CASE Baseline(p)
    <2> DEFINE l == IF Reusable(Control) THEN "candidate" ELSE "controlFit"
    <2>1. Held(l, my[p], status, executed, runs)
        BY <1>2, <1>3, <1>4 DEF Held, Testing, Publishing
    <2>2. l \in Labels \ {"idle"}
        BY DEF Labels
    <2>3. Goto(p, l)
        BY <1>5 DEF Baseline
    <2> HIDE DEF l
    <2> QED BY <1>5, <2>1, <2>2, <2>3, GoesOn DEF Baseline
<1>6. CASE Candidate(p)
    <2> DEFINE l == IF Reusable(my[p].cur) THEN "record" ELSE "candidateFit"
    <2>1. Held(l, my[p], status, executed, runs)
        BY <1>2, <1>3, <1>4 DEF Held, Testing, Publishing
    <2>2. l \in Labels \ {"idle"}
        BY DEF Labels
    <2>3. Goto(p, l)
        BY <1>6 DEF Candidate
    <2> HIDE DEF l
    <2> QED BY <1>6, <2>1, <2>2, <2>3, GoesOn DEF Candidate
<1> QED BY <1>5, <1>6

\* A fit is accepted where none was: executed stays below two.
LEMMA AcceptKeeps ==
    ASSUME ExplorationInv, NEW p \in Procs, BaselineFit(p) \/ Fit(p)
    PROVE  ExplorationInv' /\ Steady
<1>1. my[p] \in Locals /\ Held(pc[p], my[p], status, executed, runs)
    BY HeldBy
<1>2. my[p].cur \in Entries /\ status[my[p].cur] = "running" /\ my[p].mode = "step"
    BY <1>1 DEF Held, Testing, BaselineFit, Fit
<1>3. ASSUME NEW a \in Attempts, NEW l \in {"candidate", "record"},
             executed[a] = 0, Accept(p, a, l), pc[p] # "idle"
      PROVE  ExplorationInv' /\ Steady
    <2>1. QueueOK' /\ Steady
        BY <1>3, QueueSame DEF ExplorationInv, QueueOK, Accept
    <2>2. executed' \in [Attempts -> 0..1]
        BY <1>3 DEF ExplorationInv, Counts, Accept
    <2>3. Counts'
        BY <1>3, <2>2 DEF ExplorationInv, Counts, Accept, server
    <2>4. Held(l, my'[p], status', executed', runs')
        BY <1>2, <1>3 DEF Held, Testing, Publishing, Accept, queue
    <2>5. l \in Labels \ {"idle"}
        BY DEF Labels
    <2>6. Places' /\ Grounds'
        BY <1>3, <2>4, <2>5, Moved DEF ExplorationInv, Places, Accept, Goto
    <2> QED BY <2>1, <2>3, <2>6 DEF ExplorationInv
<1>4. Control \in Attempts /\ my[p].cur \in Attempts
    BY <1>2 DEF Attempts
<1>5. CASE BaselineFit(p)
    <2>1. executed[Control] = 0
        BY <1>1, <1>5 DEF Held, BaselineFit
    <2> QED BY <1>3, <1>4, <1>5, <2>1 DEF BaselineFit
<1>6. CASE Fit(p)
    <2>1. executed[my[p].cur] = 0
        BY <1>1, <1>6 DEF Held, Fit
    <2> QED BY <1>3, <1>4, <1>6, <2>1 DEF Fit
<1> QED BY <1>5, <1>6

\* The entry is queued again by a process that leaves.
LEMMA BaselineFailsKeeps ==
    ASSUME ExplorationInv, NEW p \in Procs, BaselineFails(p)
    PROVE  ExplorationInv' /\ Steady
<1>1. my[p].cur \in Entries /\ status[my[p].cur] = "running" /\ my[p].mode = "step"
    BY HeldBy DEF Held, Testing, BaselineFails
<1>2. QueueOK' /\ Steady
    <2>1. /\ status' = [status EXCEPT ![my[p].cur] = "queued"]
          /\ UNCHANGED <<rows, source, proposed, track, promising>>
        BY DEF BaselineFails
    <2>2. /\ track \in [Entries -> {"none", "pending", "published"}]
          /\ promising \subseteq Entries /\ QueueOK
        BY DEF ExplorationInv, QueueOK
    <2>3. "queued" \in EntryStatuses \ {"absent"}
        BY DEF EntryStatuses
    <2> QED BY <1>1, <2>1, <2>2, <2>3, StatusWritten
<1>3. Counts'
    BY CountsSame DEF ExplorationInv, BaselineFails
<1>4. Leave(p, 0..StartLimitBurst) /\ pc[p] # "idle" /\ faults' \in 0..MaxFaults
    BY FaultTyped DEF ExplorationInv, BaselineFails
<1>5. Places' /\ Grounds'
    BY <1>4, Left DEF ExplorationInv
<1> QED BY <1>2, <1>3, <1>5 DEF ExplorationInv

\* A fit that fails ends the test of a running entry; so does what the except
\* clause takes for one, which may be an entry that is screened.
LEMMA FailsKeep ==
    ASSUME ExplorationInv, NEW p \in Procs, FitFails(p) \/ Condemned(p)
    PROVE  ExplorationInv' /\ Steady
<1>1. Held(pc[p], my[p], status, executed, runs)
    BY HeldBy
<1>2. pc[p] \in {"candidate", "candidateFit", "record", "screen", "settle"}
    BY DEF FitFails, Condemned
<1>3. my[p].cur \in Entries /\ status[my[p].cur] \in {"running", "screened"}
    BY <1>1, <1>2 DEF Held, Testing, Publishing
<1>4. faults' \in 0..MaxFaults
    BY FaultTyped DEF ExplorationInv, Places, FitFails, Condemned
<1>5. "failed" \in EntryStatuses \ {"absent"}
    BY DEF EntryStatuses
<1>6. Update(p, "failed", "loop") /\ UNCHANGED <<track, promising, work, lock>>
    BY DEF FitFails, Condemned
<1> QED BY <1>2, <1>3, <1>4, <1>5, <1>6, UpdateKeeps, LoopFree

\* The outcome of a running entry is linked.
LEMMA RecordKeeps ==
    ASSUME ExplorationInv, NEW p \in Procs, Record(p)
    PROVE  ExplorationInv' /\ Steady
<1>1. my[p] \in Locals /\ Held("record", my[p], status, executed, runs)
    BY HeldBy DEF Record
<1>2. my[p].cur \in Entries /\ status[my[p].cur] = "running" /\ my[p].mode = "step"
    BY <1>1 DEF Held, Testing
<1>3. QueueOK' /\ Steady
    BY QueueSame DEF ExplorationInv, QueueOK, Record
<1>4. Counts'
    BY <1>2 DEF ExplorationInv, Counts, Record, server
<1>5. Held("screen", my'[p], status', executed', runs')
    BY <1>2 DEF Held, Testing, Publishing, Record, queue
<1>6. Places' /\ Grounds'
    BY <1>5, Moved DEF ExplorationInv, Places, Record, Goto, Labels
<1> QED BY <1>3, <1>4, <1>6 DEF ExplorationInv

\* A running entry is screened.
LEMMA ScreenKeeps ==
    ASSUME ExplorationInv, NEW p \in Procs, Screen(p)
    PROVE  ExplorationInv' /\ Steady
<1>1. my[p] \in Locals /\ Held("screen", my[p], status, executed, runs)
    BY HeldBy DEF Screen
<1>2. my[p].cur \in Entries /\ status[my[p].cur] = "running" /\ my[p].mode = "step"
    BY <1>1 DEF Held, Testing
<1>3. status' = [status EXCEPT ![my[p].cur] = "screened"]
    BY DEF Screen
<1>4. QueueOK' /\ Steady
    <2>1. track' \in [Entries -> {"none", "pending", "published"}]
        BY DEF ExplorationInv, QueueOK, Screen
    <2>2. promising' \subseteq Entries
        BY <1>2 DEF ExplorationInv, QueueOK, Screen
    <2>3. "screened" \in EntryStatuses \ {"absent"}
        BY DEF EntryStatuses
    <2>4. QueueOK /\ UNCHANGED <<rows, source, proposed>>
        BY DEF ExplorationInv, Screen
    <2> QED BY <1>2, <1>3, <2>1, <2>2, <2>3, <2>4, StatusWritten
<1>5. Counts'
    BY CountsSame DEF ExplorationInv, Screen
<1>6. /\ [my[p] EXCEPT !.at = Control] \in Locals
      /\ [my[p] EXCEPT !.at = Control].cur = my[p].cur
      /\ [my[p] EXCEPT !.at = Control].todo = my[p].todo
      /\ [my[p] EXCEPT !.at = Control].mode = my[p].mode
    BY <1>1 DEF Locals, Attempts
<1>7. /\ my' \in [Procs -> Locals] /\ my'[p].cur = my[p].cur
      /\ my'[p].mode = "step"
    BY <1>2, <1>6, LocalTyped DEF ExplorationInv, Screen
<1>8. status'[my[p].cur] = "screened"
    BY <1>2, <1>3 DEF ExplorationInv, QueueOK
<1>9. Held("search", my'[p], status', executed', runs')
    BY <1>2, <1>7, <1>8 DEF Held, Testing, Publishing
<1>10. Places' /\ Grounds'
    BY <1>7, <1>9, Moved DEF ExplorationInv, Places, Screen, Goto, Labels
<1> QED BY <1>4, <1>5, <1>10 DEF ExplorationInv
-----------------------------------------------------------------------------
(***************************************************************************)
(* The publication.                                                        *)
(***************************************************************************)

\* What is published is a screened entry, and what remains of a retry is too.
LEMMA PublishedIs ==
    ASSUME ExplorationInv, NEW p \in Procs, pc[p] \in Publishing
    PROVE  /\ my[p] \in Locals /\ my[p].at \in Attempts
           /\ my[p].cur \in Entries /\ status[my[p].cur] = "screened"
           /\ my[p].mode = "retry" => \A e \in my[p].todo : status[e] = "screened"
BY HeldBy DEF Held, Locals

\* A process stays at the publication of its entry; where it goes to create a
\* run, there is none.
LEMMA PublishingHeld ==
    ASSUME NEW l \in Publishing, NEW m \in Locals, NEW st, NEW ex, NEW ru,
           m.cur \in Entries, st[m.cur] = "screened",
           m.mode = "retry" => \A e \in m.todo : st[e] = "screened",
           l = "create" => ru[m.at] = 0
    PROVE  Held(l, m, st, ex, ru)
BY DEF Held, Testing, Publishing

\* Only an attempt without a run gets one.
LEMMA SearchKeeps ==
    ASSUME ExplorationInv, NEW p \in Procs, Search(p)
    PROVE  ExplorationInv' /\ Steady
<1>1. pc[p] \in Publishing
    BY DEF Search, Publishing
<1>2. PICK l \in {"create", "note", "settle"} :
        Goto(p, l) /\ (l = "create" => runs[my[p].at] = 0)
    <2>1. runs[my[p].at] \in 0..1
        BY <1>1, PublishedIs DEF ExplorationInv, Counts
    <2>2. CASE runs[my[p].at] = 0
        BY <2>2 DEF Search, Found
    <2>3. CASE runs[my[p].at] = 1
        BY <2>3 DEF Search, Found
    <2> QED BY <2>1, <2>2, <2>3
<1>3. l \in Publishing /\ l \in Labels \ {"idle"}
    BY DEF Publishing, Labels
<1>4. Held(l, my[p], status, executed, runs)
    BY <1>1, <1>2, <1>3, PublishedIs, PublishingHeld
<1> QED BY <1>2, <1>3, <1>4, GoesOn DEF Search

\* A run is created where none was: runs stays below two.
LEMMA CreateRunKeeps ==
    ASSUME ExplorationInv, NEW p \in Procs, CreateRun(p)
    PROVE  ExplorationInv' /\ Steady
<1>1. pc[p] \in Publishing
    BY DEF CreateRun, Publishing
<1>2. runs[my[p].at] = 0
    BY HeldBy DEF Held, CreateRun
<1>3. QueueOK' /\ Steady
    BY QueueSame DEF ExplorationInv, QueueOK, CreateRun
<1>4. runs' \in [Attempts -> 0..1]
    BY <1>1, <1>2, PublishedIs DEF ExplorationInv, Counts, CreateRun
<1>5. Counts'
    BY <1>4 DEF ExplorationInv, Counts, CreateRun, work
<1>6. "note" \in Publishing /\ my' = my /\ status' = status
    BY DEF Publishing, CreateRun, queue
<1>7. Held("note", my'[p], status', executed', runs')
    BY <1>1, <1>6, PublishedIs, PublishingHeld
<1>8. Places' /\ Grounds'
    BY <1>7, Moved DEF ExplorationInv, Places, CreateRun, Goto, Labels
<1> QED BY <1>3, <1>5, <1>8 DEF ExplorationInv

\* The run is noted at an entry that stays screened.
LEMMA NoteRunKeeps ==
    ASSUME ExplorationInv, NEW p \in Procs, NoteRun(p)
    PROVE  ExplorationInv' /\ Steady
<1>1. pc[p] \in Publishing
    BY DEF NoteRun, Publishing
<1>2. "finish" \in Publishing /\ "screened" \in EntryStatuses \ {"absent"}
    BY DEF Publishing, EntryStatuses
<1>3. status' = [status EXCEPT ![my[p].cur] = "screened"]
    BY DEF NoteRun, Update
<1>4. /\ status'[my[p].cur] = "screened"
      /\ my[p].mode = "retry" => \A e \in my[p].todo : status'[e] = "screened"
    BY <1>1, <1>3, PublishedIs DEF ExplorationInv, QueueOK, Locals
<1>5. Held("finish", my[p], status', executed', runs')
    BY <1>1, <1>2, <1>4, PublishedIs, PublishingHeld
<1>6. UNCHANGED <<track, promising, work, lock>> /\ faults' \in 0..MaxFaults
      /\ pc[p] # "idle" /\ Update(p, "screened", "finish")
    BY DEF NoteRun, ExplorationInv, Places
<1> QED BY <1>1, <1>2, <1>5, <1>6, PublishedIs, UpdateKeeps

\* The run of the control is followed by that of the entry, and then the end.
LEMMA RunFinishKeeps ==
    ASSUME ExplorationInv, NEW p \in Procs, Finish(p)
    PROVE  ExplorationInv' /\ Steady
<1>1. pc[p] \in Publishing
    BY DEF Finish, Publishing
<1>2. QueueOK' /\ Steady
    BY QueueSame DEF ExplorationInv, QueueOK, Finish
<1>3. Counts'
    BY <1>1, PublishedIs DEF ExplorationInv, Counts, Finish, work
<1>4. status' = status
    BY DEF Finish, queue
<1>5. PICK m \in Locals, l \in {"search", "settle"} :
        /\ m.cur = my[p].cur /\ m.todo = my[p].todo /\ m.mode = my[p].mode
        /\ Local(p, m) /\ Goto(p, l)
    <2>1. CASE my[p].at = Control
        <3> DEFINE m == [my[p] EXCEPT !.at = my[p].cur]
        <3>1. /\ m \in Locals
              /\ m.cur = my[p].cur /\ m.todo = my[p].todo /\ m.mode = my[p].mode
            BY <1>1, PublishedIs DEF Locals
        <3>2. Local(p, m) /\ Goto(p, "search")
            BY <2>1 DEF Finish
        <3> HIDE DEF m
        <3> QED BY <3>1, <3>2
    <2>2. CASE my[p].at # Control
        <3> DEFINE m == [my[p] EXCEPT !.got = "published"]
        <3>1. /\ m \in Locals
              /\ m.cur = my[p].cur /\ m.todo = my[p].todo /\ m.mode = my[p].mode
            BY <1>1, PublishedIs DEF Locals
        <3>2. Local(p, m) /\ Goto(p, "settle")
            BY <2>2 DEF Finish
        <3> HIDE DEF m
        <3> QED BY <3>1, <3>2
    <2> QED BY <2>1, <2>2
<1>6. l \in Publishing /\ l \in Labels \ {"idle"} /\ l # "create"
    BY DEF Publishing, Labels
<1>7. my' \in [Procs -> Locals] /\ my'[p] = m
    BY <1>5, LocalTyped DEF ExplorationInv
<1>8. Held(l, my'[p], status', executed', runs')
    BY <1>1, <1>4, <1>5, <1>6, <1>7, PublishedIs, PublishingHeld
<1>9. Places' /\ Grounds'
    BY <1>5, <1>6, <1>7, <1>8, Moved DEF ExplorationInv, Places, Finish, Goto
<1> QED BY <1>2, <1>3, <1>9 DEF ExplorationInv

\* A publication that fails may have created the run, which was not there.
LEMMA PublishFailsKeeps ==
    ASSUME ExplorationInv, NEW p \in Procs, PublishFails(p)
    PROVE  ExplorationInv' /\ Steady
<1>1. pc[p] \in Publishing
    BY DEF PublishFails, Publishing
<1>2. QueueOK' /\ Steady
    BY QueueSame DEF ExplorationInv, QueueOK, PublishFails
<1>3. pc[p] = "create" => runs[my[p].at] = 0
    BY HeldBy DEF Held
<1>4. Counts'
    <2>1. CASE UNCHANGED server
        BY <2>1, CountsSame DEF ExplorationInv, PublishFails
    <2>2. CASE pc[p] = "create" /\ runs' = [runs EXCEPT ![my[p].at] = @ + 1]
               /\ UNCHANGED finished
        <3>1. runs' \in [Attempts -> 0..1]
            BY <1>1, <1>3, <2>2, PublishedIs DEF ExplorationInv, Counts
        <3> QED BY <2>2, <3>1 DEF ExplorationInv, Counts, PublishFails, work
    <2>3. CASE finished' = finished \cup {my[p].at} /\ UNCHANGED runs
        BY <1>1, <2>3, PublishedIs DEF ExplorationInv, Counts, PublishFails, work
    <2> QED BY <2>1, <2>2, <2>3 DEF PublishFails
<1> DEFINE m == [my[p] EXCEPT !.got = Failed]
<1>5. /\ m \in Locals
      /\ m.cur = my[p].cur /\ m.todo = my[p].todo /\ m.mode = my[p].mode
    BY <1>1, PublishedIs DEF Locals, Failed
<1>6. my' \in [Procs -> Locals] /\ my'[p] = m
    BY <1>5, LocalTyped DEF ExplorationInv, PublishFails
<1> HIDE DEF m
<1>7. "settle" \in Publishing /\ status' = status
    BY DEF Publishing, PublishFails, queue
<1>8. Held("settle", my'[p], status', executed', runs')
    BY <1>1, <1>5, <1>6, <1>7, PublishedIs, PublishingHeld
<1>9. Places' /\ Grounds'
    BY <1>6, <1>8, Moved, FaultTyped DEF ExplorationInv, Places, PublishFails, Goto, Labels
<1> QED BY <1>2, <1>4, <1>9 DEF ExplorationInv

\* The entry says how its publication went; a retry has its other rows left.
LEMMA SettleKeeps ==
    ASSUME ExplorationInv, NEW p \in Procs, Settle(p)
    PROVE  ExplorationInv' /\ Steady
<1>1. pc[p] \in Publishing
    BY DEF Settle, Publishing
<1>2. status' = [status EXCEPT ![my[p].cur] = "screened"]
    BY DEF Settle
<1>3. QueueOK' /\ Steady
    <2>1. track' \in [Entries -> {"none", "pending", "published"}]
        BY <1>1, PublishedIs DEF ExplorationInv, QueueOK, Settle, Locals
    <2>2. promising' \subseteq Entries /\ QueueOK /\ UNCHANGED <<rows, source, proposed>>
        BY DEF ExplorationInv, QueueOK, Settle
    <2>3. "screened" \in EntryStatuses \ {"absent"}
        BY DEF EntryStatuses
    <2> QED BY <1>1, <1>2, <2>1, <2>2, <2>3, PublishedIs, StatusWritten
<1>4. Counts'
    BY CountsSame DEF ExplorationInv, Settle
<1> DEFINE m == [my[p] EXCEPT !.cur = Control, !.at = Control, !.got = "pending"]
           l == IF my[p].mode = "retry" THEN "retry" ELSE "loop"
<1>5. m \in Locals /\ m.todo = my[p].todo
    BY <1>1, PublishedIs DEF Locals, Attempts
<1>6. Local(p, m) /\ Goto(p, l)
    BY DEF Settle
<1>7. my[p].mode = "retry" => \A e \in my[p].todo : status'[e] = "screened"
    BY <1>1, <1>2, PublishedIs DEF ExplorationInv, QueueOK, Locals
<1>8. Held(l, m, status', executed', runs')
    BY <1>5, <1>7 DEF Held, Testing, Publishing
<1>9. l \in Labels \ {"idle"}
    BY DEF Labels
<1> HIDE DEF m, l
<1>10. my' \in [Procs -> Locals] /\ my'[p] = m
    BY <1>5, <1>6, LocalTyped DEF ExplorationInv
<1>11. Places' /\ Grounds'
    BY <1>6, <1>8, <1>9, <1>10, Moved DEF ExplorationInv, Places, Settle, Goto
<1> QED BY <1>3, <1>4, <1>11 DEF ExplorationInv

-----------------------------------------------------------------------------
(***************************************************************************)
(* The theorems.                                                           *)
(***************************************************************************)

\* Nothing is there at first.
LEMMA ExplorationInitInv ==
    ASSUME ExplorationInit
    PROVE  ExplorationInv
<1>1. NoEntry \in Locals
    BY DEF NoEntry, Locals, Attempts
<1>2. QueueOK
    BY DEF ExplorationInit, QueueOK, IsInjective, ToSet, EntryStatuses
<1>3. Counts
    BY DEF ExplorationInit, Counts
<1>4. Places
    BY <1>1, ExplorationAssumption DEF ExplorationInit, Places, Labels
<1>5. Grounds
    BY DEF ExplorationInit, Grounds, Held, Testing, Publishing
<1> QED BY <1>2, <1>3, <1>4, <1>5 DEF ExplorationInv

\* Every step keeps the invariant, and what is over.
LEMMA ExplorationNextKeeps ==
    ASSUME ExplorationInv, [ExplorationNext]_explorationVars
    PROVE  ExplorationInv' /\ Steady
<1>1. CASE Propose \/ StartFails \/ SwitchOn
    BY <1>1, ProposeKeeps, UnitKeeps
<1>2. ASSUME NEW p \in Procs, Works(p)
      PROVE  ExplorationInv' /\ Steady
    <2>1. CASE Recover(p)
        BY <2>1, RecoverKeeps
    <2>2. CASE Retry(p)
        BY <2>2, RetryKeeps
    <2>3. CASE Candidates(p)
        BY <2>3, CandidatesKeeps
    <2>4. CASE Planner(p)
        BY <2>4, PlannerKeeps
    <2>5. CASE Bundle(p)
        BY <2>5, BundleKeeps
    <2>6. CASE Enqueue(p)
        BY <2>6, EnqueueKeeps
    <2>7. CASE EndRefill(p)
        BY <2>7, LeavesKeep
    <2>8. CASE Pick(p)
        BY <2>8, PickKeeps
    <2>9. CASE Build(p) \/ BuildRejected(p) \/ BuildRetried(p)
        BY <2>9, BuildKeeps
    <2>10. CASE Baseline(p) \/ Candidate(p)
        BY <2>10, LooksKeep
    <2>11. CASE BaselineFit(p) \/ Fit(p)
        BY <2>11, AcceptKeeps
    <2>12. CASE BaselineFails(p)
        BY <2>12, BaselineFailsKeeps
    <2>13. CASE FitFails(p) \/ Condemned(p)
        BY <2>13, FailsKeep
    <2>14. CASE Record(p)
        BY <2>14, RecordKeeps
    <2>15. CASE Screen(p)
        BY <2>15, ScreenKeeps
    <2>16. CASE Search(p)
        BY <2>16, SearchKeeps
    <2>17. CASE CreateRun(p)
        BY <2>17, CreateRunKeeps
    <2>18. CASE NoteRun(p)
        BY <2>18, NoteRunKeeps
    <2>19. CASE Finish(p)
        BY <2>19, RunFinishKeeps
    <2>20. CASE PublishFails(p)
        BY <2>20, PublishFailsKeeps
    <2>21. CASE Settle(p)
        BY <2>21, SettleKeeps
    <2>22. CASE WaitsDisk(p)
        BY <2>22, WaitsDiskKeeps
    <2> QED BY <1>2, <2>1, <2>2, <2>3, <2>4, <2>5, <2>6, <2>7, <2>8, <2>9, <2>10, <2>11,
                <2>12, <2>13, <2>14, <2>15, <2>16, <2>17, <2>18, <2>19, <2>20, <2>21,
                <2>22 DEF Works
<1>3. ASSUME NEW p \in Procs, StartLoop(p) \/ StartRefill(p)
      PROVE  ExplorationInv' /\ Steady
    BY <1>3, StartLoopKeeps
<1>4. ASSUME NEW p \in Procs, Done(p) \/ Ends(p)
      PROVE  ExplorationInv' /\ Steady
    BY <1>4, LeavesKeep
<1>5. ASSUME NEW p \in Procs, NEW due \in SUBSET Due, Loop(p, due)
      PROVE  ExplorationInv' /\ Steady
    BY <1>5, LoopKeeps
<1>6. CASE UNCHANGED explorationVars
    <2>1. UNCHANGED <<rows, status, source, track, promising, proposed, executed, outcomes,
                      runs, finished, lock, pc, my, faults>>
        BY <1>6 DEF explorationVars, queue, work, server
    <2>2. QueueOK' /\ Steady
        BY <2>1, QueueSame DEF ExplorationInv, QueueOK, queue
    <2>3. Counts' /\ Places' /\ Grounds'
        BY <2>1 DEF ExplorationInv, Counts, Places, Grounds, lock
    <2> QED BY <2>2, <2>3 DEF ExplorationInv
<1> QED BY <1>1, <1>2, <1>3, <1>4, <1>5, <1>6 DEF ExplorationNext

\* The inductive invariant of the exploration holds.
THEOREM ExplorationInductive == ExplorationSpec => []ExplorationInv
<1>1. ExplorationInit => ExplorationInv
    BY ExplorationInitInv
<1>2. ExplorationInv /\ [ExplorationNext]_explorationVars => ExplorationInv'
    BY ExplorationNextKeeps
<1> QED BY <1>1, <1>2, PTL DEF ExplorationSpec

\* The queue, the processes and what they hold stay well formed, and the lock
\* of the queue is with whoever is at work (exploration_lock).
THEOREM ExplorationTypeCorrect == ExplorationSpec => []ExplorationTypeOK
<1>1. ExplorationInv => ExplorationTypeOK
    BY DEF ExplorationInv, QueueOK, Counts, Places, ExplorationTypeOK
<1> QED BY <1>1, ExplorationInductive, PTL

\* No fit of an attempt is accepted twice and no run of it is created twice,
\* whatever ends the loop and whatever answer is lost (_execute_managed,
\* publish_tracking).
THEOREM OnceOnly == ExplorationSpec => []NothingTwice
<1>1. ExplorationInv => NothingTwice
    BY DEF ExplorationInv, Counts, NothingTwice
<1> QED BY <1>1, ExplorationInductive, PTL

\* A test that is over stays over (enqueue, recover).
THEOREM OverStays == ExplorationSpec => SettledStays
<1>1. ExplorationInv /\ [ExplorationNext]_explorationVars => [\A e \in Entries :
           /\ status[e] \in {"rejected", "failed"} => status'[e] = status[e]
           /\ status[e] = "screened" => status'[e] \in {"screened", "failed"}]_explorationVars
    BY ExplorationNextKeeps DEF Steady
<1> QED BY <1>1, ExplorationInductive, PTL DEF ExplorationSpec, SettledStays

-----------------------------------------------------------------------------
(***************************************************************************)
(* PART 3.  ResourceAdmission.                                             *)
(***************************************************************************)

\* The jobs admitted since the last sample, and what they alone map.
Newer == {i \in Fits : active[i].fresh}
OnlyNewer == Artifacts(Newer) \ Artifacts(Fits \ Newer)

\* The part of AdmissionTypeOK that speaks of the jobs and their memory.
JobsOK ==
    /\ Fits \subseteq JobIds
    /\ active \in [Fits -> Reservations]
    /\ \A i \in Fits : active[i].est <= active[i].peak
    /\ sample \in 0..Host /\ headroom \in Int /\ resident \in 0..MaxResident
    /\ phase \in {"observe", "complete", "resume", "ask"}

\* The part that speaks of the ramp.
RampOK == rung \in Rungs /\ maxFits \in {0, rung}

\* The part that speaks of the turns.
TurnsOK ==
    /\ row \in [Programs -> 0..MaxPeak]
    /\ order \subseteq Programs \X Programs /\ Line(order)
    /\ turn \in 0..4

\* The part that speaks of who waits.
WaitingOK ==
    /\ waiting \subseteq Programs /\ longer \subseteq waiting \X waiting
    /\ aged \subseteq waiting
    /\ \A p, q \in Programs : <<p, q>> \in longer /\ q \in aged => p \in aged

\* What the newer jobs may use and what is left of the sample are within it, so
\* that it is enough to look at what is left; and while jobs are given back all
\* are older than the sample: a matrix one of them maps is charged to nobody.
SpentOK ==
    /\ Estimates(Newer) + Cardinality(OnlyNewer) + headroom <= sample
    /\ Newer # {} => headroom >= Emergency
    /\ phase = "complete" => Newer = {}

AdmissionInv == JobsOK /\ RampOK /\ TurnsOK /\ WaitingOK /\ EstimatesFit /\ SpentOK

-----------------------------------------------------------------------------
(* Sums counted unit by unit.                                               *)

LEMMA SizesTyped ==
    /\ MaxProgram \in Nat /\ Jobs \in Nat /\ Ram \in Nat /\ Emergency \in Nat /\ Host \in Nat
    /\ MaxForeign \in Nat /\ MaxResident \in Nat /\ MaxPeak \in Nat
    /\ \A p \in Programs : Suggested[p] \subseteq 1..MaxPeak
    /\ \A p \in Programs : Typical[p] \in 1..MaxPeak
BY SizeAssumption

LEMMA MaxOfTwo ==
    ASSUME NEW a \in Int, NEW b \in Int
    PROVE  /\ Max({a, b}) \in {a, b}
           /\ Max({a, b}) >= a /\ Max({a, b}) >= b
<1>1. \E x \in {a, b} : \A y \in {a, b} : x >= y
  OBVIOUS
<1> QED BY <1>1 DEF Max

LEMMA MaxOfNone ==
    ASSUME NEW b \in Int
    PROVE  Max({0, b}) \in {0, b} /\ Max({0, b}) >= 0
<1>1. \E x \in {0, b} : \A y \in {0, b} : x >= y
  OBVIOUS
<1> QED BY <1>1 DEF Max

LEMMA MinOfTwo ==
    ASSUME NEW a \in Int, NEW b \in Int
    PROVE  Min({a, b}) \in {a, b}
<1>1. \E x \in {a, b} : \A y \in {a, b} : x <= y
  OBVIOUS
<1> QED BY <1>1 DEF Min

\* There are finitely many units.
LEMMA TotalTyped ==
    ASSUME NEW S, IsFiniteSet(S), NEW f \in [S -> Int]
    PROVE  IsFiniteSet(Units(f)) /\ Total(f) \in Nat
<1>1. IsFiniteSet(1..MaxPeak)
  BY SizesTyped, FS_Interval
<1>2. IsFiniteSet(S \X (1..MaxPeak))
  BY <1>1, FS_Product
<1>3. Units(f) \in SUBSET (S \X (1..MaxPeak))
  BY DEF Units
<1>4. IsFiniteSet(Units(f))
  BY <1>2, <1>3, FS_Subset
<1> QED BY <1>4, FS_CardinalityType DEF Total

\* A sum over fewer and smaller summands is smaller.
LEMMA TotalLess ==
    ASSUME NEW S, NEW T, S \subseteq T, IsFiniteSet(T),
           NEW f \in [S -> Int], NEW g \in [T -> Int], \A i \in S : f[i] <= g[i]
    PROVE  Total(f) <= Total(g)
<1>1. Units(f) \in SUBSET Units(g)
  <2> SUFFICES ASSUME NEW u \in Units(f) PROVE u \in Units(g)
    OBVIOUS
  <2>1. u \in S \X (1..MaxPeak) /\ u[2] <= f[u[1]]
    BY DEF Units
  <2>2. u[1] \in S /\ u[2] \in Int /\ u \in T \X (1..MaxPeak)
    BY <2>1
  <2>3. f[u[1]] <= g[u[1]] /\ f[u[1]] \in Int /\ g[u[1]] \in Int
    BY <2>2
  <2>4. u[2] <= g[u[1]]
    BY <2>1, <2>2, <2>3
  <2> QED BY <2>2, <2>4 DEF Units
<1>2. IsFiniteSet(Units(g))
  BY TotalTyped
<1> QED BY <1>1, <1>2, FS_Subset DEF Total

\* One more summand.
LEMMA TotalAdds ==
    ASSUME NEW S, IsFiniteSet(S), NEW f \in [S -> Int], NEW x, x \notin S,
           NEW v \in Nat, NEW g, g = [i \in S \cup {x} |-> IF i = x THEN v ELSE f[i]]
    PROVE  Total(g) <= Total(f) + v
<1>1. Units(g) \in SUBSET (Units(f) \cup ({x} \X (1..v)))
  <2> SUFFICES ASSUME NEW u \in Units(g) PROVE u \in Units(f) \cup ({x} \X (1..v))
    OBVIOUS
  <2>1. u \in (S \cup {x}) \X (1..MaxPeak) /\ u[2] <= g[u[1]]
    BY DEF Units
  <2>2. CASE u[1] = x
    <3>1. g[u[1]] = v
      BY <2>2
    <3>2. u[2] \in 1..v
      BY <2>1, <3>1, SizesTyped
    <3> QED BY <2>1, <2>2, <3>2
  <2>3. CASE u[1] # x
    <3>1. u[1] \in S /\ g[u[1]] = f[u[1]]
      BY <2>1, <2>3
    <3>2. u \in S \X (1..MaxPeak) /\ u[2] <= f[u[1]]
      BY <2>1, <3>1
    <3> QED BY <3>2 DEF Units
  <2> QED BY <2>2, <2>3
<1>2. IsFiniteSet(Units(f)) /\ Total(f) \in Nat
  BY TotalTyped
<1>3. IsFiniteSet({x}) /\ Cardinality({x}) = 1
  BY FS_Singleton
<1>4. IsFiniteSet(1..v) /\ Cardinality(1..v) = v
  <2>1. IsFiniteSet(1..v) /\ Cardinality(1..v) = IF 1 > v THEN 0 ELSE v - 1 + 1
    BY FS_Interval
  <2> QED BY <2>1
<1>5. IsFiniteSet({x} \X (1..v)) /\ Cardinality({x} \X (1..v)) = v
  <2> DEFINE X == {x}
             V == 1..v
  <2>1. IsFiniteSet(X) /\ Cardinality(X) = 1 /\ IsFiniteSet(V) /\ Cardinality(V) = v
    BY <1>3, <1>4
  <2> HIDE DEF X, V
  <2>2. IsFiniteSet(X \X V) /\ Cardinality(X \X V) = Cardinality(X) * Cardinality(V)
    BY <2>1, FS_Product
  <2>3. 1 * v = v
    OBVIOUS
  <2> QED BY <2>1, <2>2, <2>3 DEF X, V
<1>6. /\ IsFiniteSet(Units(f) \cup ({x} \X (1..v)))
      /\ Cardinality(Units(f) \cup ({x} \X (1..v))) <= Total(f) + v
  <2> DEFINE U == Units(f) \cup ({x} \X (1..v))
             C == Units(f) \cap ({x} \X (1..v))
  <2>1. IsFiniteSet(U) /\ Cardinality(U) = Total(f) + v - Cardinality(C)
    BY <1>2, <1>5, FS_Union DEF Total
  <2>2. Cardinality(C) \in Nat
    <3>1. C \in SUBSET Units(f)
      OBVIOUS
    <3>2. IsFiniteSet(C)
      BY <3>1, <1>2, FS_Subset
    <3> QED BY <3>2, FS_CardinalityType
  <2> HIDE DEF U, C
  <2>3. Cardinality(U) <= Total(f) + v
    BY <2>1, <2>2, <1>2
  <2> QED BY <2>1, <2>3 DEF U
<1>7. Cardinality(Units(g)) <= Cardinality(Units(f) \cup ({x} \X (1..v)))
  BY <1>1, <1>6, FS_Subset
<1>8. /\ Cardinality(Units(g)) \in Nat
      /\ Cardinality(Units(f) \cup ({x} \X (1..v))) \in Nat
  <2>1. IsFiniteSet(Units(g))
    BY <1>1, <1>6, FS_Subset
  <2> QED BY <2>1, <1>6, FS_CardinalityType
<1> QED BY <1>2, <1>6, <1>7, <1>8 DEF Total

\* An empty sum.
LEMMA TotalNone ==
    ASSUME NEW f, DOMAIN f = {}
    PROVE  Total(f) = 0
<1>1. Units(f) = {}
  BY DEF Units
<1> QED BY <1>1, FS_EmptySet DEF Total

-----------------------------------------------------------------------------
(* The jobs and what they map.                                              *)

LEMMA FitsFinite ==
    ASSUME Fits \subseteq JobIds
    PROVE  IsFiniteSet(Fits) /\ Cardinality(Fits) \in Nat
<1>1. IsFiniteSet(JobIds)
  BY SizesTyped, FS_Interval DEF JobIds
<1>2. Fits \in SUBSET JobIds
  OBVIOUS
<1>3. IsFiniteSet(Fits)
  BY <1>1, <1>2, FS_Subset
<1> QED BY <1>3, FS_CardinalityType

\* While fewer jobs run than may, there is an id for one more.
LEMMA NewIdTyped ==
    ASSUME Fits \subseteq JobIds, Cardinality(Fits) < Jobs
    PROVE  NewId \in JobIds \ Fits
<1>1. Fits # JobIds
  <2>1. Cardinality(JobIds) = IF 1 > Jobs THEN 0 ELSE Jobs - 1 + 1
    BY SizesTyped, FS_Interval DEF JobIds
  <2>2. Cardinality(JobIds) = Jobs
    BY <2>1, SizesTyped
  <2> QED BY <2>2, FitsFinite, SizesTyped
<1>2. \E job \in JobIds \ Fits : TRUE
  BY <1>1
<1> QED BY <1>2 DEF NewId

LEMMA ArtifactsFinite ==
    ASSUME NEW S \in SUBSET Fits, Fits \subseteq JobIds
    PROVE  IsFiniteSet(Artifacts(S)) /\ Cardinality(Artifacts(S)) \in Nat
<1> DEFINE T == {ArtifactOf[active[i].p] : i \in S}
           f == [i \in S |-> ArtifactOf[active[i].p]]
<1>1. IsFiniteSet(S)
  BY FitsFinite, FS_Subset
<1>2. f \in Surjection(S, T)
  BY DEF Surjection
<1>3. IsFiniteSet(T)
  <2> HIDE DEF f, T
  <2> QED BY <1>1, <1>2, FS_Surjection
<1>4. Artifacts(S) \in SUBSET T
  BY DEF Artifacts
<1>5. IsFiniteSet(Artifacts(S))
  <2> HIDE DEF f, T
  <2> QED BY <1>3, <1>4, FS_Subset
<1> QED BY <1>5, FS_CardinalityType

\* What a job of program p adds to the mapped artifacts.
LEMMA NewlySharedTyped ==
    ASSUME NEW p
    PROVE  NewlyShared(p) \in {0, 1}
BY DEF NewlyShared

\* A reservation of an admitted job: the job is new, the others are untouched.
LEMMA ReserveTyped ==
    ASSUME JobsOK, NEW p \in Programs, NEW est \in 1..MaxPeak,
           Cardinality(Fits) < Jobs, Reserve(p, est)
    PROVE  /\ NewId \in JobIds \ Fits
           /\ Fits' = Fits \cup {NewId}
           /\ active' \in [Fits' -> Reservations]
           /\ active'[NewId] = [p |-> p, est |-> est, peak |-> est, fresh |-> TRUE]
           /\ \A i \in Fits : active'[i] = active[i]
           /\ Fits' \subseteq JobIds
           /\ \A i \in Fits' : active'[i].est <= active'[i].peak
           /\ headroom' = headroom - (est + NewlyShared(p))
           /\ headroom' \in Int
<1>1. NewId \in JobIds \ Fits
  BY NewIdTyped DEF JobsOK
<1>2. /\ Fits' = Fits \cup {NewId}
      /\ active'[NewId] = [p |-> p, est |-> est, peak |-> est, fresh |-> TRUE]
      /\ \A i \in Fits : active'[i] = active[i]
      /\ headroom' = headroom - (est + NewlyShared(p))
  BY <1>1 DEF Reserve, Charge, Fits
<1>3. [p |-> p, est |-> est, peak |-> est, fresh |-> TRUE] \in Reservations
  BY DEF Reservations
<1>4. active' \in [Fits' -> Reservations]
  <2>1. \A i \in Fits : active[i] \in Reservations
    BY DEF JobsOK
  <2>2. \A i \in Fits' : active'[i] \in Reservations
    BY <1>2, <1>3, <2>1
  <2>3. active' = [i \in Fits' |-> active'[i]]
    BY <1>2 DEF Reserve, Fits
  <2> QED BY <2>2, <2>3
<1>5. \A i \in Fits' : active'[i].est <= active'[i].peak
  <2>1. \A i \in Fits : active'[i].est <= active'[i].peak
    BY <1>2 DEF JobsOK
  <2>2. active'[NewId].est <= active'[NewId].peak
    BY <1>2, SizesTyped
  <2> QED BY <1>2, <2>1, <2>2
<1>6. headroom' \in Int
  BY <1>2, NewlySharedTyped, SizesTyped DEF JobsOK
<1> QED BY <1>1, <1>2, <1>4, <1>5, <1>6 DEF JobsOK

\* The estimates of some of the jobs, in this state and the next.
LEMMA EstimatesTyped ==
    ASSUME JobsOK, NEW S \in SUBSET Fits
    PROVE  /\ [i \in S |-> active[i].est] \in [S -> Int]
           /\ IsFiniteSet(S)
           /\ Estimates(S) \in Nat
<1>1. IsFiniteSet(S)
  BY FitsFinite, FS_Subset DEF JobsOK
<1>2. [i \in S |-> active[i].est] \in [S -> Int]
  BY DEF JobsOK, Reservations
<1>3. Total([i \in S |-> active[i].est]) \in Nat
  <2> DEFINE f == [i \in S |-> active[i].est]
  <2> HIDE DEF f
  <2>1. f \in [S -> Int]
    BY <1>2 DEF f
  <2>2. Total(f) \in Nat
    BY <1>1, <2>1, TotalTyped
  <2> QED BY <2>2 DEF f
<1> QED BY <1>1, <1>2, <1>3 DEF Estimates

\* A reservation adds its estimate to those of the jobs it is counted with.
LEMMA EstimatesGrow ==
    ASSUME JobsOK, NEW p \in Programs, NEW est \in 1..MaxPeak,
           Cardinality(Fits) < Jobs, Reserve(p, est), NEW S \in SUBSET Fits
    PROVE  /\ Total([i \in S \cup {NewId} |-> active'[i].est]) <= Estimates(S) + est
           /\ Total([i \in S \cup {NewId} |-> active'[i].est]) \in Nat
<1> DEFINE f == [i \in S |-> active[i].est]
           g == [i \in S \cup {NewId} |-> active'[i].est]
           x == NewId
<1>1. f \in [S -> Int] /\ IsFiniteSet(S) /\ x \notin S
  BY EstimatesTyped, ReserveTyped
<1>2. g = [i \in S \cup {x} |-> IF i = x THEN est ELSE f[i]]
  <2>1. /\ active'[x].est = est
        /\ \A i \in S : i # x /\ active'[i] = active[i]
    <3>1. active'[NewId] = [p |-> p, est |-> est, peak |-> est, fresh |-> TRUE]
      BY ReserveTyped
    <3>2. \A i \in Fits : active'[i] = active[i]
      BY ReserveTyped
    <3> QED BY <1>1, <3>1, <3>2
  <2>2. \A i \in S \cup {x} : active'[i].est = IF i = x THEN est ELSE f[i]
    BY <2>1
  <2> HIDE DEF x, f
  <2> QED BY <2>2 DEF x
<1>3. est \in Nat
  BY SizesTyped
<1>4. IsFiniteSet(S \cup {x})
  BY <1>1, FS_AddElement
<1>5. g \in [S \cup {x} -> Int]
  <2> HIDE DEF f, g, x
  <2>1. \A i \in S : f[i] \in Int
    BY <1>1
  <2> QED BY <1>2, <1>3, <2>1
<1> HIDE DEF f, g, x
<1>6. Total(g) <= Total(f) + est
  BY <1>1, <1>2, <1>3, TotalAdds
<1>7. Total(g) \in Nat
  BY <1>4, <1>5, TotalTyped
<1> QED BY <1>6, <1>7 DEF f, g, x, Estimates

\* The artifacts mapped after a reservation.
LEMMA ArtifactsGrow ==
    ASSUME JobsOK, NEW p \in Programs, NEW est \in 1..MaxPeak,
           Cardinality(Fits) < Jobs, Reserve(p, est), NEW S \in SUBSET Fits
    PROVE  /\ {ArtifactOf[active'[i].p] : i \in S \cup {NewId}} \ {NoArtifact}
                = Artifacts(S) \cup ({ArtifactOf[p]} \ {NoArtifact})
           /\ {ArtifactOf[active'[i].p] : i \in S} \ {NoArtifact} = Artifacts(S)
<1>1. \A i \in S : active'[i] = active[i]
  BY ReserveTyped
<1>2. active'[NewId].p = p
  <2>1. active'[NewId] = [p |-> p, est |-> est, peak |-> est, fresh |-> TRUE]
    BY ReserveTyped
  <2> QED BY <2>1
<1> QED BY <1>1, <1>2 DEF Artifacts

\* A set of artifacts with one more.
LEMMA OneMore ==
    ASSUME NEW S, IsFiniteSet(S), NEW T, IsFiniteSet(T), NEW x, T \subseteq S \cup {x}
    PROVE  Cardinality(T) <= Cardinality(S) + 1
<1> DEFINE U == S \cup {x}
<1>1. IsFiniteSet(U) /\ Cardinality(U) <= Cardinality(S) + 1
  <2>1. Cardinality(S) \in Nat
    BY FS_CardinalityType
  <2>2. /\ IsFiniteSet(S \cup {x})
        /\ Cardinality(S \cup {x}) = IF x \in S THEN Cardinality(S) ELSE Cardinality(S) + 1
    BY FS_AddElement
  <2> QED BY <2>1, <2>2
<1>2. T \in SUBSET U
  OBVIOUS
<1> HIDE DEF U
<1>3. Cardinality(T) <= Cardinality(U)
  BY <1>1, <1>2, FS_Subset
<1>4. Cardinality(S) \in Nat /\ Cardinality(T) \in Nat /\ Cardinality(U) \in Nat
  BY <1>1, FS_CardinalityType
<1> QED BY <1>1, <1>3, <1>4

\* What a job that may start now fits into.
LEMMA AdmitsMeans ==
    ASSUME JobsOK, NEW p \in Programs, NEW est \in 1..MaxPeak, Admits(p, est)
    PROVE  /\ Private \in Nat /\ Shared \in Nat
           /\ Estimates(Fits) <= Private
           /\ Private + est + Shared + NewlyShared(p) + resident + Emergency <= Ram
           /\ est + NewlyShared(p) + Emergency <= headroom
<1> DEFINE f == [i \in Fits |-> active[i].est]
           g == [i \in Fits |-> active[i].peak]
<1>1. IsFiniteSet(Fits) /\ f \in [Fits -> Int]
  BY EstimatesTyped
<1>2. g \in [Fits -> Int] /\ \A i \in Fits : f[i] <= g[i]
  BY DEF JobsOK, Reservations
<1>3. Total(f) <= Total(g) /\ Total(g) \in Nat
  <2> HIDE DEF f, g
  <2> QED BY <1>1, <1>2, TotalLess, TotalTyped
<1>4. Private \in Nat /\ Estimates(Fits) <= Private
  BY <1>3 DEF Private, Estimates
<1>5. Shared \in Nat
  BY ArtifactsFinite DEF Shared, Mapped, JobsOK
<1>6. est \in Nat /\ NewlyShared(p) \in Nat /\ resident \in Nat /\ Emergency \in Nat
      /\ Ram \in Nat /\ headroom \in Int
  BY NewlySharedTyped, SizesTyped DEF JobsOK
<1>7. "memory" \notin Blockers(p, est) /\ "host" \notin Blockers(p, est)
  BY DEF Admits
<1>8. ~(Private + est + Shared + NewlyShared(p) + resident + Emergency > Ram)
  BY <1>7 DEF Blockers
<1>9. ~(est + NewlyShared(p) + Emergency > headroom)
  BY <1>7 DEF Blockers
<1>10. Private + est + Shared + NewlyShared(p) + resident + Emergency <= Ram
  BY <1>4, <1>5, <1>6, <1>8
<1>11. est + NewlyShared(p) + Emergency <= headroom
  BY <1>6, <1>9
<1> QED BY <1>4, <1>5, <1>10, <1>11

\* The mapped artifacts are those of the newer jobs and those of the older.
LEMMA MappedSplits ==
    Mapped = Artifacts(Newer) \cup Artifacts(Fits \ Newer)
BY DEF Mapped, Artifacts, Newer

\* A matrix is charged to the job that maps it first.
LEMMA ChargedOnce ==
    ASSUME JobsOK, NEW p \in Programs, NEW est \in 1..MaxPeak,
           Cardinality(Fits) < Jobs, Reserve(p, est)
    PROVE  /\ Shared' \in Nat /\ Shared' <= Shared + NewlyShared(p)
           /\ Newer' = Newer \cup {NewId} /\ Fits' \ Newer' = Fits \ Newer
           /\ Cardinality(OnlyNewer') \in Nat
           /\ Cardinality(OnlyNewer') <= Cardinality(OnlyNewer) + NewlyShared(p)
<1> DEFINE new == {ArtifactOf[p]} \ {NoArtifact}
<1>1. /\ Fits' = Fits \cup {NewId} /\ NewId \notin Fits
      /\ active'[NewId].fresh
      /\ \A i \in Fits : active'[i] = active[i]
  <2>1. active'[NewId] = [p |-> p, est |-> est, peak |-> est, fresh |-> TRUE]
    BY ReserveTyped
  <2> QED BY <2>1, ReserveTyped
<1>2. Newer' = Newer \cup {NewId} /\ Fits' \ Newer' = Fits \ Newer
  BY <1>1 DEF Newer
<1>3. Newer \in SUBSET Fits /\ Fits \ Newer \in SUBSET Fits /\ Fits \in SUBSET Fits
  BY DEF Newer
<1>4. Mapped' = Mapped \cup new
  BY <1>1, <1>3, ArtifactsGrow DEF Mapped, Artifacts
<1>5. OnlyNewer' = (Artifacts(Newer) \cup new) \ Artifacts(Fits \ Newer)
  <2>1. {ArtifactOf[active'[i].p] : i \in Newer \cup {NewId}} \ {NoArtifact}
            = Artifacts(Newer) \cup new
    BY <1>3, ArtifactsGrow
  <2>2. {ArtifactOf[active'[i].p] : i \in Fits \ Newer} \ {NoArtifact} = Artifacts(Fits \ Newer)
    BY <1>3, ArtifactsGrow
  <2> QED BY <1>2, <2>1, <2>2 DEF OnlyNewer, Artifacts
<1>6. IsFiniteSet(Mapped) /\ IsFiniteSet(OnlyNewer)
  <2>1. IsFiniteSet(Mapped) /\ IsFiniteSet(Artifacts(Newer))
    BY <1>3, ArtifactsFinite DEF Mapped, JobsOK
  <2>2. OnlyNewer \in SUBSET Artifacts(Newer)
    BY DEF OnlyNewer
  <2> QED BY <2>1, <2>2, FS_Subset
<1>7. Cardinality(Mapped) \in Nat /\ Cardinality(OnlyNewer) \in Nat
  BY <1>6, FS_CardinalityType
<1>8. CASE ArtifactOf[p] \in Mapped \cup {NoArtifact}
  <2>1. Mapped' = Mapped
    BY <1>4, <1>8
  <2>2. OnlyNewer' = OnlyNewer
    <3>1. new \subseteq Artifacts(Newer) \cup Artifacts(Fits \ Newer)
      BY <1>8, MappedSplits
    <3> HIDE DEF new
    <3> QED BY <1>5, <3>1 DEF OnlyNewer
  <2>3. NewlyShared(p) = 0
    BY <1>8 DEF NewlyShared
  <2> QED BY <1>2, <1>7, <2>1, <2>2, <2>3 DEF Shared
<1>9. CASE ArtifactOf[p] \notin Mapped \cup {NoArtifact}
  <2>1. NewlyShared(p) = 1
    BY <1>9 DEF NewlyShared
  <2>2. Mapped' \subseteq Mapped \cup {ArtifactOf[p]}
    BY <1>4
  <2>3. OnlyNewer' \subseteq OnlyNewer \cup {ArtifactOf[p]}
    BY <1>5 DEF OnlyNewer
  <2>4. IsFiniteSet(Mapped') /\ IsFiniteSet(OnlyNewer')
    <3>1. IsFiniteSet(Mapped \cup {ArtifactOf[p]}) /\ IsFiniteSet(OnlyNewer \cup {ArtifactOf[p]})
      BY <1>6, FS_AddElement
    <3> QED BY <2>2, <2>3, <3>1, FS_Subset
  <2>5. Cardinality(Mapped') <= Cardinality(Mapped) + 1
    BY <1>6, <2>2, <2>4, OneMore
  <2>6. Cardinality(OnlyNewer') <= Cardinality(OnlyNewer) + 1
    BY <1>6, <2>3, <2>4, OneMore
  <2>7. Cardinality(Mapped') \in Nat /\ Cardinality(OnlyNewer') \in Nat
    BY <2>4, FS_CardinalityType
  <2> QED BY <1>2, <2>1, <2>5, <2>6, <2>7 DEF Shared
<1> QED BY <1>8, <1>9

\* A job that was admitted keeps what the admission promises.
LEMMA ReserveKeeps ==
    ASSUME JobsOK, EstimatesFit, SpentOK,
           NEW p \in Programs, NEW est \in 1..MaxPeak,
           Cardinality(Fits) < Jobs, Admits(p, est), Reserve(p, est),
           UNCHANGED <<sample, resident, phase>>, phase # "complete"
    PROVE  JobsOK' /\ EstimatesFit' /\ SpentOK'
<1>1. JobsOK'
  BY ReserveTyped DEF JobsOK
<1>2. est \in Nat /\ Emergency \in Nat /\ Ram \in Nat /\ resident \in Nat /\ headroom \in Int
      /\ sample \in Int /\ NewlyShared(p) \in Nat
  BY NewlySharedTyped, SizesTyped DEF JobsOK
<1>3. Newer \in SUBSET Fits /\ Fits \in SUBSET Fits
  BY DEF Newer
<1>4. EstimatesFit'
  <2>1. Estimates(Fits)' <= Estimates(Fits) + est /\ Estimates(Fits)' \in Nat
    BY <1>3, ReserveTyped, EstimatesGrow DEF Estimates
  <2>2. Shared' <= Shared + NewlyShared(p) /\ Shared' \in Nat
    BY ChargedOnce
  <2>3. /\ Private \in Nat /\ Shared \in Nat /\ Estimates(Fits) <= Private
        /\ Private + est + Shared + NewlyShared(p) + resident + Emergency <= Ram
    BY AdmitsMeans
  <2>4. Estimates(Fits) \in Nat
    BY <1>3, EstimatesTyped
  <2>5. Estimates(Fits)' + Shared' + Emergency <= Ram
    BY <1>2, <2>1, <2>2, <2>3, <2>4
  <2> QED BY <2>5 DEF EstimatesFit
<1>5. Estimates(Newer)' <= Estimates(Newer) + est /\ Estimates(Newer)' \in Nat
  BY <1>3, ChargedOnce, EstimatesGrow DEF Estimates
<1>6. Cardinality(OnlyNewer)' <= Cardinality(OnlyNewer) + NewlyShared(p)
      /\ Cardinality(OnlyNewer)' \in Nat
  BY ChargedOnce
<1>7. headroom' = headroom - (est + NewlyShared(p))
  BY ReserveTyped
<1>8. est + NewlyShared(p) + Emergency <= headroom
  BY AdmitsMeans
<1>9. Estimates(Newer) \in Nat /\ Cardinality(OnlyNewer) \in Nat
  <2>1. OnlyNewer \in SUBSET Artifacts(Newer)
    BY DEF OnlyNewer
  <2>2. IsFiniteSet(Artifacts(Newer))
    BY <1>3, ArtifactsFinite DEF JobsOK
  <2>3. IsFiniteSet(OnlyNewer)
    BY <2>1, <2>2, FS_Subset
  <2> QED BY <1>3, <2>3, EstimatesTyped, FS_CardinalityType
<1>10. SpentOK'
  <2>1. Estimates(Newer) + Cardinality(OnlyNewer) + headroom <= sample
    BY DEF SpentOK
  <2>2. Estimates(Newer)' + Cardinality(OnlyNewer)' + headroom' <= sample
    BY <1>2, <1>5, <1>6, <1>7, <1>9, <2>1
  <2>3. headroom' >= Emergency
    BY <1>2, <1>7, <1>8
  <2>4. sample' = sample /\ phase' # "complete"
    OBVIOUS
  <2> QED BY <2>2, <2>3, <2>4 DEF SpentOK
<1> QED BY <1>1, <1>4, <1>10

-----------------------------------------------------------------------------
(* What each action keeps.                                                  *)

\* The jobs do not change, and none is given back.
LEMMA JobsSame ==
    ASSUME JobsOK, EstimatesFit, SpentOK, UNCHANGED <<active, sample, headroom, resident>>,
           phase' = phase \/ phase' \in {"observe", "resume", "ask"}
    PROVE  JobsOK' /\ EstimatesFit' /\ SpentOK'
<1>1. Fits' = Fits /\ Newer' = Newer
  BY DEF Fits, Newer
<1>2. JobsOK'
  BY <1>1 DEF JobsOK
<1>3. EstimatesFit'
  BY <1>1 DEF EstimatesFit, Estimates, Shared, Mapped, Artifacts
<1>4. Estimates(Newer)' = Estimates(Newer) /\ OnlyNewer' = OnlyNewer
  BY <1>1 DEF Estimates, OnlyNewer, Artifacts
<1>5. SpentOK'
  BY <1>1, <1>4 DEF SpentOK
<1> QED BY <1>2, <1>3, <1>5

LEMMA RungsTyped ==
    Rungs \subseteq Nat
BY MinOfTwo, SizesTyped DEF Rungs

LEMMA TurnsSame ==
    ASSUME TurnsOK, UNCHANGED turns
    PROVE  TurnsOK'
BY DEF TurnsOK, turns, Line

LEMMA WaitingSame ==
    ASSUME WaitingOK, UNCHANGED aging
    PROVE  WaitingOK'
BY DEF WaitingOK, aging

LEMMA RampSame ==
    ASSUME RampOK, UNCHANGED limits
    PROVE  RampOK' /\ UNCHANGED resident
BY DEF RampOK, limits

LEMMA ObserveKeeps ==
    ASSUME AdmissionInv, Observe
    PROVE  AdmissionInv'
<1> USE DEF AdmissionInv
<1>1. PICK foreign \in 0..MaxForeign, r \in 0..MaxResident, use \in [Fits -> 0..MaxPeak] :
        LET growth == Total([i \in Fits |-> Max({0, use[i] - active[i].peak})])
            above == Host - foreign - r - Total(use)
            available == Max({0, above})
            remaining == Ram - (Private + growth) - Shared - r
        IN /\ sample' = available
           /\ headroom' = available - growth
           /\ resident' = r
           /\ active' = [i \in Fits |->
                  [active[i] EXCEPT !.peak = Max({@, use[i]}), !.fresh = FALSE]]
           /\ IF Min({remaining, above + Emergency}) <= Emergency
              THEN maxFits' = 0 /\ UNCHANGED rung
              ELSE rung' \in {rung, Jobs} /\ maxFits' = rung'
  BY DEF Observe
<1>2. IsFiniteSet(Fits)
  BY FitsFinite DEF JobsOK
<1>3. PICK growth : growth = Total([i \in Fits |-> Max({0, use[i] - active[i].peak})])
  OBVIOUS
<1>4. growth \in Nat
  <2> DEFINE f == [i \in Fits |-> Max({0, use[i] - active[i].peak})]
  <2>1. \A i \in Fits : Max({0, use[i] - active[i].peak}) \in Int
    <3> SUFFICES ASSUME NEW i \in Fits PROVE Max({0, use[i] - active[i].peak}) \in Int
      OBVIOUS
    <3>1. use[i] - active[i].peak \in Int
      BY SizesTyped DEF JobsOK, Reservations
    <3>2. PICK more : more = use[i] - active[i].peak
      OBVIOUS
    <3>3. Max({0, more}) \in {0, more}
      BY <3>1, <3>2, MaxOfNone
    <3> QED BY <3>1, <3>2, <3>3
  <2>2. f \in [Fits -> Int]
    BY <2>1
  <2> HIDE DEF f
  <2>3. Total(f) \in Nat
    BY <1>2, <2>2, TotalTyped
  <2> QED BY <1>3, <2>3 DEF f
<1>5. PICK available : available = Max({0, Host - foreign - r - Total(use)})
  OBVIOUS
<1>6. available \in 0..Host
  <2>1. use \in [Fits -> Int]
    BY SizesTyped
  <2>2. Total(use) \in Nat
    BY <1>2, <2>1, TotalTyped
  <2>3. PICK rest : rest = Host - foreign - r - Total(use)
    OBVIOUS
  <2>4. rest \in Int /\ rest <= Host
    BY <2>2, <2>3, SizesTyped
  <2>5. Max({0, rest}) \in {0, rest} /\ Max({0, rest}) >= 0
    BY <2>4, MaxOfNone
  <2>6. available = Max({0, rest})
    BY <1>5, <2>3
  <2> QED BY <2>4, <2>5, <2>6, SizesTyped
<1>7. /\ sample' = available /\ headroom' = available - growth /\ resident' = r
      /\ phase' = "complete" /\ UNCHANGED <<turns, aging>>
  BY <1>1, <1>3, <1>5 DEF Observe
<1>8. /\ Fits' = Fits
      /\ \A i \in Fits : active'[i] =
            [active[i] EXCEPT !.peak = Max({active[i].peak, use[i]}), !.fresh = FALSE]
  BY <1>1 DEF Fits
<1>9. \A i \in Fits : /\ active'[i] \in Reservations /\ active'[i].est <= active'[i].peak
                      /\ active'[i].p = active[i].p /\ active'[i].est = active[i].est
                      /\ ~active'[i].fresh
  <2> SUFFICES ASSUME NEW i \in Fits
               PROVE  /\ active'[i] \in Reservations /\ active'[i].est <= active'[i].peak
                      /\ active'[i].p = active[i].p /\ active'[i].est = active[i].est
                      /\ ~active'[i].fresh
    OBVIOUS
  <2>1. active[i] \in Reservations /\ active[i].est <= active[i].peak
    BY DEF JobsOK
  <2>2. PICK top : top = Max({active[i].peak, use[i]})
    OBVIOUS
  <2>3. active[i].peak \in 1..MaxPeak /\ active[i].est \in 1..MaxPeak /\ use[i] \in 0..MaxPeak
    BY <2>1 DEF Reservations
  <2>4. top \in 1..MaxPeak /\ top >= active[i].peak
    <3>1. PICK a, b : a = active[i].peak /\ b = use[i]
      OBVIOUS
    <3>2. a \in Int /\ b \in Int
      BY <2>3, <3>1, SizesTyped
    <3>3. Max({a, b}) \in {a, b} /\ Max({a, b}) >= a
      BY <3>2, MaxOfTwo
    <3>4. top = Max({a, b})
      BY <2>2, <3>1
    <3> QED BY <2>3, <3>1, <3>3, <3>4, SizesTyped
  <2>5. active'[i] = [active[i] EXCEPT !.peak = top, !.fresh = FALSE]
    BY <1>8, <2>2
  <2>6. /\ active'[i] \in Reservations /\ active'[i].peak = top
        /\ active'[i].p = active[i].p /\ active'[i].est = active[i].est
        /\ ~active'[i].fresh
    BY <2>1, <2>4, <2>5 DEF Reservations
  <2>7. active'[i].est <= active'[i].peak
    BY <2>1, <2>3, <2>4, <2>6, SizesTyped
  <2> QED BY <2>6, <2>7
<1>10. active' \in [Fits' -> Reservations]
  <2>1. active' = [i \in Fits' |-> active'[i]]
    BY <1>1, <1>8
  <2> QED BY <1>8, <1>9, <2>1
<1>11. JobsOK'
  <2>1. headroom' \in Int /\ resident' \in 0..MaxResident /\ sample' \in 0..Host
    BY <1>4, <1>6, <1>7, SizesTyped
  <2> QED BY <1>7, <1>8, <1>9, <1>10, <2>1 DEF JobsOK
<1>12. EstimatesFit'
  <2>1. Estimates(Fits)' = Estimates(Fits)
    <3>1. [i \in Fits |-> active'[i].est] = [i \in Fits |-> active[i].est]
      BY <1>9
    <3> QED BY <1>8, <3>1 DEF Estimates
  <2>2. Shared' = Shared
    <3>1. {ArtifactOf[active'[i].p] : i \in Fits} = {ArtifactOf[active[i].p] : i \in Fits}
      BY <1>9
    <3> QED BY <1>8, <3>1 DEF Shared, Mapped, Artifacts
  <2> QED BY <1>8, <2>1, <2>2 DEF EstimatesFit
<1>13. Newer' = {}
  BY <1>8, <1>9 DEF Newer
<1>14. SpentOK'
  <2>1. Estimates(Newer)' = 0
    BY <1>13, TotalNone DEF Estimates
  <2>2. Cardinality(OnlyNewer)' = 0
    <3>1. OnlyNewer' = {}
      BY <1>13 DEF OnlyNewer, Artifacts
    <3> QED BY <3>1, FS_EmptySet
  <2>3. headroom' <= sample'
    BY <1>4, <1>6, <1>7
  <2>4. headroom' \in Int
    BY <1>11 DEF JobsOK
  <2> QED BY <1>13, <2>1, <2>2, <2>3, <2>4 DEF SpentOK
<1>15. RampOK'
  <2>1. \/ maxFits' = 0 /\ rung' = rung
        \/ rung' \in {rung, Jobs} /\ maxFits' = rung'
    BY <1>1
  <2> QED BY <2>1 DEF RampOK, Rungs
<1> QED BY <1>7, <1>11, <1>12, <1>14, <1>15, TurnsSame, WaitingSame

LEMMA ReleaseKeeps ==
    ASSUME AdmissionInv, NEW job \in JobIds, Release(job)
    PROVE  AdmissionInv'
<1> USE DEF AdmissionInv
<1>1. /\ Fits' = Fits \ {job} /\ \A i \in Fits' : active'[i] = active[i]
      /\ active' = [i \in Fits' |-> active'[i]]
  BY DEF Release, Restrict, Fits
<1>2. UNCHANGED <<sample, headroom, limits, turns, aging, phase>> /\ phase = "complete"
  BY DEF Release
<1>3. JobsOK'
  <2>1. active' \in [Fits' -> Reservations]
    BY <1>1 DEF JobsOK
  <2> QED BY <1>1, <1>2, <2>1, RampSame DEF JobsOK
<1>4. Newer = {} /\ Newer' = {}
  <2>1. Newer = {}
    BY <1>2 DEF SpentOK
  <2> QED BY <1>1, <2>1 DEF Newer
<1>5. SpentOK'
  <2>1. Estimates(Newer)' = 0 /\ Estimates(Newer) = 0
    BY <1>4, TotalNone DEF Estimates
  <2>2. OnlyNewer' = {} /\ OnlyNewer = {}
    BY <1>4 DEF OnlyNewer, Artifacts
  <2> QED BY <1>2, <1>4, <2>1, <2>2 DEF SpentOK
<1>6. EstimatesFit'
  <2> SUFFICES ASSUME Fits' # {} PROVE Estimates(Fits)' + Shared' + Emergency <= Ram
    BY DEF EstimatesFit
  <2>1. Estimates(Fits) + Shared + Emergency <= Ram
    BY <1>1 DEF EstimatesFit
  <2>2. Estimates(Fits)' <= Estimates(Fits) /\ Estimates(Fits)' \in Nat /\ Estimates(Fits) \in Nat
    <3> DEFINE S == Fits \ {job}
               f == [i \in S |-> active[i].est]
               g == [i \in Fits |-> active[i].est]
    <3>1. S \in SUBSET Fits /\ Fits \in SUBSET Fits
      OBVIOUS
    <3>2. f \in [S -> Int] /\ g \in [Fits -> Int] /\ IsFiniteSet(S) /\ IsFiniteSet(Fits)
      BY <3>1, EstimatesTyped
    <3>3. \A i \in S : f[i] <= g[i]
      BY DEF JobsOK, Reservations
    <3>4. Estimates(Fits)' = Total(f)
      <4>1. Fits' = S
        BY <1>1
      <4>2. [i \in Fits' |-> active'[i].est] = f
        BY <1>1, <4>1
      <4> QED BY <4>2 DEF Estimates
    <3>5. Estimates(Fits) = Total(g)
      BY DEF Estimates
    <3>6. Total(f) <= Total(g) /\ Total(f) \in Nat /\ Total(g) \in Nat
      <4> HIDE DEF f, g, S
      <4> QED BY <3>1, <3>2, <3>3, TotalLess, TotalTyped
    <3> QED BY <3>4, <3>5, <3>6
  <2>3. Shared' <= Shared /\ Shared' \in Nat /\ Shared \in Nat
    <3>1. IsFiniteSet(Mapped) /\ Shared \in Nat
      BY ArtifactsFinite DEF Mapped, Shared, JobsOK
    <3>2. Mapped' \in SUBSET Mapped
      BY <1>1 DEF Mapped, Artifacts
    <3>3. IsFiniteSet(Mapped') /\ Cardinality(Mapped') <= Cardinality(Mapped)
      BY <3>1, <3>2, FS_Subset
    <3> QED BY <3>1, <3>3, FS_CardinalityType DEF Shared
  <2> QED BY <2>1, <2>2, <2>3, SizesTyped
<1> QED BY <1>2, <1>3, <1>5, <1>6, TurnsSame, WaitingSame, RampSame

LEMMA EndsKeep ==
    ASSUME AdmissionInv, Completed \/ Resumed
    PROVE  AdmissionInv'
<1>1. UNCHANGED <<active, sample, headroom, limits, turns, aging>> /\ phase' \in {"resume", "ask"}
  BY DEF Completed, Resumed
<1> QED BY <1>1, JobsSame, TurnsSame, WaitingSame, RampSame DEF AdmissionInv

LEMMA ResumeKeeps ==
    ASSUME AdmissionInv, Resume
    PROVE  AdmissionInv'
<1> USE DEF AdmissionInv
<1>1. PICK p \in Programs : /\ Foremost(p, Resumable) /\ Reserve(p, row[p])
                            /\ row' = [row EXCEPT ![p] = 0]
  BY DEF Resume
<1>2. /\ phase = "resume" /\ Cardinality(Fits) < Jobs
      /\ UNCHANGED <<sample, limits, order, turn, aging, phase>>
  BY DEF Resume
<1>3. row[p] \in 1..MaxPeak /\ Admits(p, row[p])
  <2>1. row[p] # 0 /\ Admits(p, row[p])
    BY <1>1 DEF Foremost, Resumable
  <2>2. row[p] \in 0..MaxPeak
    BY DEF TurnsOK
  <2> QED BY <2>1, <2>2, SizesTyped
<1>4. UNCHANGED resident /\ RampOK'
  BY <1>2, RampSame
<1>5. JobsOK' /\ EstimatesFit' /\ SpentOK'
  BY <1>1, <1>2, <1>3, <1>4, ReserveKeeps
<1>6. TurnsOK'
  <2>1. row' \in [Programs -> 0..MaxPeak]
    BY <1>1, SizesTyped DEF TurnsOK
  <2> QED BY <1>2, <2>1 DEF TurnsOK, Line
<1> QED BY <1>2, <1>4, <1>5, <1>6, WaitingSame

\* Who waits after a call of peek_feasible: those it defers were not waiting,
\* so they wait since a later time than all others.
LEMMA PeekedKeeps ==
    ASSUME WaitingOK, Peeked
    PROVE  WaitingOK'
<1>1. Kept \subseteq waiting /\ Kept \subseteq Programs /\ Added \subseteq Programs
      /\ Added \cap waiting = {}
  BY DEF Kept, Added, Unfit, Allowed, WaitingOK
<1>2. /\ waiting' = Kept \cup Added
      /\ longer' = (longer \cap (Kept \X Kept)) \cup (Kept \X Added)
      /\ aged' = aged \cap Kept
  BY DEF Peeked
<1>3. ASSUME NEW p \in Programs, NEW q \in Programs, <<p, q>> \in longer', q \in aged'
      PROVE  p \in aged'
  <2>1. q \in Kept /\ q \in aged /\ q \notin Added
    BY <1>1, <1>2, <1>3
  <2>2. <<p, q>> \in longer /\ p \in Kept
    BY <1>2, <1>3, <2>1
  <2>3. p \in aged
    BY <2>1, <2>2 DEF WaitingOK
  <2> QED BY <1>2, <2>2, <2>3
<1>4. waiting' \subseteq Programs /\ longer' \subseteq waiting' \X waiting' /\ aged' \subseteq waiting'
  BY <1>1, <1>2
<1> QED BY <1>3, <1>4 DEF WaitingOK

\* The program that goes behind all others leaves the line a line.
LEMMA BehindTyped ==
    ASSUME NEW p \in Programs, order \subseteq Programs \X Programs, Line(order)
    PROVE  Behind(p) \subseteq Programs \X Programs /\ Line(Behind(p))
<1>1. Behind(p) \subseteq Programs \X Programs
  BY DEF Behind
<1>2. \A a, b \in Programs :
        <<a, b>> \in Behind(p) <=> a # p /\ (b = p \/ <<a, b>> \in order)
  BY DEF Behind
<1>3. \A a, b \in Programs : <<a, b>> \in order <=> a # b /\ <<b, a>> \notin order
  BY DEF Line
<1>4. \A a, b \in Programs :
        <<a, b>> \in Behind(p) <=> a # b /\ <<b, a>> \notin Behind(p)
  BY <1>2, <1>3
<1>5. \A a, b, c \in Programs :
        <<a, b>> \in order /\ <<b, c>> \in order => <<a, c>> \in order
  BY DEF Line
<1>6. \A a, b, c \in Programs :
        <<a, b>> \in Behind(p) /\ <<b, c>> \in Behind(p) => <<a, c>> \in Behind(p)
  BY <1>2, <1>5
<1> QED BY <1>1, <1>4, <1>6 DEF Line

LEMMA AskKeeps ==
    ASSUME AdmissionInv, NEW p \in Programs, Ask(p)
    PROVE  AdmissionInv'
<1> USE DEF AdmissionInv
<1>1. /\ phase = "ask" /\ Cardinality(Fits) < Jobs /\ Peeked /\ Reserved(p)
      /\ UNCHANGED <<sample, limits, phase>>
  BY DEF Ask
<1>2. PICK est \in Suggested[p] : Settled(p, est)
  BY DEF Ask
<1>3. est \in 1..MaxPeak
  BY SizesTyped
<1>4. UNCHANGED resident /\ RampOK'
  BY <1>1, RampSame
<1>5. WaitingOK'
  BY <1>1, PeekedKeeps
<1>6. JobsOK' /\ EstimatesFit' /\ SpentOK'
  <2>1. CASE Admits(p, est) /\ Reserve(p, est)
    BY <1>1, <1>3, <1>4, <2>1, ReserveKeeps
  <2>2. CASE UNCHANGED <<active, headroom>>
    BY <1>1, <1>4, <2>2, JobsSame
  <2> QED BY <1>2, <2>1, <2>2 DEF Settled
<1>7. TurnsOK'
  <2>1. row' \in [Programs -> 0..MaxPeak]
    <3>1. row' = row \/ row' = [row EXCEPT ![p] = est]
      BY <1>2 DEF Settled
    <3> QED BY <1>3, <3>1, SizesTyped DEF TurnsOK
  <2>2. order' = Behind(p) /\ turn' = (turn + 1) % 5
    BY <1>1 DEF Reserved
  <2>3. order' \subseteq Programs \X Programs /\ Line(order')
    BY <2>2, BehindTyped DEF TurnsOK
  <2>4. turn' \in 0..4
    BY <2>2 DEF TurnsOK
  <2> QED BY <2>1, <2>3, <2>4 DEF TurnsOK
<1> QED BY <1>4, <1>5, <1>6, <1>7

LEMMA AskedKeeps ==
    ASSUME AdmissionInv, Asked
    PROVE  AdmissionInv'
<1> USE DEF AdmissionInv
<1>1. UNCHANGED <<active, sample, headroom, limits, turns>> /\ phase' = "observe"
  BY DEF Asked
<1>2. WaitingOK'
  BY PeekedKeeps, WaitingSame DEF Asked
<1> QED BY <1>1, <1>2, JobsSame, TurnsSame, RampSame

LEMMA AgeKeeps ==
    ASSUME AdmissionInv, Age
    PROVE  AdmissionInv'
<1> USE DEF AdmissionInv
<1>1. /\ UNCHANGED <<active, sample, headroom, limits, turns, waiting, longer, phase>>
      /\ aged' = aged \cup {p \in waiting \ aged :
                               \A q \in waiting \ aged : <<q, p>> \notin longer}
  BY DEF Age
<1>2. WaitingOK'
  <2>1. aged' \subseteq waiting'
    BY <1>1 DEF WaitingOK
  <2>2. ASSUME NEW p \in Programs, NEW q \in Programs, <<p, q>> \in longer, q \in aged'
        PROVE  p \in aged'
    <3>1. p \in waiting
      BY <2>2 DEF WaitingOK
    <3>2. CASE q \in aged
      BY <1>1, <2>2, <3>2 DEF WaitingOK
    <3>3. CASE q \notin aged
      BY <1>1, <2>2, <3>1, <3>3
    <3> QED BY <3>2, <3>3
  <2> QED BY <1>1, <2>1, <2>2 DEF WaitingOK
<1> QED BY <1>1, <1>2, JobsSame, TurnsSame, RampSame

-----------------------------------------------------------------------------
LEMMA AdmissionInitInv == AdmissionInit => AdmissionInv
<1> SUFFICES ASSUME AdmissionInit PROVE AdmissionInv
  OBVIOUS
<1> USE DEF AdmissionInit
<1>1. Fits = {} /\ Newer = {} /\ active \in [Fits -> Reservations]
  BY DEF Fits, Newer
<1>2. JobsOK
  BY <1>1, SizesTyped DEF JobsOK
<1>3. RampOK
  BY DEF RampOK, Rungs
<1>4. TurnsOK
  <2>1. \A p, q \in Programs : <<p, q>> \in order <=> p < q
    OBVIOUS
  <2>2. \A p, q \in Programs : (p < q <=> p # q /\ ~(q < p))
    BY SizesTyped DEF Programs
  <2>3. \A p, q, r \in Programs : p < q /\ q < r => p < r
    BY SizesTyped DEF Programs
  <2>4. Line(order)
    BY <2>1, <2>2, <2>3 DEF Line
  <2>5. row \in [Programs -> 0..MaxPeak] /\ turn \in 0..4
    BY SizesTyped
  <2>6. order \subseteq Programs \X Programs
    OBVIOUS
  <2> QED BY <2>4, <2>5, <2>6 DEF TurnsOK
<1>5. WaitingOK
  BY DEF WaitingOK
<1>6. EstimatesFit
  BY <1>1 DEF EstimatesFit
<1>7. SpentOK
  <2>1. Estimates(Newer) = 0
    BY <1>1, TotalNone DEF Estimates
  <2>2. OnlyNewer = {}
    BY <1>1 DEF OnlyNewer, Artifacts
  <2>3. Cardinality(OnlyNewer) = 0
    BY <2>2, FS_EmptySet
  <2> QED BY <1>1, <2>1, <2>3, SizesTyped DEF SpentOK
<1> QED BY <1>2, <1>3, <1>4, <1>5, <1>6, <1>7 DEF AdmissionInv

LEMMA AdmissionNextKeeps == AdmissionInv /\ [AdmissionNext]_admissionVars => AdmissionInv'
<1> SUFFICES ASSUME AdmissionInv, [AdmissionNext]_admissionVars PROVE AdmissionInv'
  OBVIOUS
<1>1. CASE Observe
  BY <1>1, ObserveKeeps
<1>2. CASE Completed \/ Resumed
  BY <1>2, EndsKeep
<1>3. CASE Resume
  BY <1>3, ResumeKeeps
<1>4. CASE Asked
  BY <1>4, AskedKeeps
<1>5. CASE Age
  BY <1>5, AgeKeeps
<1>6. ASSUME NEW i \in JobIds, Release(i) PROVE AdmissionInv'
  BY <1>6, ReleaseKeeps
<1>7. ASSUME NEW p \in Programs, Ask(p) PROVE AdmissionInv'
  BY <1>7, AskKeeps
<1>8. CASE UNCHANGED admissionVars
  <2>1. UNCHANGED <<active, sample, headroom, limits, turns, aging, phase>>
    BY <1>8 DEF admissionVars
  <2> QED BY <2>1, JobsSame, TurnsSame, WaitingSame, RampSame DEF AdmissionInv
<1> QED BY <1>1, <1>2, <1>3, <1>4, <1>5, <1>6, <1>7, <1>8 DEF AdmissionNext

\* The invariant holds in every reachable state, for every number of programs and
\* jobs, every budget and every estimate.
THEOREM AdmissionInductive == AdmissionSpec => []AdmissionInv
<1>1. AdmissionInit => AdmissionInv
  BY AdmissionInitInv
<1>2. AdmissionInv /\ [AdmissionNext]_admissionVars => AdmissionInv'
  BY AdmissionNextKeeps
<1> QED BY <1>1, <1>2, PTL DEF AdmissionSpec

\* The admission's state is well formed: the reservations are a strict line that
\* _lane and fair_program_order may rely on, the ramp is a rung of its ladder or
\* paused, and whoever waits longer than a program that has aged has aged too.
THEOREM AdmissionTypeCorrect == AdmissionSpec => []AdmissionTypeOK
<1>1. AdmissionInv => AdmissionTypeOK
  <2> SUFFICES ASSUME AdmissionInv PROVE AdmissionTypeOK
    OBVIOUS
  <2>1. \E jobs \in SUBSET JobIds : active \in [jobs -> Reservations]
    BY DEF AdmissionInv, JobsOK
  <2> QED BY <2>1 DEF AdmissionInv, JobsOK, RampOK, TurnsOK, WaitingOK, Fits, AdmissionTypeOK
<1> QED BY <1>1, AdmissionInductive, PTL

\* ResourceAdmission.blockers and reserve: the estimates of the admitted jobs,
\* their shared matrices and the emergency reserve fit in ram_gib together.
THEOREM FitsBudget == AdmissionSpec => []EstimatesFit
<1>1. AdmissionInv => EstimatesFit
  BY DEF AdmissionInv
<1> QED BY <1>1, AdmissionInductive, PTL

\* The charge of memory_headroom_gib at each reservation: jobs admitted between
\* two samples fit in the first of them together.
THEOREM SpentOnce == AdmissionSpec => []SampleSpentOnce
<1>1. AdmissionInv => SampleSpentOnce
  <2> SUFFICES ASSUME AdmissionInv, Newer # {}
               PROVE  Estimates(Newer) + Cardinality(OnlyNewer) + Emergency <= sample
    BY DEF SampleSpentOnce, Newer, OnlyNewer
  <2>1. JobsOK /\ SpentOK
    BY DEF AdmissionInv
  <2>2. Newer \in SUBSET Fits
    BY DEF Newer
  <2>3. Estimates(Newer) \in Nat
    BY <2>1, <2>2, EstimatesTyped
  <2>4. Cardinality(OnlyNewer) \in Nat
    <3>1. OnlyNewer \in SUBSET Artifacts(Newer)
      BY DEF OnlyNewer
    <3>2. IsFiniteSet(Artifacts(Newer))
      BY <2>1, <2>2, ArtifactsFinite DEF JobsOK
    <3> QED BY <3>1, <3>2, FS_Subset, FS_CardinalityType
  <2>5. /\ Estimates(Newer) + Cardinality(OnlyNewer) + headroom <= sample
        /\ headroom >= Emergency
    BY <2>1 DEF SpentOK
  <2>6. headroom \in Int /\ sample \in Int /\ Emergency \in Int
    BY <2>1, SizesTyped DEF JobsOK
  <2> QED BY <2>3, <2>4, <2>5, <2>6
<1> QED BY <1>1, AdmissionInductive, PTL
=============================================================================
