--------------------------- MODULE FoldPreparation ---------------------------
(***************************************************************************)
(* One fold dependency: the shared preparation that every program and      *)
(* pending attempt with the same folds waits for.                          *)
(*                                                                         *)
(* Three pieces of state decide whether it is built again: the circuit in  *)
(* fold-dependency-errors.json (_FoldDependencies), the storage wait of    *)
(* operation fold:<id> in the ledger, and runtime.json of the build.  What *)
(* is ready is remembered only by the living controller, with reader pins  *)
(* on the artifacts.                                                       *)
(***************************************************************************)
EXTENDS BoundedExecutor

CONSTANTS
    MaxCrashes,    \* bound: deaths of the controller
    MaxEvictions   \* bound: artifacts replaced or damaged behind a pin

ASSUME FoldAssumption == MaxCrashes \in Nat /\ MaxEvictions \in Nat

Threshold == 3  \* scientific failures that block the dependency

VARIABLES
    failures,   \* scientific_failures of the circuit
    delayed,    \* retry_at_epoch is in the future
    wait,       \* the storage wait and the runtime it archived
    ready,      \* the descriptors of the living controller
    up,         \* the controller lives
    inflight,   \* the build's episode, or None
    crashes, evictions

fold == <<failures, delayed, wait, ready, up, inflight, crashes, evictions>>
vars == <<executor, fold>>

NoWait == [active |-> FALSE, due |-> FALSE, snapshot |-> None]

TypeOK ==
    /\ ExecutorTypeOK
    /\ failures \in 0..Threshold
    /\ delayed \in BOOLEAN
    /\ wait \in [active : BOOLEAN, due : BOOLEAN, snapshot : Runtimes \cup {None}]
    /\ ready \in BOOLEAN
    /\ up \in BOOLEAN
    /\ inflight \in Nonces \cup {None}
    /\ crashes \in 0..MaxCrashes
    /\ evictions \in 0..MaxEvictions

Init ==
    /\ ExecutorInit
    /\ failures = 0
    /\ delayed = FALSE
    /\ wait = NoWait
    /\ ready = FALSE
    /\ up = TRUE
    /\ inflight = None
    /\ crashes = 0
    /\ evictions = 0

-----------------------------------------------------------------------------
\* The campaign ends: what it held in memory is gone.
Dies ==
    /\ Orphan
    /\ up' = FALSE
    /\ ready' = FALSE
    /\ inflight' = None

\* Mutant of blocked: the circuit never opens.
blockedNever == FALSE

blocked == failures >= Threshold

\* can_prepare, retry_ready and the controller's own bookkeeping.
Wanted ==
    /\ up /\ ~ready /\ inflight = None
    /\ ~blocked
    /\ ~delayed
    /\ wait.active => wait.due

\* _reset_operation_runtime: the file is the one the ledger archived.
Resettable == ~wait.active \/ runtime = None \/ runtime = wait.snapshot

\* An episode's nonce is unused everywhere.
Fresh(n) ==
    /\ Over(n)
    /\ ~Names(n)
    /\ wait.snapshot # None => wait.snapshot.nonce # n

\* A storage wait stays active until the operation completes.
SubmitBuild(n) ==
    /\ Wanted
    /\ Resettable
    /\ Fresh(n)
    /\ Submit(n, IF wait.active THEN None ELSE runtime)
    /\ inflight' = n
    /\ UNCHANGED <<failures, delayed, wait, ready, up, crashes, evictions>>

\* The runtime changed since it was archived: ValueError ends the campaign.
ResetRefused ==
    /\ Wanted
    /\ ~Resettable
    /\ Dies
    /\ UNCHANGED <<runtime, late, blocks, failures, delayed, wait, crashes, evictions>>

\* The campaign dies after the removal, or in the admission that follows.
ResetOnly ==
    /\ Wanted
    /\ wait.active /\ Resettable
    /\ crashes < MaxCrashes
    /\ crashes' = crashes + 1
    /\ runtime' = None
    /\ late' = FALSE
    /\ Dies
    /\ UNCHANGED <<blocks, failures, delayed, wait, evictions>>

-----------------------------------------------------------------------------
FinishBuild(n) ==
    /\ FinishAccepted(n) \/ FinishTimedOut(n) \/ FinishFailed(n)
    /\ UNCHANGED fold

\* A done future is taken; its worker group is cleaned up.
Takes(n) ==
    /\ up
    /\ inflight = n
    /\ future[n] \in Outcomes
    /\ worker' = Cleaned
    /\ UNCHANGED <<runtime, late, raw, crashes, evictions>>

Proceeds(n) ==
    /\ future' = [future EXCEPT ![n] = "none"]
    /\ inflight' = None
    /\ ready' = FALSE
    /\ UNCHANGED <<timer, up>>

\* An exception inside the handler ends the campaign.
Raises ==
    /\ future' = [m \in Nonces |-> "none"]
    /\ timer' = [m \in Nonces |-> "off"]
    /\ inflight' = None
    /\ ready' = FALSE
    /\ up' = FALSE

\* Mutant of CompleteValue: complete_operation is forgotten.
CompleteValueOnly(n) ==
    /\ Takes(n)
    /\ future[n] = "value"
    /\ future' = [future EXCEPT ![n] = "none"]
    /\ inflight' = None
    /\ failures' = 0
    /\ delayed' = FALSE
    /\ ready' = TRUE
    /\ UNCHANGED <<timer, up, blocks, wait>>

\* publish and complete_operation.
CompleteValue(n) ==
    /\ Takes(n)
    /\ future[n] = "value"
    /\ future' = [future EXCEPT ![n] = "none"]
    /\ inflight' = None
    /\ failures' = 0
    /\ delayed' = FALSE
    /\ wait' = [wait EXCEPT !.active = FALSE]
    /\ ready' = TRUE
    /\ UNCHANGED <<timer, up, blocks>>

\* Mutant of CountsFailure: the count starts again with each failure.
CountsFailureAnew == failures' = 1 /\ delayed' = TRUE

\* failed, for a genuine error.
CountsFailure == failures' = failures + 1 /\ delayed' = TRUE

\* The build failed, or its artifacts could not be pinned and verified.  The
\* circuit's own write can be refused, and the count is lost with the campaign.
CompleteFailed(n) ==
    /\ Takes(n)
    /\ future[n] \in {"error", "timeout", "value"}
    /\ \/ CountsFailure /\ Proceeds(n) /\ UNCHANGED blocks
       \/ Blocked /\ Raises /\ UNCHANGED <<failures, delayed>>
    /\ UNCHANGED wait

\* _interrupted_runtime refuses a runtime that may still be active.
Interrupted == runtime = None \/ runtime.status \in {"failed", "finished"}

\* failed, for a storage failure, then defer_operation: not counted, and a delay
\* that was running is dropped.
Defers(n, count) ==
    /\ failures' = count
    /\ delayed' = FALSE
    /\ IF Interrupted
       THEN /\ wait' = [active |-> TRUE, due |-> FALSE, snapshot |-> runtime]
            /\ Proceeds(n)
       ELSE Raises /\ UNCHANGED wait

CompleteBlocked(n) ==
    /\ Takes(n)
    /\ future[n] = "blocked"
    /\ Defers(n, failures)
    /\ UNCHANGED blocks

\* The artifacts are good and the write of the circuit, or of the ledger after
\* it, is refused; publish had already forgotten the circuit's errors.
PublishBlocked(n) ==
    /\ Takes(n)
    /\ future[n] = "value"
    /\ Blocked
    /\ Defers(n, 0)

-----------------------------------------------------------------------------
DelayOver ==
    /\ delayed
    /\ delayed' = FALSE
    /\ UNCHANGED <<executor, failures, wait, ready, up, inflight, crashes, evictions>>

BackoffElapses ==
    /\ wait.active /\ ~wait.due
    /\ wait' = [wait EXCEPT !.due = TRUE]
    /\ UNCHANGED <<executor, failures, delayed, ready, up, inflight, crashes, evictions>>

\* is_ready finds the files changed and drops the pin.
Invalidate ==
    /\ ready
    /\ evictions < MaxEvictions
    /\ evictions' = evictions + 1
    /\ ready' = FALSE
    /\ UNCHANGED <<executor, failures, delayed, wait, up, inflight, crashes>>

\* The circuit is read from its file; nothing looks at the build's runtime.json.
Start ==
    /\ ~up
    /\ up' = TRUE
    /\ UNCHANGED <<executor, failures, delayed, wait, ready, inflight, crashes, evictions>>

Crash ==
    /\ up
    /\ crashes < MaxCrashes
    /\ crashes' = crashes + 1
    /\ Dies
    /\ UNCHANGED <<runtime, late, blocks, failures, delayed, wait, evictions>>

ExecutorStep ==
    /\ DeadlinePasses \/ \E n \in Nonces : WorkerStep(n) \/ TimerStep(n)
    /\ UNCHANGED fold

Next ==
    \/ ExecutorStep
    \/ ResetRefused \/ ResetOnly
    \/ DelayOver \/ BackoffElapses \/ Invalidate \/ Start \/ Crash
    \/ \E n \in Nonces :
         \/ SubmitBuild(n) \/ FinishBuild(n)
         \/ CompleteValue(n) \/ CompleteFailed(n) \/ CompleteBlocked(n) \/ PublishBlocked(n)

Spec == Init /\ [][Next]_vars

(***************************************************************************)
(* The loop takes every done future and submits every wanted build in each *)
(* pass (resources are admitted in the end, see the README); the clock and *)
(* the timers run.  Nothing is assumed of the build itself, but a process  *)
(* nobody waits for is killed: by the pool, or with the control group of   *)
(* the dead controller (KillMode of the systemd units).                    *)
(***************************************************************************)
Fairness ==
    /\ WF_vars(DeadlinePasses /\ UNCHANGED fold)
    /\ WF_vars(DelayOver) /\ WF_vars(BackoffElapses) /\ WF_vars(Start)
    /\ WF_vars(\E n \in Nonces : SubmitBuild(n))
    /\ \A n \in Nonces :
         /\ WF_vars((TimerStep(n) \/ Cancelled(n)) /\ UNCHANGED fold)
         /\ WF_vars(CompleteValue(n) \/ CompleteFailed(n) \/ CompleteBlocked(n) \/ PublishBlocked(n))

FairSpec == Spec /\ Fairness

-----------------------------------------------------------------------------
(***************************************************************************)
(* Properties.                                                             *)
(***************************************************************************)

\* What the controller calls ready has no wait, no counted failure and no build
\* in flight: the three records of one dependency agree, whichever write was
\* refused in between.
ReadyIsSettled == ready => up /\ inflight = None /\ failures = 0 /\ ~wait.active

\* While the controller waits for a build, runtime.json names it: orphans of
\* dead controllers, which are never cleaned up here, cannot take the file.
CurrentBuildNamed == inflight # None /\ future[inflight] = "pending" => Names(inflight)

\* A blocked dependency stays blocked, across restarts and late storage waits:
\* programs retired for it were retired for good.
BlockedStays == [][failures = Threshold => failures' = failures]_vars

\* The archived build is not the one in runtime.json: no build can start.
Refused == wait.active /\ runtime # None /\ runtime # wait.snapshot

\* Followers never wait for ever: the dependency is built, or blocked so that
\* they are failed, unless a reset is refused.
PreparationSettles == up ~> (ready \/ blocked \/ Refused)
=============================================================================
