----------------------------- MODULE FitEpisode ------------------------------
(***************************************************************************)
(* One allocated attempt, from its reserved ledger row to its outcome,     *)
(* through every physical episode that tries to fit it.                    *)
(*                                                                         *)
(* The controller of research_expansion.py submits an episode, marks the   *)
(* row running, waits for the future and commits the outcome.  A storage   *)
(* failure is no outcome: the row is deferred, the ledger archives the     *)
(* runtime.json of the interrupted episode and, once the backoff is over,  *)
(* the file is removed so that the next episode gets a new deadline.       *)
(* result.json is published by the pool's callback, under both locks, and  *)
(* read back by the controller after any restart.                          *)
(***************************************************************************)
EXTENDS BoundedExecutor

CONSTANT MaxCrashes  \* bound: deaths of the controller

ASSUME CrashAssumption == MaxCrashes \in Nat

VARIABLES
    row,        \* the attempt's ledger status; its result is published or a failure
    retry,      \* infrastructure_retries and the latest infrastructure_events row
    published,  \* task_nonce in result.json's acceptance receipt, or None
    pc,         \* the controller: down, loop, submitted (not yet marked running)
    inflight,   \* the episode of its future, or None
    crashes     \* deaths so far

controller == <<row, retry, published, pc, inflight, crashes>>
vars == <<executor, controller>>

Terminal == {"completed", "failed"}
NoRetry == [active |-> FALSE, due |-> FALSE, snapshot |-> None]

TypeOK ==
    /\ ExecutorTypeOK
    /\ row \in {"reserved", "running"} \cup Terminal
    /\ retry \in [active : BOOLEAN, due : BOOLEAN, snapshot : Runtimes \cup {None}]
    /\ published \in Nonces \cup {None}
    /\ pc \in {"down", "loop", "submitted"}
    /\ inflight \in Nonces \cup {None}
    /\ crashes \in 0..MaxCrashes

Init ==
    /\ ExecutorInit
    /\ row = "reserved"
    /\ retry = NoRetry
    /\ published = None
    /\ pc = "loop"
    /\ inflight = None
    /\ crashes = 0

-----------------------------------------------------------------------------
\* The campaign ends, by death or by an exception nobody catches.
Dies ==
    /\ Orphan
    /\ pc' = "down"
    /\ inflight' = None

\* complete_attempt commits the outcome and ends the storage wait.
Commits(status) ==
    /\ row' = status
    /\ retry' = [retry EXCEPT !.active = FALSE]

\* defer_infrastructure archives the runtime it is given.
Defers(file) ==
    /\ row' = "reserved"
    /\ retry' = [active |-> TRUE, due |-> FALSE, snapshot |-> file]

\* _interrupted_runtime refuses a runtime that may still be active.
Interrupted(file) == file = None \/ file.status \in {"failed", "finished"}

RetryReady == retry.active => retry.due

BackoffElapses ==
    /\ retry.active /\ ~retry.due
    /\ retry' = [retry EXCEPT !.due = TRUE]
    /\ UNCHANGED <<executor, row, published, pc, inflight, crashes>>

\* _reset_operation_runtime: the file is the one the ledger archived.
Resettable == ~retry.active \/ runtime = None \/ runtime = retry.snapshot

\* An episode's nonce is unused everywhere.
Fresh(n) ==
    /\ Over(n)
    /\ ~Names(n)
    /\ retry.snapshot # None => retry.snapshot.nonce # n
    /\ published # n

Pending == pc = "loop" /\ inflight = None /\ row = "reserved" /\ RetryReady

\* Mutant of Unpublished: the result is looked for in the ledger only.
UnpublishedInLedger == row # "completed"

\* _recover_published_attempt finds nothing to commit.
Unpublished == published = None

\* A pending row with a published result is committed, or deferred again (a
\* published runtime is finished, so the deferral is never refused).
CommitPublished ==
    /\ Pending
    /\ published # None
    /\ \/ Commits("completed") /\ UNCHANGED blocks
       \/ Blocked /\ Interrupted(runtime) /\ Defers(runtime)
    /\ UNCHANGED <<runtime, late, worker, raw, future, timer, published, pc, inflight, crashes>>

\* Resume: remove the archived runtime, then submit.
SubmitFit(n) ==
    /\ Pending
    /\ Unpublished
    /\ Resettable
    /\ Fresh(n)
    /\ Submit(n, IF retry.active THEN None ELSE runtime)
    /\ inflight' = n
    /\ pc' = "submitted"
    /\ UNCHANGED <<row, retry, published, crashes>>

\* The campaign dies after the removal, or in the admission that follows.
ResetOnly ==
    /\ Pending
    /\ Unpublished
    /\ retry.active /\ Resettable
    /\ crashes < MaxCrashes
    /\ crashes' = crashes + 1
    /\ runtime' = None
    /\ late' = FALSE
    /\ Dies
    /\ UNCHANGED <<blocks, row, retry, published>>

\* The runtime changed since it was archived: ValueError ends the campaign.
ResetRefused ==
    /\ Pending
    /\ Unpublished
    /\ ~Resettable
    /\ Dies
    /\ UNCHANGED <<runtime, late, blocks, row, retry, published, crashes>>

\* mark_running ends the storage wait; refused, it ends the campaign.
MarkRunning ==
    /\ pc = "submitted"
    /\ \/ /\ row' = "running"
          /\ retry' = [retry EXCEPT !.active = FALSE]
          /\ pc' = "loop"
          /\ UNCHANGED <<executor, inflight>>
       \/ /\ Blocked
          /\ Dies
          /\ UNCHANGED <<runtime, late, row, retry>>
    /\ UNCHANGED <<published, crashes>>

-----------------------------------------------------------------------------
\* The pool's callback, with publish_accepted inside its runtime update: a
\* refused update may come after the publication.
Accept(n) ==
    /\ FinishAccepted(n)
    /\ published' \in IF future'[n] = "value" THEN {n} ELSE {published, n}
    /\ UNCHANGED <<row, retry, pc, inflight, crashes>>

FinishUnaccepted(n) ==
    /\ FinishTimedOut(n) \/ FinishFailed(n)
    /\ UNCHANGED controller

\* A done future is taken; its worker group is cleaned up.
Takes(n) ==
    /\ pc = "loop"
    /\ inflight = n
    /\ future[n] \in Outcomes
    /\ worker' = Cleaned
    /\ UNCHANGED <<late, raw, published, crashes>>

\* The campaign goes on without the future.
Proceeds(n) ==
    /\ future' = [future EXCEPT ![n] = "none"]
    /\ inflight' = None
    /\ UNCHANGED <<timer, pc>>

\* ... or ends: a storage failure whose runtime may be active is not deferred.
Raises ==
    /\ future' = [m \in Nonces |-> "none"]
    /\ timer' = [m \in Nonces |-> "off"]
    /\ inflight' = None
    /\ pc' = "down"
    /\ UNCHANGED <<row, retry>>

\* Mutant of CompletePublished: the future's failure is committed.
CompleteByFuture(n) ==
    /\ Takes(n)
    /\ published # None
    /\ Commits(IF future[n] = "value" THEN "completed" ELSE "failed") /\ Proceeds(n)
    /\ UNCHANGED <<runtime, blocks>>

\* An accepted publication outlives what its future reports.
CompletePublished(n) ==
    /\ Takes(n)
    /\ published # None
    /\ \/ Commits("completed") /\ Proceeds(n) /\ UNCHANGED blocks
       \/ /\ Blocked
          /\ IF Interrupted(runtime) THEN Defers(runtime) /\ Proceeds(n) ELSE Raises
    /\ UNCHANGED runtime

\* A storage failure of the episode defers the attempt.
CompleteBlocked(n) ==
    /\ Takes(n)
    /\ published = None
    /\ future[n] = "blocked"
    /\ IF Interrupted(runtime) THEN Defers(runtime) /\ Proceeds(n) ELSE Raises
    /\ UNCHANGED <<runtime, blocks>>

\* Any other failure is written to the runtime and committed; when the ledger
\* refuses it, it is deferred like a storage failure.
CompleteFailed(n) ==
    /\ Takes(n)
    /\ published = None
    /\ future[n] \in {"error", "timeout"}
    /\ LET file == [runtime EXCEPT !.status =
                      IF future[n] = "timeout" THEN "timed_out" ELSE "failed"]
       IN /\ runtime' = file
          /\ \/ Commits("failed") /\ Proceeds(n) /\ UNCHANGED blocks
             \/ /\ Blocked
                /\ IF Interrupted(file) THEN Defers(file) /\ Proceeds(n) ELSE Raises

-----------------------------------------------------------------------------
\* Mutant of Start: running rows are not recovered.
StartForgetful ==
    /\ pc = "down"
    /\ pc' = "loop"
    /\ UNCHANGED <<executor, row, retry, published, inflight, crashes>>

\* Startup: commit the published result, else clean up, then recover_running.
\* A row in backoff is left to the pending loop.
Start ==
    /\ pc = "down"
    /\ pc' = "loop"
    /\ IF row \notin Terminal /\ RetryReady /\ published # None
       THEN /\ \/ Commits("completed") /\ UNCHANGED blocks
               \/ Blocked /\ Interrupted(runtime) /\ Defers(runtime)
            /\ UNCHANGED worker
       ELSE /\ worker' = IF row \notin Terminal /\ RetryReady THEN Cleaned ELSE worker
            /\ row' = IF row = "running" THEN "reserved" ELSE row
            /\ UNCHANGED <<retry, blocks>>
    /\ UNCHANGED <<runtime, late, raw, future, timer, published, inflight, crashes>>

Crash ==
    /\ pc # "down"
    /\ crashes < MaxCrashes
    /\ crashes' = crashes + 1
    /\ Dies
    /\ UNCHANGED <<runtime, late, blocks, row, retry, published>>

ExecutorStep ==
    /\ DeadlinePasses \/ \E n \in Nonces : WorkerStep(n) \/ TimerStep(n)
    /\ UNCHANGED controller

Next ==
    \/ ExecutorStep
    \/ BackoffElapses \/ CommitPublished \/ ResetOnly \/ ResetRefused
    \/ MarkRunning \/ Start \/ Crash
    \/ \E n \in Nonces :
         \/ SubmitFit(n) \/ Accept(n) \/ FinishUnaccepted(n)
         \/ CompletePublished(n) \/ CompleteBlocked(n) \/ CompleteFailed(n)

Spec == Init /\ [][Next]_vars

(***************************************************************************)
(* The loop looks at every future and every pending row in each pass, so   *)
(* what it can do is done; the clock and the timers run.  Nothing is       *)
(* assumed of the fit, but a process nobody waits for is killed: by the    *)
(* pool, or with the control group of the dead controller (KillMode of the *)
(* systemd units).                                                         *)
(***************************************************************************)
Fairness ==
    /\ WF_vars(DeadlinePasses /\ UNCHANGED controller)
    /\ WF_vars(BackoffElapses) /\ WF_vars(CommitPublished) /\ WF_vars(MarkRunning)
    /\ WF_vars(Start) /\ WF_vars(\E n \in Nonces : SubmitFit(n))
    /\ \A n \in Nonces :
         /\ WF_vars((TimerStep(n) \/ Cancelled(n)) /\ UNCHANGED controller)
         /\ WF_vars(CompletePublished(n) \/ CompleteBlocked(n) \/ CompleteFailed(n))

FairSpec == Spec /\ Fairness

-----------------------------------------------------------------------------
(***************************************************************************)
(* Properties.                                                             *)
(***************************************************************************)

\* A published result can always be read back: whatever timers, late workers
\* and later writes do to runtime.json, it names the published episode and says
\* finished, so read_accepted never rejects an accepted fit, and no later
\* episode is ever admitted.
ReceiptStands == published # None => Names(published) /\ runtime.status = "finished"

\* The deadline and the acceptance exclude each other, although the timer
\* writes its verdict after it released the lock: a future that timed out, or
\* a timer that decided, belongs to an episode that is not the published one.
TimeoutExcludesResult ==
    \A n \in Nonces : future[n] = "timeout" \/ timer[n] = "decided" => published # n

\* finished in runtime.json is the last word of the very worker the file names,
\* whose outcome is its value or the refusal of that write: no orphan of an
\* earlier episode speaks for a later one.
FinishedByItsWorker ==
    runtime # None /\ runtime.status = "finished" =>
        /\ worker[runtime.nonce] = "ended"
        /\ raw[runtime.nonce] \in {"value", "blocked"}

\* While the controller waits for an episode, runtime.json names it: no orphan
\* and no late timer takes the file from the episode in flight.
CurrentEpisodeNamed == inflight # None /\ future[inflight] = "pending" => Names(inflight)

Promise == INSTANCE AttemptOutcome
    WITH outcome <- IF row \in Terminal THEN row ELSE "open",
         accepted <- published # None

\* Deferrals, restarts, orphans and repeated episodes are invisible from
\* outside: the attempt implements AttemptOutcome, so a failure is committed
\* only for an attempt that has no accepted result then or later, and an
\* accepted one is never given up for what its future reports.
OutcomePromised == Promise!OutcomeSpec

\* A passed deadline is renewed only by the removal of a runtime the ledger
\* archived for a storage failure: no restart resets an attempt's allowance.
AllowanceKept == [][late /\ ~late' => retry.active /\ retry.snapshot = runtime]_vars

\* The archived episode is not the one in runtime.json: no retry is possible.
Stuck ==
    /\ row = "reserved" /\ retry.active /\ published = None
    /\ runtime # None /\ runtime # retry.snapshot

\* Every attempt gets an outcome, whatever hangs, dies or is refused, unless a
\* refused or interrupted mark_running left it stuck.
AttemptSettles == (row \notin Terminal) ~> (row \in Terminal \/ Stuck)

\* _reset_operation_runtime: a runtime that is about to be reset is the one
\* that was archived.
RuntimeArchived == Pending /\ Unpublished => Resettable
=============================================================================
