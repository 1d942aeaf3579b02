--------------------------- MODULE BoundedExecutor ---------------------------
(***************************************************************************)
(* One supervised job of BoundedFitExecutor (research_worker_runtime.py).  *)
(*                                                                         *)
(* A job has one runtime.json and any number of physical episodes.  Every  *)
(* submission is an episode of its own, named by a fresh task_nonce; four  *)
(* threads of control then meet in runtime.json without a common lock:     *)
(*                                                                         *)
(*   the controller, which admits the episode and writes the file again    *)
(*   the worker process, which claims it and later writes how it ended     *)
(*   the deadline timer, which decides under the completion lock but       *)
(*     writes the file after it released the lock                          *)
(*   the pool's callback, which accepts the worker's result                *)
(*                                                                         *)
(* The controller's death takes its timers and futures with it, not always *)
(* the workers.  Modules that EXTEND this one add the controller.          *)
(*                                                                         *)
(* Time is one bit: whether the deadline written in runtime.json has       *)
(* passed.  Admission keeps a deadline it finds, so only a file that was   *)
(* removed gets a new one.                                                 *)
(***************************************************************************)
EXTENDS Naturals, FiniteSets

CONSTANTS
    Nonces,    \* task_nonce of the episodes; one is reused once nothing names it
    None,      \* no runtime.json, no episode
    MaxBlocks  \* bound: writes refused with StorageBlocked

Outcomes == {"value", "error", "blocked", "timeout"}
Statuses == {"queued", "running", "finished", "failed", "timed_out"}
Runtimes == [nonce : Nonces, status : Statuses]

ASSUME ExecutorAssumption ==
    /\ None \notin Nonces \cup Runtimes
    /\ MaxBlocks \in Nat

VARIABLES
    runtime,  \* runtime.json, or None
    late,     \* its deadline_at has passed
    worker,   \* the episode's process
    raw,      \* the outcome the pool knows
    future,   \* the outcome the controller is given
    timer,    \* the episode's deadline timer
    blocks    \* StorageBlocked so far

executor == <<runtime, late, worker, raw, future, timer, blocks>>

ExecutorTypeOK ==
    /\ runtime \in Runtimes \cup {None}
    /\ late \in BOOLEAN
    /\ worker \in [Nonces -> {"none", "assigned", "running", "ended"}]
    /\ raw \in [Nonces -> Outcomes \cup {"none", "pending"}]
    /\ future \in [Nonces -> Outcomes \cup {"none", "pending"}]
    /\ timer \in [Nonces -> {"off", "armed", "decided"}]
    /\ blocks \in 0..MaxBlocks

ExecutorInit ==
    /\ runtime = None
    /\ late = FALSE
    /\ worker = [n \in Nonces |-> "none"]
    /\ raw = [n \in Nonces |-> "none"]
    /\ future = [n \in Nonces |-> "none"]
    /\ timer = [n \in Nonces |-> "off"]
    /\ blocks = 0

\* A write that the storage authority refuses, before or after it replaced the
\* file (_update_runtime).
Blocked == blocks < MaxBlocks /\ blocks' = blocks + 1

Names(n) == runtime # None /\ runtime.nonce = n

\* _update_runtime guarded by the nonce; timed_out is never overwritten by the
\* worker (see Ended).
Marked(n, status) ==
    IF Names(n) THEN [runtime EXCEPT !.status = status] ELSE runtime

\* No process, timer or future is left of the episode.
Over(n) == worker[n] \in {"none", "ended"} /\ future[n] = "none" /\ timer[n] = "off"

-----------------------------------------------------------------------------
\* Mutant of Lateness: every submission starts the clock again.
LatenessRestarted(file) == FALSE

\* Admission keeps the deadline_at of the file it finds.
Lateness(file) == file # None /\ late

\* submit: admission writes the episode's nonce over file (the runtime.json
\* the controller left in place); a deadline that already passed gives a timed
\* out future and no process.
Submit(n, file) ==
    /\ late' = Lateness(file)
    /\ raw' = [raw EXCEPT ![n] = IF Lateness(file) THEN "none" ELSE "pending"]
    /\ worker' = [worker EXCEPT ![n] = IF Lateness(file) THEN "none" ELSE "assigned"]
    /\ future' = [future EXCEPT ![n] = IF Lateness(file) THEN "timeout" ELSE "pending"]
    /\ timer' = [timer EXCEPT ![n] = IF Lateness(file) THEN "off" ELSE "armed"]
    /\ runtime' = [nonce |-> n, status |-> IF Lateness(file) THEN "timed_out" ELSE "queued"]
    /\ UNCHANGED blocks

DeadlinePasses ==
    /\ runtime # None
    /\ ~late
    /\ late' = TRUE
    /\ UNCHANGED <<runtime, worker, raw, future, timer, blocks>>

\* The worker stops with an outcome for the pool.
Stops(n, outcome) ==
    /\ worker' = [worker EXCEPT ![n] = "ended"]
    /\ raw' = [raw EXCEPT ![n] = outcome]

MayClaim(n) == Names(n) /\ runtime.status = "queued"

\* _timed_call up to its claim: the deadline, then the assignment, each seen in
\* the file; the claim can be refused, or the guard's write that follows it.
Claim(n) ==
    /\ worker[n] = "assigned"
    /\ \/ /\ late
          /\ Stops(n, "timeout")
          /\ UNCHANGED <<runtime, blocks>>
       \/ /\ ~late /\ ~MayClaim(n)
          /\ Stops(n, "error")
          /\ UNCHANGED <<runtime, blocks>>
       \/ /\ ~late /\ MayClaim(n)
          /\ runtime' = [nonce |-> n, status |-> "running"]
          /\ worker' = [worker EXCEPT ![n] = "running"]
          /\ UNCHANGED <<raw, blocks>>
       \/ /\ ~late /\ MayClaim(n)
          /\ Blocked
          /\ Stops(n, "blocked")
          /\ runtime' \in {runtime, [nonce |-> n, status |-> "running"]}
    /\ UNCHANGED <<late, future, timer>>

\* The status the worker leaves.  blocked is StorageBlocked, an exception like
\* any other; a deadline decision that is already written stays.
Ended(n, outcome) ==
    IF Names(n) /\ runtime.status = "timed_out" THEN runtime
    ELSE Marked(n, CASE outcome = "value" -> "finished"
                     [] outcome = "timeout" -> "timed_out"
                     [] OTHER -> "failed")

\* The function returned or raised; a value is only one inside the deadline.
End(n) ==
    /\ worker[n] = "running"
    /\ \E outcome \in Outcomes :
         /\ outcome = "value" => ~late
         /\ IF outcome = "blocked" THEN Blocked ELSE UNCHANGED blocks
         /\ Stops(n, outcome)
         /\ runtime' = Ended(n, outcome)
    /\ UNCHANGED <<late, future, timer>>

\* The last write is refused as well: that replaces the outcome, and the file
\* may have it all the same.
EndUnwritten(n) ==
    /\ worker[n] = "running"
    /\ Blocked
    /\ Stops(n, "blocked")
    /\ \E outcome \in Outcomes :
         /\ outcome = "value" => ~late
         /\ runtime' \in {runtime, Ended(n, outcome)}
    /\ UNCHANGED <<late, future, timer>>

\* The process is killed: out of memory (the pool reports an error), or by the
\* pool's own timeout.
WorkerDies(n) ==
    /\ worker[n] \in {"assigned", "running"}
    /\ \E outcome \in {"error", "timeout"} :
         /\ outcome = "timeout" => late
         /\ Stops(n, outcome)
    /\ UNCHANGED <<runtime, late, future, timer, blocks>>

-----------------------------------------------------------------------------
Acceptable(n) == Names(n) /\ runtime.status = "finished" /\ ~late

Resolve(n, outcome) ==
    /\ future' = [future EXCEPT ![n] = outcome]
    /\ timer' = [timer EXCEPT ![n] = "off"]

\* Mutant of Undecided: the callback does not look whether the future is done.
UndecidedEver(n) == raw[n] \in Outcomes /\ future[n] # "none"

Undecided(n) == raw[n] \in Outcomes /\ future[n] = "pending"

\* finish: accept the value.  Its runtime write can be refused after the
\* publication (see the modules that publish).
FinishAccepted(n) ==
    /\ Undecided(n) /\ raw[n] = "value" /\ Acceptable(n)
    /\ \/ Resolve(n, "value") /\ UNCHANGED blocks
       \/ Blocked /\ Resolve(n, "blocked")
    /\ UNCHANGED <<runtime, late, worker, raw>>

\* finish: a value that missed its deadline, and a TimeoutError, are marked.
FinishTimedOut(n) ==
    /\ Undecided(n)
    /\ \/ raw[n] = "timeout"
       \/ raw[n] = "value" /\ Names(n) /\ runtime.status = "finished" /\ ~Acceptable(n)
    /\ \/ /\ runtime' = Marked(n, "timed_out")
          /\ Resolve(n, "timeout")
          /\ UNCHANGED blocks
       \/ /\ Blocked
          /\ Resolve(n, "blocked")
          /\ runtime' \in {runtime, Marked(n, "timed_out")}
    /\ UNCHANGED <<late, worker, raw>>

\* finish: any other exception; a value whose assignment or status changed.
FinishFailed(n) ==
    /\ Undecided(n)
    /\ \/ raw[n] \in {"error", "blocked"} /\ Resolve(n, raw[n])
       \/ raw[n] = "value" /\ ~(Names(n) /\ runtime.status = "finished") /\ Resolve(n, "error")
    /\ UNCHANGED <<runtime, late, worker, raw, blocks>>

\* expire, under the completion lock: nobody decided before.
Expire(n) ==
    /\ timer[n] = "armed"
    /\ late
    /\ future[n] = "pending"
    /\ future' = [future EXCEPT ![n] = "timeout"]
    /\ timer' = [timer EXCEPT ![n] = "decided"]
    /\ UNCHANGED <<runtime, late, worker, raw, blocks>>

\* expire, after it: the status of its own episode.
MarkExpired(n) ==
    /\ timer[n] = "decided"
    /\ timer' = [timer EXCEPT ![n] = "off"]
    /\ \/ runtime' = Marked(n, "timed_out") /\ UNCHANGED blocks
       \/ Blocked /\ runtime' \in {runtime, Marked(n, "timed_out")}
    /\ UNCHANGED <<late, worker, raw, future>>

\* The pool terminates the process of a cancelled task, some time later.
Cancelled(n) ==
    /\ worker[n] \in {"assigned", "running"}
    /\ timer[n] # "armed" /\ future[n] \in {"timeout", "none"}
    /\ worker' = [worker EXCEPT ![n] = "ended"]
    /\ UNCHANGED <<runtime, late, raw, future, timer, blocks>>

\* cleanup_attempt_group: the process the file records, unless it ended well.
Cleaned ==
    [n \in Nonces |->
        IF Names(n) /\ runtime.status \notin {"finished", "failed"} /\ worker[n] = "running"
        THEN "ended" ELSE worker[n]]

\* The controller is gone with its futures and timers; some of its workers are
\* not.
Orphan ==
    /\ \E survivors \in SUBSET {n \in Nonces : worker[n] \in {"assigned", "running"}} :
         worker' = [n \in Nonces |->
                      IF worker[n] \in {"assigned", "running"} /\ n \notin survivors
                      THEN "ended" ELSE worker[n]]
    /\ future' = [n \in Nonces |-> "none"]
    /\ timer' = [n \in Nonces |-> "off"]
    /\ UNCHANGED raw

WorkerStep(n) == Claim(n) \/ End(n) \/ EndUnwritten(n) \/ WorkerDies(n) \/ Cancelled(n)
TimerStep(n) == Expire(n) \/ MarkExpired(n)
=============================================================================
