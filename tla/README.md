# Formal models of the iMa research campaign

iMa searches for horse-race models: a language-model planner proposes programs,
Optuna proposes recipes inside each program, worker processes fit them, and a
ledger records what came out. A campaign runs for days on one host, is stopped
by operators, out-of-memory kills and full disks, and is restarted by systemd.
What has to be right is not the numerics but the bookkeeping: one result per
attempt, no result lost or computed twice, no budget exceeded, no wait for ever,
no filesystem driven below its reserve.

This directory models that bookkeeping in TLA+. Paths are relative to the
repository; `X:120` is a line of it, with the names

| short | file |
|---|---|
| expansion | `ima/research_expansion.py` |
| store | `ima/research_store.py` |
| search | `ima/research_search.py` |
| runtime | `ima/research_worker_runtime.py` |
| publication | `ima/research_publication.py` |
| storage | `ima/research_storage.py` |
| discipline | `ima/experiment_discipline.py` |
| control | `ima/research_control.py` |
| telemetry | `ima/research_telemetry.py` |
| scheduler | `ima/research_scheduler.py` |
| preparation | `ima/research_preparation.py` |
| capacity | `ima/research_cache_capacity.py` |
| journal | `ima/research_journal.py` |
| lifecycle | `ima/feature_lifecycle.py` |
| exploration | `ima/feature_exploration.py` |

## 1. Inventory

### 1.1 How the parts interact

`run_expansion_campaign` (expansion) is a single-threaded loop that owns the
ledger. In each iteration it drains finished futures (datasets, fold
preparations, fits, paper research, planning, uploads, traces), repeats missing
tells, bridges interrupted asks, resumes reserved attempts, and asks Optuna for
new ones while its limits admit more.

    planner --> DecisionStore --> programs --> Optuna ask --> ledger row
                                                                 |
                      fold preparation <-- (shared by rows) -----+
                             |                                   v
                    resource admission ---------------> supervised fit
                                                                 |
         trace outbox --> MLflow <-- tell <-- ledger <-- accepted result.json

Around it: worker processes and deadline timers (runtime), the Optuna journal
(an append-only file per campaign), SQLite stores, and one *storage authority*
that every writer of the host, in any process, asks for space first. A refusal
(`StorageBlocked`) can meet any write and is never a scientific result: the
operation is deferred and retried after a backoff.

### 1.2 Components

For each: the state it keeps; its operations; what is hard; what makes it correct.

* **Storage authority** (storage). State: `state.json` under a flock (leases:
  bytes, inodes, pid and process identity), each writer's budget in memory.
  Operations: reserve, extend, consume, release, reconcile; `ReservedFile.write`
  and `flush`; `reserved_output_file`; reclaim of payloads. Hard: dead holders,
  reused pids, foreign users of the disk, bytes that are promised, written,
  buffered or already visible in `statvfs`. Correct: admitted writers together
  stay above the headroom; no living writer loses its lease; dead leases return.
* **Research ledger and Optuna journal** (store, search, and the controller's use
  of them). State: trials with three attributes; attempts by execution signature,
  with owner, status, result and told mark. Operations: ask, reserve, mark_running,
  complete, defer, tell, mark_told, and their recovery. Hard: two stores without a
  common transaction, death between any two writes, two studies suggesting the same
  recipe. Correct: stores agree, outcomes are final, budgets hold, every allocation
  is told.
* **Fit supervision** (runtime, publication). State: `runtime.json` and
  `result.json` of an attempt, futures, timers, processes. Operations: submit
  (admission), claim, end, expire, accept, clean up. Hard: four threads of control
  write one file without a common lock; orphans of dead controllers; a timer that
  decides and writes in two steps. Correct: at most one accepted result, readable
  for ever; deadline and result exclude each other; an attempt ends.
* **Fold preparation** (expansion: `_FoldDependencies`). State: the circuit of
  scientific failures, a storage wait in the ledger, the descriptors of the living
  controller with their reader pins. Hard: three records of one build; waiters
  shared by programs and attempts. Correct: ready means settled; a blocked
  dependency stays blocked; followers do not wait for ever.
* **Decision store and planner application** (expansion: `DecisionStore`,
  `apply_decision`; discipline; `ProgramSearchController.register`, `set_budget`).
  State: decisions with their status and receipts, the budgets of the programs, the
  set of retired programs in memory and on disk. Operations: record, audit,
  register, extend, retire, complete, replay. Hard: six durable writes that may stop
  after any, and a replay that starts again at the first against a search that has
  moved on. Correct: an applied decision is applied whole, an extension is granted
  once, a retired program is not asked again.
* **Paid-call guard and billing** (`planner_request_guard`, `openrouter_*`). State:
  the circuit of paid rejections, request receipts. Hard: a crash between request
  and response; a receipt that arrives late. Correct: no paid request is repeated.
* **Control intents and trace outbox** (control, telemetry, and the planner and
  tracing phases of the loop). State: one durable slot for decisions, the outbox with
  the receipts of its rows, the queue of what waits in memory, flags that gate planning.
  Operations: reserve, stage, enqueue, acknowledge, recover, hydrate, deliver, drain.
  Hard: two databases without a common transaction; a commit that is reported as a
  refusal; a gate that reads a cached view; two threads that deliver the same row;
  exports that are lost. Correct: every paid call is accounted for by slot or outbox;
  calls are paid in turn; a saved response is traced; a row gets one trace, which can be
  read.
* **Preparation cache** (preparation, capacity, storage's cache columns). State:
  artifacts under content keys, a lock and a pin file for each, recorded sizes in order
  of use, growth promised to leases. Operations: prepare (look, trim, reserve, lock,
  read or rebuild, publish, commit, pin), trim, evict. Hard: three looks before a lock
  is taken, two orders of the same locks, a lock change that is not atomic,
  processes killed while they remove. Correct: nobody takes an artifact from its user,
  one builder for each key, the limit holds, nobody waits for ever.
* **Resource admission** (scheduler, `research_resources`). State: reservations
  with estimate and peak, a headroom sampled once per iteration, a ladder of proven
  capacity, programs deferred and for how long. Operations: observe, reserve, release,
  peek. Hard: a sample charged between two observations, shared matrices counted once,
  large jobs overtaken by small ones, a trial that turns out larger than the estimate
  it was admitted by. Correct: estimates fit, a sample is spent once, dispatch goes on.
* **Earlier controllers** (`research_controller`, `research_v5`). State: the same
  ledger; a campaign lock. The expansion controller uses their tell reconciliation.
* **Journal and SQLite wrappers** (journal, `research_sqlite`). State: an append-only
  file with Optuna's lock (a symlink) and a flock. Operations: append, roll back, replay.
  Hard: a lock that names no owner, an append that is cut back while others wait or read,
  a torn last record. Correct: no replay sees what is rolled back, no append touches
  another, what was reported done is read.
* **Feature lifecycle** (lifecycle). State: a receipt for each build, an index of all,
  the published dataset, outcome files, an MLflow run. Operations: submit, build, track,
  link an outcome, catalog. Hard: a save is two writes; the explorer, the controller and
  the command line work on one build; responses of the server are lost. Correct: no fact
  without its files, one run, nothing settled is overwritten, a build settles. Planned.
* **Exploration queue** (exploration). State: entries in SQLite under one loop lock,
  accepted fits, outcomes, MLflow runs of each attempt. Operations: refill, pick, build,
  fit, record, publish, retry, recover. Hard: any write may be refused and any loop may
  end inside an entry; candidates, planner and bundles ask for the same definitions.
  Correct: no entry is forgotten or tested again, an accepted fit is not repeated, every
  entry and its tracking settle.
* **Immutable objects**, **dataset registry**: content-addressed publication and
  requests that survive crashes.
* **Everything else** (features, models, evaluation, betting, pools, scraping,
  scripts, deployment, data) is numerics, parsing, or command lines.

`PROJECT.json` lists every component with its files and status.

## 2. Modules

| module | models | actions and the code |
|---|---|---|
| `StorageAuthority` | storage: leases, writers, the host | one action per authority call and per `ReservedFile` step |
| `MCStorageAuthority` | its instance | |
| `StorageAuthorityProofs` | proofs | |
| `TrialLedger` | search + store + the controller's walk between them | section 2.2 |
| `MCTrialLedger` | its instance | |
| `TrialLedgerProofs` | proofs | |
| `BoundedExecutor` | runtime: one supervised job | `Submit`, `Claim`, `End`, `Expire`, `MarkExpired`, `Finish*`, `Cancelled`, `Cleaned` |
| `AttemptOutcome` | abstract: what an attempt promises | |
| `FitEpisode` | extends `BoundedExecutor` with ledger row, storage wait, publication and controller | section 2.3 |
| `FitEpisodeProofs` | proofs, among them the refinement of `AttemptOutcome` | |
| `FoldPreparation` | extends `BoundedExecutor` with the circuit, the wait and the ready set | section 2.4 |
| `DecisionStore` | the application of planner decisions | section 2.5 |
| `MCDecisionStore` | its instance | |
| `DecisionStoreProofs` | proofs | |
| `PlannerControl` | a paid call, the control slot and its trace | section 2.6 |
| `TraceDelivery` | extends `PlannerControl` with the delivery of the outbox by the loop and by drains | section 2.6 |
| `PlannerControlProofs` | proofs of both, among them that `TraceDelivery` implements `PlannerControl` | |
| `ResourceAdmission` | which job starts next | section 2.7 |
| `MCResourceAdmission` | its instance | |
| `PreparationCache` | the shared cache of prepared folds | section 2.8 |
| `MCPreparationCache` | its instance | |
| `PreparationCacheProofs` | proofs | |
| `JournalAppend` | journal: append, rollback and replay | section 2.9 |
| `JournalAppendProofs` | proofs | |
| `FeatureExploration` | exploration: the queue and its loop | section 2.10 |
| `MCFeatureExploration` | its instance | |
| `ControllerProofs` | proofs of `FoldPreparation`, `FeatureExploration` and `ResourceAdmission` | one part for each; they share no variable and no name, so the parts cannot touch |

`BoundedExecutor` is one component used twice: the controller of fits and the
controller of fold builds submit the same kind of job and treat its end
differently. `FitEpisode` looks at one attempt in full and `TrialLedger` at all
attempts with the fit reduced to how it ends; what `TrialLedger` assumes of a fit
(one published result at most, which no later step takes back) is what
`AttemptOutcome` states and `FitEpisode` is proved to implement.

Definitions marked *Mutant* change one definition the way a plausible bug would.
Nothing refers to them; substituting one for its original makes the property named
beside it in `PROJECT.json` fail.

### 2.1 StorageAuthority

Every call holds the flock, so it is one action. A refused call changes nothing,
not even the reconciliation it computed (storage:181-189): it is a step that is not
enabled. `process` maps a pid to the identity of its process (boot id and start
time in the code), `-1` being an identity we may not read. A writer's budget
(`remaining`, `unconsumed`, `buffered`) lives in its process and dies with it
(`Exit`), its lease does not. `Drain` is the moment bytes appear in `statvfs`,
`Consume` the later moment they leave the lease. `ForeignUse` and `Delete` are the
rest of the host. The cache columns of `state.json` are in `PreparationCache`.

### 2.2 TrialLedger

One variable for each durable store (`trials`, `attempt`, `published`), one for the
controller's futures, and `pc` for where the controller is. Each durable write is
an action, and `Crash` may fall between any two. Attempts are identified by their
recipe: inside a campaign data, protocol, code and environment are fixed, so the
execution signature is a function of the recipe. Told values, scores and metrics
are the members of `Values`. `Reserve` includes the submission of the fit, because
the code submits before it marks the row running (expansion:2084-2109).

### 2.3 BoundedExecutor and FitEpisode

`runtime.json` is a nonce and a status; pids, heartbeats and timestamps in it are
left out. Time is the bit `late`: the file's `deadline_at` has passed. Admission
keeps a deadline it finds, so only removing the file (`Submit` with `None`) clears
the bit. The timer decides in `Expire`, under the completion lock, and writes in
`MarkExpired`, after it. The pool's callback is `Finish*`; acceptance publishes
`result.json` inside its runtime update, so a refused update can leave a published
result and a future that reports a storage failure (`Accept`). `_update_runtime` replaces
the file before it syncs the directory and gives its lease back, so every refused update of
it (of `Claim`, `EndUnwritten`, `MarkExpired`, `FinishTimedOut`) may have been made all the same.

A task whose deadline has already passed is admitted and marked timed out in one
`Submit`. A progress policy, which could extend a deadline while a job runs, is not
used by the submissions modelled here and is left out. Nonces are reused once no
file, process or receipt names them, which makes the number of episodes unbounded
with few nonces.

`FitEpisode` adds the controller: `SubmitFit` and `MarkRunning` are two steps,
`Complete*` the three ways of taking a done future (published, deferred, failed),
each with the refused ledger write, `Start` the recovery of one row, `ResetOnly`
and `ResetRefused` the two ways `_reset_operation_runtime` can end a campaign.

### 2.4 FoldPreparation

The circuit (`failures`, `delayed`), the storage wait of operation `fold:<id>`
(`wait`, with the runtime it archived), and `ready` with `up` for the memory of the
living controller. `Complete*` and `PublishBlocked` are the branches of
expansion:1543-1574; `Invalidate` is `is_ready` finding a replaced artifact.

### 2.5 DecisionStore

`apply` says which decision `apply_decision` works on and which durable write comes
next; every write is an action (`Admit` to `Complete`), and `Fault` and `Crash` may
come before any. `Fault` keeps what `retired |= ...` did to memory before the write
of the file was refused (expansion:398-399). `Replay` is the loop before the
campaign's own loop (expansion:1232-1237), where any exception ends the campaign
(`refused`). A program bears the number of the decision that proposed it, because
the evidence path is part of its identity. `Answers` are what a planner may return:
a signature, programs to extend and to retire; two answers with one signature are two
proposals of one experiment. `Reject` is the audit's refusal, and in the loop also that of the
ceiling of programs that wait for trials (expansion:1815), which may come at any decision.
`Register` is the line of the index: the study behind it is created by whoever reads
the line first. `Ask` stands for a trial, whose fate is `TrialLedger`.

### 2.6 PlannerControl and TraceDelivery

`slot` is the decision row of the control store, `outbox` the decisions' rows of
`trace-outbox.sqlite`. A publication runs through `check`, `stage`, `enqueue`,
`acknowledge`, each a commit of its own; `PublishRefused` is a refusal at any of them,
with or without the commit. The publication of a call that just returned and those of a
tracing pass both run in the loop's thread, so one variable holds the one under way; a
pass over several entries is one `TracePass` for each. `queue` is `pending_trace_enqueues`, whose
entries are raw payloads or envelopes read from the slot. What the trace says is
reduced to whether it was taken up from a saved response, which is a field of the
payload and the only thing two payloads of one decision can differ in. `draining` says
that a drain is under way; its report (`DrainReport`) sets `trace_storage_blocked` anew
and counts or forgets failures, whoever set them before.

In `PlannerControl` a delivery (`deliver`, the last step of a publication) and a drain
end in any way. `TraceDelivery` says how: `job` holds what the loop's thread and the
uploader's are at, `emit`, `span`, `verify` or `publish`, each ending at a commit or a call of
the server. `receipt`, `delivered` and `link` are the row's columns and
`traces/decision-n.json`; `readable` is what the server has. `Persist` comes between the
start and the end of a span, under the lock that serialises emissions; `EndSpan` may lose the
export, `Verify` finds or restores it; `Fail` ends any step, with or without its effect.
A refusal inside the span ends the span, whose trace is exported all the same: the row
then has no receipt of it, or one that was committed nonetheless. A trace is its row and the
number of its span, so a second span is a second trace; `spans` keeps for each the thread
that saved its receipt, or that the receipt was refused. `overlapped` is a history of the
rows two threads were at together. Steps of `PlannerControl` that have nothing to do with a delivery leave all of this alone
(`Controls`); the loop's deliveries end with its `Deliver`, and drains are steps
of their own beside it.

### 2.7 ResourceAdmission

One iteration of the loop: `Observe`, `Release` for the jobs that ended, `Resume` for
allocated rows, `Ask` for new trials while a candidate is left. `Ask` makes both
estimates of a trial: the program's own recipe decides whether it is a candidate,
the recipe that is suggested whether it starts or stays allocated (`Settled`).
`Observe` picks any use of memory by the running jobs, others and the controller, and
charges growth beyond the peak twice, as the code does until the next sample. The headroom
is counted above the reserve, but the ramp pauses by what is available with it (expansion:1391).
`Stalled` and `Starved` name the states in which nothing is dispatched because memory is short
for a job that would run alone; only `DispatchGoesOn` reads them.
`Holding` and `Foremost(p, Feasible)` are what `peek_feasible` returns, `Peeked` what it
remembers: times are compared only with one another, so `longer` says of two deferred
programs which waits since an earlier time and `aged` whose wait is over. `order` is the
line `fair_program_order` computes from the reservations; `Behind` puts the program
reserved last at its end. A job is in `active` under an id that is free. Memory of the
cgroup, CPU threads, disk and the cold quota are limits of the same form.

### 2.8 PreparationCache

Processes of any campaign, each with its place in `prepare_fold` (`pc`), the key it
wants, its hold of `<key>.lock` and whether it pins the key. `trim` says who holds
`authority.lock` to evict and what is left to try; every other use of the authority
is a single action, guarded by `AuthorityFree`. `Start`, `LookAgain` and `Probe` are the
three looks. `Retain` and `Convert` are the change of a builder's lock into a reader's,
with the gap flock leaves. A check under the exclusive lock fails because the artifact is
not valid, or because a read, `state.json` or a pin failed on a good one (`Misses`, `CheckFails`);
`Rebuild` then removes what is there, whoever pins it. `Crash` leaves what the process was
removing in part, what it had evicted recorded, and what it had published unrecorded;
`CommitFails` leaves a published artifact behind in a process that lives on. `Estimated` is what a
build was reserved for, much less when the artifact was there at the second look. `stray`
(published and not recorded) and `paid` (the units promised to the lease an artifact was
published under) are histories that only `LimitKept` reads.

### 2.9 JournalAppend

`file` is a sequence of pieces, two for a record, the second of which ends its line;
`Records` is what `read_logs` makes of it. A writer goes through `Acquire` (the link,
which `Forgotten` hands on from a writer that is slow or dead), `Open` (the exclusive
flock and `original_length`), `Put`, `Synced`, or `WriteFails` and `Rollback`, and closes.
`outcome` keeps what each append reported: done, refused (rolled back) or unsure. What
`TrialLedger` assumes of Optuna's store, an append that happens whole or not at all, is
`AppendsWhole` here, as long as no append is torn.

### 2.10 FeatureExploration

An entry is the set of its definitions, as in its id; `{}` is the control. `pc` and the
record `my` say where a process is in `run`. `Candidates`, `Planner` and `Bundle` compute
what `Enqueue` then inserts one by one. `Condemned` is the except clause of `step`,
`BaselineFails` that of the baseline, `PublishFails` that of `publish_tracking`, and `Ends`
every other way a loop ends, a signal included. `starts` is how often systemd still starts the
service: a start that finds the lock fails and uses one up (`StartFails`), a loop that
ends cleanly (the STOP file), or a start that is skipped, switches the unit off, and so does the last
start; `SwitchOn` is the operator. `WaitsDisk` is the step that ends at the disk guard. Builds and fits succeed or fail as a whole:
`FitEpisode` is about the inside of a fit. `executed` counts accepted fits.

## 3. What the runs check

All bounds are constants of the modules, and guards name them.

| run | instance | shows |
|---|---|---|
| `leases` | 2 pid slots, 2 leases, 4 blocks, 2 inodes, 2 process starts, 2 foreign blocks | LeaseCoversWriter, HeadroomKept, AbandonedLeasesReclaimed |
| `trials` | 2 programs, 2 recipes, 2 asks for each, budget 1, 2 deaths, 2 storage failures | BudgetHeld, OutcomesAgree, AcceptedResultKept, OutcomesAreFinal |
| `trials_live` | 2 programs, 2 recipes, 1 ask, 1 death, 1 storage failure | AllocationsAreTold |
| `fit` | 3 nonces, 2 storage failures, 1 death | ReceiptStands, TimeoutExcludesResult, AllowanceKept, OutcomePromised, AttemptSettles |
| `fold` | 3 nonces, 1 storage failure, 1 death, 1 eviction | ReadyIsSettled, BlockedStays, PreparationSettles |
| `decisions` | 3 decisions, 4 answers, 2 refused writes, 1 death | AppliedIsWhole, SpentWithinGrants, RetiredStops |
| `planner` | 2 decisions, 1 refusal, 2 failed deliveries, 1 death, drains of 1 row | ChargeAccounted, SavedIsTraced, OneTraceEach, TraceIsDelivered |
| `admission` | 3 programs in 2 lanes, 2 jobs, 4 units of memory, suggestions that never fit | EstimatesFit, SampleSpentOnce, DispatchGoesOn |
| `prep` | 2 processes, 2 artifacts, a cache that holds either, 1 death, 1 rotten artifact or failing call | PinnedStays, OneBuilder, LimitKept, PrepareEnds |
| `journal` | 2 writers, 1 reader, 3 appends of 2 records, 2 failures, 1 death, 1 link taken from a living writer | ReplayStands, AppendsWhole, AppendsEnd |
| `exploration` | service and command line, 2 definitions (3 entries), 1 proposal, 2 failures or ended loops, 2 starts of the service | NothingTwice, SettledStays, EntriesSettle |
| `fit_reset` | smallest that shows it | the first divergence of section 6 |

Why these are enough. `leases`: both writers can want the last block at once, a pid
can be reused while its old lease is recorded, and others can take more than the
headroom. `trials`: both programs can suggest each other's recipe (the only way
trials of different programs meet), an ask can be pruned and repeated within
`MaxAsks`, and two deaths allow one during the recovery from the other. `fit` and
`fold`: three nonces are an orphan, the episode in flight and the archived one, the
three roles a runtime can have; two storage failures allow a refusal while an
earlier one is being recovered; the failure threshold of the circuit is the code's
own, 3. `decisions`: three decisions are one that is left pending, one that overtakes
it and one that extends or retires the program of either; two refused writes allow
the recovery of the first to be refused. `planner`: two decisions are one whose
trace is owed and one that is planned too early, or two rows of which a drain selects
one; the loop and a drain overlap on a row with these bounds; two failed
deliveries are one inside a span and one of the retry or of the other thread, and the
three failures that end the tracing passes come from a payload that fails in each (section 6). A refusal of the slot, of the saved
response or of the outbox needs one refusal; pairs of them and 3 decisions were also checked for
`PlannerControl` with free deliveries, which the proofs cover for every number. `admission`: a small and a
large program share a lane and a matrix, so one can overtake the other, and the third
is expensive; two jobs are the fewest with a ramp. The larger suggestions of the last two
need more than the budget leaves to one job, so either lane can come to a stop behind a row
that never fits. `prep`: the larger artifact outgrows
the estimate and does not fit beside the smaller, so every preparation has to trim;
the one failure can meet a reader, a check, a commit or the file; every lock has a holder and a contender, and a maintenance trim can be either.
`journal`: three appends are one that is torn or rolled back, one that waited for it and
one after both; a batch of two records can be cut inside a line and between lines.
`exploration`:
two definitions are the fewest with a bundle, so a bundle is due at every second screened
entry instead of every eighth, and one definition is asked for by the planner and by the
loop itself; a failure may come during the recovery from another.
The runs check the type invariants of `PreparationCache`, `ResourceAdmission`,
`JournalAppend` and `FeatureExploration` as well, which say more than the type of a variable
(a strict line of programs, one process at work, what a descriptor is for). The other type
invariants, and the properties WritersNeverRunOut (a writer's own budget is what stops it),
SuggestionIsNew, PaidInTurn and LinksReadable, are proved for all values of the constants; TLC
agreed before, and no run repeats them.

`CHECK_DEADLOCK FALSE` is set in the configurations of `FitEpisode`,
`FoldPreparation`, `DecisionStore`, `TraceDelivery` and `JournalAppend`: an attempt with an outcome and
no process left has nothing to do, nor has a dependency that is ready or blocked, nor a
controller whose decisions are all made and traced and whose trials are asked, nor a
writer once the bounded number of appends is made. The other configurations check for deadlock.

### Fairness

* `leases`: `Reconcile` only. `ima-research-capacity-maintenance.timer` trims the
  caches every minute, and `trim_caches` persists a reconciliation. Nothing is
  assumed of writers.
* `trials_live`: weak fairness of the controller's own writes and of its restart
  (`Restart=on-failure`); that a fit ends (it has a deadline, and run `fit` shows
  that the attempt settles). Strong fairness of `Complete`, `Resume` and
  `RecoverOrphan`: every iteration of the loop comes to every done future, pending
  row and interrupted ask, but other phases disable them in between. Strong fairness
  of `Drain`: leftover tells are repeated when the campaign is stopped or restarted
  (expansion:2201-2214), and it eventually is. No fairness of new asks, deaths or
  storage failures.
* `fit`, `fold`: the clock, the backoff, the restart, the loop's handling of a done
  future, and resources that are admitted in the end, so that a wanted job is
  submitted. Nothing is assumed of the fit itself: it may hang, and the timer then
  decides. A cancelled process ends: the pool kills it, and systemd kills the
  control group of a dead controller (`KillMode=control-group` in
  `deploy/systemd/ima-research-expansion-supervisor.service`). Orphans may still
  outlive several restarts in the model; they only do not live for ever.

* `planner`: the loop comes to a planning future that is done, to the next step of a
  publication, to a reserved slot with a saved response and to a tracing pass in every
  iteration, and the unit is restarted; the uploader's thread goes on with its drain, each
  delivery with its next step, and the loop comes to a drain that is done. The provider may
  never answer. Deliveries may fail, as often as the bound says: every further one succeeds.
* `admission`: the loop iterates, and a job that runs ends (strong fairness: the
  completion phase comes in every iteration, and jobs have deadlines). Ageing, the
  ramp and everybody's use of memory are free: nobody has to give memory back. So
  `DispatchGoesOn` says that dispatching goes on or the host is `Starved` for good, with nothing
  running: the jobs of the lane whose turn it is do not fit even then, or an aged one fits
  the budget and not the host (section 6).
* `prep`: strong fairness of each process, because flock queues its waiters: one that
  waits for `authority.lock` gets it although others keep asking. A process may be
  killed, and a caller may keep its pins for ever.
* `journal`: a writer goes on, a reader ends its replay, and the kernel grants the flock to
  one that keeps waiting (strong fairness of `Open`). New appends, deaths and failures are
  free.
* `exploration`: a loop goes on, the time of each retry comes (strong fairness of `Loop` with
  all that is pending; `tracking_retry_after` is one minute), and systemd starts the
  service while the unit is not off, a start that succeeds or fails. No start need find the lock
  free: the command line may hold it each time, until the limit (`StartLimitBurst`, 3 starts
  in 15 minutes) leaves the unit failed. Nobody has to switch it on again, and `EntriesSettle` excludes
  entries only for as long as it is off. The planner may never propose,
  the command line may run or not.

## 4. What is proved

tlapm checks every leaf; the proofs hold for every value of the constants under the
named assumptions (`CapacityAssumption`, `TokenAssumption`, `BoundsAssumption`, `BoundAssumption`,
`ResultAssumption`, `ExecutorAssumption`, `CrashAssumption`, `FoldAssumption`,
`AnswerAssumption`, `NoneAssumption`, `DeliveryAssumption`, `NoJobAssumption`,
`CacheAssumption`, `ExplorationAssumption`, `SizeAssumption`, `ProgramAssumption`), which say
that bounds are natural numbers, that the sets summed over are finite, that the
placeholders are distinct from the values, and of an answer that it never extends
what it retires. Every safety and action property of the passing runs is a theorem.

* **StorageAuthority.** `IInv` relates three quantities per lease: what the writer
  may still write plus what it wrote and did not consume is within the lease
  (`LeaseCoversWriter`); only the process named by a lease owes anything; and the
  sum of what is owed fits between headroom and free space plus what foreigners
  took (`HeadroomKept`). The last is not inductive on its own: an admission is
  computed from leases, not from what is owed, so the proof compares the two columns
  after reconciliation (`ReconciledCovers`), and `BufferedCounted` bounds what is
  buffered by what is not yet consumed. Sums are cardinalities of sets of units, so
  that the lemmas on them need no recursion.
  Theorems: `TypeCorrect`, `ConsumeNeverRefused`, `LivingWritersKeepLeases`,
  `HeadroomRespected`, `AdmittedWritesFit`.
* **TrialLedger.** `RowInv` says that a row has a whole trial of its recipe, running
  until it is told; `TrialInv` that a finished whole trial is its row's; `PcInv` what
  the controller is in the middle of (a trial being asked has no row, a suggestion
  about to be reserved has none for its recipe); `FitInv` that only a running or just
  submitted row has a fit, and that a terminal row has the published result. Each
  needs the others: that the stores agree after a tell rests on whose trial the row
  is, which rests on what an interrupted ask had written. Theorems: `TrialTypesCorrect`, `StoresAgree`,
  `AcceptedResultsSurvive`, `SuggestionsAreNew`, `NoSecondFit`, `FinalOutcomes`,
  `BudgetRespected`.
* **FitEpisode.** The core of the invariant is `FlightNamed` (the
  episode in flight is the one `runtime.json` names), `ReceiptStands` (a published result is
  named and finished), `LateHasFile` and `PublishedIsOver`: together they rule out
  that a late timer, an orphan or an earlier future writes to the file after the
  publication. Theorems: `ReceiptsStand`, `DeadlineOrResult`, `FinishedByWorker`,
  `FlightKeepsFile`, `AllowanceIsKept`, `TypeCorrect`, and `ImplementsOutcome`:
  every behaviour of the attempt, with its deferrals and restarts, is a behaviour of
  `AttemptOutcome` when `outcome` is read from the ledger row and `accepted` from
  the receipt.

* **FoldPreparation.** Two facts about the build in flight carry the proof:
  `runtime.json` names it (`FlightNamed`), which every write guarded by the nonce
  keeps (`NamesKept`), and the circuit is not open (`FlightOpen`), because nothing is
  submitted for a blocked dependency. So when the circuit opens nothing is in flight
  whose completion could clear it. Theorems: `TypeCorrect`, `ReadySettled`,
  `BuildNamed`, `StaysBlocked`.
* **DecisionStore.** `Progress` reads off the next write of `apply_decision` which
  receipts, budgets and retirements are already durable; `Grows` says that no step takes
  one back, so a replay from the first write finds at least as much. `WithinCap` counts
  the decisions that extend a program: a frozen budget is computed once, from a
  budget within the count, and raises the count by one. `Remembered` (the file never
  holds a retirement that the controller forgot) gives `RetiredStops`. Theorems: `TypeCorrect`,
  `AppliedWhole`, `WithinGrants`, `RetiredStop`.
* **PlannerControl.** `ChargeAccounted` is about the slot and the outbox only, but
  keeping it needs every place a decision can be in: the numbers only grow
  (`NumbersInv`), slot and outbox agree about the decision in the slot
  (`SlotInv`), what waits in memory waits for that slot (`QueueInv`), a decision whose call was
  submitted owns it and finds nothing waiting (`PlanInv`), a publication past staging
  has its trace there (`PublishInv`), a completed slot waits in memory too, which keeps the
  gate shut (`GateInv`), and a drain runs beside the loop's own publications only
  (`DrainInv`). The gate itself is weaker than it looks: `MayPlan` may open over a reserved
  slot (section 6), and the proof uses only that `reserve_decision` refuses then.
  Theorems: `TypesCorrect`, `ChargesAccounted`, `CallsInTurn`.
* **TraceDelivery.** `DInv`: a trace is on the server before its link is written
  (`PublishedInv`) and is of a span that was begun (`IdsInv`); a row with a saved span has a receipt,
  the thread that saved it is not about to emit another, and two saved spans are of two
  threads that overlapped (`SavedInv`); a row nobody overlapped on is delivered by one thread, which
  emits only before there is a receipt (`AloneInv`). Theorems: `DeliveryTypesCorrect`, `TracesCounted`, `LinksHold`, and
  `DeliveryImplements`: every step is a step of `PlannerControl` or leaves its variables alone,
  so the theorems above hold of the composition.
* **PreparationCache.** `Owned` says which lock or pin a process holds at each point,
  `Exclusive` that an exclusive lock excludes, `Found` what is on the disk for it.
  In the gap between a builder's exclusive lock and its shared one only the pin is
  left: it stops the eviction, but not a process that gets the exclusive lock in the gap and
  whose own check fails, so `Found` is about those who hold a lock, and the theorem about pins
  says what a step may do: `FileSteps` lists the steps that touch an artifact, `Entering` and
  `Staying` say what they leave to its users. Theorems: `UsersKeepArtifact`, `BuiltOnce`. `Ledger` adds the sizes: what is present, recorded or about to be recorded by
  its publisher (`Counted`) is in `recorded` and in what a trimmer is about to write
  (`Covered`), what is about to be published was promised up to its estimate (`Backed`), what was
  published is no larger than what was paid and the slack of an estimate (`Priced`), and the units paid
  for the counted artifacts with the promised growth are within the limit (`Room`); so a trimmer that decides from its copy of
  the records still decides for enough. Theorems: `TypeCorrect`, `WithinLimit`.
* **JournalAppend.** The writer with the file finds at its end what it put and nothing
  of its batch before (`TailInv`), so a rollback to `original_length` takes away its own
  pieces only; what a reader replayed lies before anything that can be rolled back
  (`SeenInv`); and until an append is torn the file is a row of whole batches (`FormInv`).
  `ReportInv` then relates what every append reported, or is about to report, to the file.
  That the link of the lock may be taken from a living writer costs nothing, because the
  flock excludes (`LocksInv`). Theorems: `TypeCorrect`, `ReplaySafe`, `AppendsSafe`.
* **FeatureExploration.** One process is at work (`Places`), and what it found out about its
  entry still holds when it acts on it (`Grounds`): an entry at test is running, one that is
  published is screened, a fit about to be accepted has none accepted, and the run it is
  about to create is not there. Each rests on the lock and on the statuses only the holder
  writes; a loop that is cut off at any point and recovered by another keeps them because
  the counts (`Counts`) are durable and looked at again. Theorems:
  `ExplorationTypeCorrect`, `OnceOnly`, `OverStays`.
* **ResourceAdmission.** `EstimatesFit` is nearly inductive: an admission compares the peaks,
  which are above the estimates (`JobsOK`). `SampleSpentOnce` is not, because it says nothing of
  what is left: `SpentOK` says that the newer jobs, the matrices only they map and the headroom
  that is left are within the sample, and that a headroom which was drawn from is above the
  emergency reserve. A matrix is charged to the job that maps it first (`ChargedOnce`); that
  stays right because no job is given back between a reservation and the next sample, which
  the invariant states of the phase. Theorems: `AdmissionTypeCorrect`, `FitsBudget`, `SpentOnce`.

Sums are cardinalities of sets of units in every module that has them, so that a
lemma on them is one on finite sets. What a fold over a set computes would need an
induction that the installed provers cannot instantiate.

Model-checked only: the ten liveness properties, for no installed prover handles fairness.

## 5. What is not modelled

* In the modelled components: feedback receipts after a publication
  (`pending_feedback`, `deliver_feedback`), deadline extensions by a progress policy,
  the optimizer's choice of recipes (any recipe), payload reclaim and the SQLite capture of the
  authority, program preparation (the same supervised job as a fold build with a
  simpler circuit), event and import tables of the ledger, feature definitions and
  betting and dataset requests inside a decision, the operational slot of the control
  store, rows of the outbox for other roles or without a stored trace and a
  changed tracking server, the cache catalog and the pinned
  retention policy, the MLflow runs of the exploration's controller (exploration:694-699) and of a
  build, and an exploration without tracking.
* Registering a program also creates its study. When that is refused, the program is in memory
  without a study until a restart opens it, with `load_if_exists`; `Register` is one step.
* A refused write of `state.json` elsewhere in the cache's bookkeeping (adopt, trim, reserve, extend,
  release) leaves at most more charged than is there, until the process ends.
* Components without a module that keep state and could have one: the receipts, index and
  tracking of a feature build, the paid-call guard,
  the SQLite wrapper, reclaim isolation, immutable objects, the dataset registry, transfers
  and promotion of features, the exposure ledger of confirmations. Section 7 has their order.
* Components with nothing for a model of interleavings: feature code, recipes and
  evaluation, betting arithmetic, race data, scraping and scripts are numerics, parsing
  and command lines; they are the greater part of the repository, next to its notebooks.

## 6. Divergences between the code and what it says

With a run that shows it:

1. `fit_reset`. `fits.submit` replaces `runtime.json` before `mark_running` ends the
   storage wait. A campaign that ends in between leaves an archive that does not
   match the file, and `_reset_operation_runtime` raises in every later campaign.
   `AttemptSettles` excludes exactly this state (`Stuck`).

Met while modelling; the modules reach these states and the properties allow them:

* A decision that is recorded and then refused for storage stays pending. When a later
  decision registers a program of the same signature first, the replay at the next start
  is refused by the discipline's audit and the exception ends the campaign, now and at every
  later start (`refused` in `DecisionStore`), although discipline:218 says that an identical
  authorization survives crash recovery.
* A process that is killed while it removes an artifact leaves a directory
  `_qualify_cache_directory` does not recognise. It is neither rebuilt nor evicted (`refused` in
  `PreparationCache`), although `docs/AGENTIC_RESEARCH_EXPANSION_PLAN.md:252` says incomplete
  artifacts are rebuilt under the lock.
* `step` of the exploration handles every `RuntimeError` behind the build as a failed fit
  (exploration:674). A refused admission is one, though storage:32 says it is no
  scientific failure; nothing tests the entry again. The clause also covers the last write
  of `publish_tracking`: refused there, it turns an entry that is already screened into a
  failed one, which `SettledStays` allows.

* A duplicate suggestion has all its attributes before it is told PRUNED. A death in
  between leaves a RUNNING trial that neither `_reconcile_incomplete_asks` nor
  `_recover_orphan_asks` resolves; it uses up one trial of its program's budget.
* When `complete_attempt` is refused for a failed outcome, expansion:1625 says "never
  retrain this episode", but a failure is held by no immutable result and the attempt
  is fitted again.
* After a storage deferral the wait of a fold stays active during the rebuild. If that
  rebuild fails for a genuine reason, the retry after the circuit's delay meets a
  runtime that was not archived and ends the campaign. `PreparationSettles` excludes
  exactly this state (`Refused`).
* `runtime.json` of a finished build keeps its deadline. When the artifact is lost after
  it, the rebuild is answered with a timeout before it starts, and the circuit counts
  it as a scientific failure.
* A trace that was refused for storage is kept in memory. When its decision is recovered
  from the saved response meanwhile, the two payloads differ by one field and the retained one
  fails against the outbox (telemetry:235) in every tracing pass, until the passes
  are given up for the rest of the campaign.
* A row can get two traces, in two ways. The loop delivers what it has just enqueued while a
  drain that is under way has selected the row; both read that it has no receipt, and the lock in
  `_emit_trace` only makes one emit after the other. And when storage refuses the receipt inside
  `mlflow.start_span` (telemetry:605-622), the span ends with the exception and its trace is
  exported, but the row does not name it and the next delivery emits another. The traces all
  bear the cost. `docs/V6_RELIABILITY_AND_TRACE_REPAIR_PLAN.md:160` says that the outbox remains
  exactly-once; `OneTraceEach` says how often it is not: one trace for each thread of an
  overlap, and one for each receipt that was refused.
* The report of a drain clears `trace_storage_blocked` (expansion:1430), also when a
  reservation that was refused, and may have been committed, set it. The gate then
  opens over an occupied slot; evidence is written again, and the reservation is refused
  again. No call is paid.
* Three failed drains or publications end the tracing passes until a restart. A response
  saved after it stays in memory or in the slot; `SavedIsTraced` and `TraceIsDelivered`
  name the count.
* `peek_feasible` says that impossible jobs do not prevent feasible backfill (scheduler:154-156).
  Possible is what fits in `ram_gib` (scheduler:185-186), the host is not looked at: a job that fits
  the budget, but not what others leave of the host, ages and then holds back every other one for as
  long as they do.
* A recipe that is suggested and then does not fit stays allocated (expansion:2096-2098). If it
  never fits, its program is not allowed again (expansion:2059), the turn of the lanes, which counts
  reservations, does not advance (expansion:2058), and no refill is asked for as long as the
  program has capacity (expansion:2344). When all programs of the lane are in that state, both lanes
  stand still. `DispatchGoesOn` excludes both cases (`Starved`); the instance reaches them.
* A preparation whose own check of an artifact fails with an `OSError` or a `ValueError`, of the
  read, of `state.json` or of its pin, removes the artifact, be it good (preparation:514-528);
  `_remove_known_cache_payload` asks the retention policy and no pin lock (preparation:168-195).
  The key lock keeps it from everyone who uses the artifact, but not from a builder between its two
  locks. `PinnedStays` names that gap (`Robbed`).
* After `os.replace` of an artifact the directory, the artifact, `state.json` or the pin may still
  fail (preparation:566-575). The caller is refused and its lease released (storage:251); the artifact
  stays, and before `state.json` was written it is charged to nobody until somebody looks at it.
* A build of an artifact that was there at the second look is reserved with 1 MiB and no growth,
  and its extension promises the rest only (preparation:466-481), so the estimate is on the disk
  unpromised. So is up to the larger estimate when a commit whose later steps fail has spent the
  promise. `LimitKept` allows exactly the estimate for each artifact.
* A start of the exploration service while the command line holds the queue exits with an error.
  Three of them in 900 seconds (`RestartSec=60`, `StartLimitBurst=3`) leave the unit failed with
  entries in the queue, until an operator starts it (`starts = 0` in `EntriesSettle`).
* A trimmer that dies after an eviction, or a reader that records an artifact evicted
  since it looked, leaves a record without a directory, charged against the limit.
* After a death inside an append the next one continues the torn line. A replay stops
  there or raises, whatever later appends report; `AppendsWhole` names the tear.
* A writer whose link was taken over may find it gone when it releases it: its records
  stand, its append reports an error (`unsure`).

Met while reading, in code that has no module:

* `build` of the feature lifecycle records `blocked_storage` for a build whose storage was
  refused; `catalog` counts by status in a dictionary that lacks it and raises `KeyError`, in
  the command line and in the capabilities the planner is shown, until the build is retried. Its
  docstring says the totals describe recorded status (lifecycle:718).
* A ready build whose verification fails for a moment is recorded pending, blocked or, on a
  `ValueError`, rejected, though its dataset stands and outcomes are linked to it.

## 7. Plan

1. `StorageAuthority`, `TrialLedger`, `BoundedExecutor`, `FitEpisode`,
   `FoldPreparation`, `DecisionStore`, `PlannerControl`, `TraceDelivery`, `ResourceAdmission`,
   `PreparationCache`, `JournalAppend`, `FeatureExploration`, with the proofs of section 4.
   *(done)*
2. `PaidCallGuard`: the circuit and the receipts of the provider, composed with
   `PlannerControl`.
3. The operational slot and the rows of execution summaries, in `TraceDelivery`.
4. `FeatureBuild` (receipt, index, tracking and outcomes of a build), `DatasetRegistry` and
   `ObjectLifecycle`: requests and publication that survive crashes; transfers of features to
   a champion.
5. An abstract log of appends, each whole, refused or unsure, that `JournalAppend` is shown
   to implement up to the first torn append, and that `TrialLedger` could take its writes from.

Runs stay one for each question; a module gets one run that checks its safety and
its liveness together where the instance allows.
