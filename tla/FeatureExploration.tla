-------------------------- MODULE FeatureExploration --------------------------
(***************************************************************************)
(* The feature exploration loop over its durable queue: refill, build,     *)
(* paired fit, outcome, and the tracking published behind it               *)
(* (ExplorationQueue and FeatureExplorer of feature_exploration.py).       *)
(*                                                                         *)
(* The service and the command line work on one queue under the lock of    *)
(* its root, which the kernel frees when its holder ends.  Every write of  *)
(* the queue and every external call may fail.  systemd starts the service *)
(* again when it failed, a number of times in an interval only, and not    *)
(* when it ended cleanly or was skipped.  An entry is the set of its       *)
(* definitions, of which its id is the hash; the control has none.         *)
(*                                                                         *)
(* Left out: the parts a build and its registry, or a fit (FitEpisode),    *)
(* consist of, and the scores, of which only the sign of the difference to *)
(* the control counts; the runs of the controller and of a build, and a    *)
(* loop without tracking.  tracking_retry_after only delays.               *)
(***************************************************************************)
EXTENDS Integers, FiniteSets, SequencesExt

CONSTANTS
    Procs, Nobody,
    Service,       \* the process systemd restarts
    StartLimitBurst,  \* how often it starts it in one interval
    Definitions,   \* what candidate_definitions can propose
    Proposals,     \* what the planner of the campaign may propose
    LowWatermark, RefillSize, BundleEvery, BundleSize,
    MaxFaults      \* bound: writes refused, calls that raise, loops that end

Entries == (SUBSET Definitions) \ {{}}
Control == {}
Attempts == Entries \cup {Control}

ASSUME ExplorationAssumption ==
    /\ {LowWatermark, RefillSize, BundleEvery, BundleSize, StartLimitBurst} \subseteq Nat \ {0}
    /\ MaxFaults \in Nat
    /\ Service \in Procs /\ Nobody \notin Procs
    /\ Proposals \subseteq Entries

VARIABLES
    rows,        \* the entries in the order they were created
    status,      \* of each
    source,      \* rank of who asked for it first
    track,       \* tracking_status of its result
    promising,   \* screened entries that beat the control
    proposed,    \* what the planner proposed so far
    executed,    \* how often a fit of an attempt was accepted
    outcomes,    \* entries with a linked model outcome
    runs,        \* MLflow runs of each attempt
    finished,    \* attempts with a FINISHED run
    holder,      \* who has the lock of the queue, or Nobody
    starts,      \* starts systemd still grants; with none the unit is off
    pc, my,      \* where each process is, and its local variables
    faults

queue == <<rows, status, source, track, promising>>
work == <<executed, outcomes>>
server == <<runs, finished>>
lock == <<holder, starts>>
explorationVars == <<queue, proposed, work, server, lock, pc, my, faults>>

EntryStatuses == {"absent", "queued", "running", "rejected", "screened", "failed"}
Sources == [orchestrator |-> 0, adaptive_bundle |-> 1, deterministic |-> 2]
Labels == {"idle", "recover", "loop", "retry", "candidates", "planner", "bundle", "pick", "build",
           "control", "controlFit", "candidate", "candidateFit", "record", "screen",
           "search", "create", "note", "finish", "settle"}
Locals == [mode : {"refill", "retry", "step"},   \* which caller is at work
           todo : SUBSET Entries,                \* what it still goes through
           cur  : Attempts,                      \* its entry
           at   : Attempts,                      \* the attempt it publishes
           got  : {"pending", "published"}]      \* how publishing went

NoEntry == [mode |-> "step", todo |-> {}, cur |-> Control, at |-> Control, got |-> "pending"]

ExplorationTypeOK ==
    /\ rows \in Seq(Entries) /\ IsInjective(rows)
    /\ status \in [Entries -> EntryStatuses]
    /\ \A e \in Entries : status[e] # "absent" <=> e \in ToSet(rows)
    /\ source \in [Entries -> 0..2]
    /\ track \in [Entries -> {"none", "pending", "published"}]
    /\ promising \subseteq Entries /\ proposed \subseteq Proposals
    /\ executed \in [Attempts -> Nat]
    /\ outcomes \subseteq Entries
    /\ runs \in [Attempts -> Nat] /\ finished \subseteq Attempts
    /\ pc \in [Procs -> Labels] /\ my \in [Procs -> Locals]
    /\ \A p \in Procs : holder = p <=> pc[p] # "idle"
    /\ starts \in 0..StartLimitBurst
    /\ faults \in 0..MaxFaults

ExplorationInit ==
    /\ rows = <<>>
    /\ status = [e \in Entries |-> "absent"]
    /\ source = [e \in Entries |-> 0]
    /\ track = [e \in Entries |-> "none"]
    /\ promising = {} /\ proposed = {}
    /\ executed = [a \in Attempts |-> 0]
    /\ outcomes = {}
    /\ runs = [a \in Attempts |-> 0] /\ finished = {}
    /\ holder = Nobody /\ starts = StartLimitBurst
    /\ pc = [p \in Procs |-> "idle"] /\ my = [p \in Procs |-> NoEntry]
    /\ faults = 0

-----------------------------------------------------------------------------
Goto(p, label) == pc' = [pc EXCEPT ![p] = label]
Local(p, locals) == my' = [my EXCEPT ![p] = locals]
Fault == faults < MaxFaults /\ faults' = faults + 1

Singles == {{d} : d \in Definitions}
With(s) == {e \in Entries : status[e] = s}
Pending == {e \in With("screened") : track[e] = "pending"}

\* The loop of p is over, and systemd grants one of so many starts then.
Leave(p, granted) ==
    /\ holder' = IF holder = p THEN Nobody ELSE holder
    /\ starts' \in IF p = Service THEN granted ELSE {starts}
    /\ Goto(p, "idle") /\ Local(p, NoEntry)

\* Mutant of MayStart: nobody is refused.
MayStartAlways == TRUE

\* exploration_lock: who finds it taken gives up.
MayStart == holder = Nobody

StartLoop(p) ==
    /\ pc[p] = "idle" /\ MayStart
    /\ p = Service => starts > 0
    /\ holder' = p
    /\ Goto(p, "recover")
    /\ UNCHANGED <<queue, proposed, work, server, starts, my, faults>>

\* The refill command: no recovery, no step.
StartRefill(p) ==
    /\ pc[p] = "idle" /\ MayStart /\ p # Service
    /\ holder' = p
    /\ Local(p, [NoEntry EXCEPT !.mode = "refill"])
    /\ Goto(p, "candidates")
    /\ UNCHANGED <<queue, proposed, work, server, starts, faults>>

\* The service is skipped by its condition, or exits at the lock, which is
\* taken or refused: systemd starts it again until its limit, or not at all.
StartFails ==
    /\ pc[Service] = "idle" /\ starts > 0
    /\ starts' \in 0..(starts - 1)
    /\ UNCHANGED <<queue, proposed, work, server, holder, pc, my, faults>>

\* The operator starts the unit that is off.
SwitchOn ==
    /\ starts = 0
    /\ starts' = StartLimitBurst
    /\ UNCHANGED <<queue, proposed, work, server, holder, pc, my, faults>>

\* Mutant of Recovered: what is running is left to whom it belonged.
RecoveredNone == status

\* What the queue holds once the work of a loop that ended is queued again.
Recovered == [e \in Entries |-> IF status[e] = "running" THEN "queued" ELSE status[e]]

Recover(p) ==
    /\ pc[p] = "recover"
    /\ status' = Recovered
    /\ Goto(p, "loop")
    /\ UNCHANGED <<rows, source, track, promising, proposed, work, server, lock, my, faults>>

Due == Pending

\* retry_tracking takes the rows that are due; or it is not their time yet.
Loop(p, due) ==
    /\ pc[p] = "loop"
    /\ Local(p, [my[p] EXCEPT !.mode = "retry", !.todo = due])
    /\ Goto(p, "retry")
    /\ UNCHANGED <<queue, proposed, work, server, lock, faults>>

\* The command line runs for some steps only; the STOP file ends any loop,
\* cleanly.
Done(p) ==
    /\ pc[p] = "loop"
    /\ Leave(p, {0})
    /\ UNCHANGED <<queue, proposed, work, server, faults>>

Retry(p) ==
    /\ pc[p] = "retry"
    /\ IF my[p].todo = {}
       THEN /\ Local(p, NoEntry)
            /\ Goto(p, "candidates")
       ELSE \E e \in my[p].todo :
                /\ Local(p, [my[p] EXCEPT !.todo = @ \ {e}, !.cur = e, !.at = Control])
                /\ Goto(p, "search")
    /\ UNCHANGED <<queue, proposed, work, server, lock, faults>>

-----------------------------------------------------------------------------
\* refill, as part of step or of its own command.

\* What comes next once the entries at hand are in the queue.
Then(p, todo, label) ==
    /\ Local(p, [my[p] EXCEPT !.todo = todo])
    /\ Goto(p, label)
    /\ UNCHANGED <<queue, proposed, work, server, lock, faults>>

\* The disk reserve is not free: the step waits.
WaitsDisk(p) ==
    /\ pc[p] = "candidates" /\ my[p].mode = "step" /\ Fault
    /\ Goto(p, "loop")
    /\ UNCHANGED <<queue, proposed, work, server, lock, my>>

\* Few are queued: definitions no entry uses become entries.
Candidates(p) ==
    /\ pc[p] = "candidates"
    /\ LET unused == {{d} : d \in Definitions \ UNION ToSet(rows)}
           free == Cardinality(unused)
       IN IF Cardinality(With("queued")) < LowWatermark
          THEN \E some \in SUBSET unused :
                   /\ Cardinality(some) = IF free < RefillSize THEN free ELSE RefillSize
                   /\ Then(p, some, "planner")
          ELSE Then(p, {}, "planner")

\* ingest_planner
Planner(p) ==
    /\ pc[p] = "planner" /\ my[p].todo = {}
    /\ Then(p, proposed, "bundle")

\* adaptive_bundle: the best of the promising single definitions together.
Bundle(p) ==
    /\ pc[p] = "bundle" /\ my[p].todo = {}
    /\ LET screened == With("screened")
           single == promising \cap screened \cap Singles
           size == IF Cardinality(single) < BundleSize THEN Cardinality(single) ELSE BundleSize
       IN IF screened # {} /\ Cardinality(screened) % BundleEvery = 0 /\ size >= 2
          THEN \E best \in SUBSET single :
                   Cardinality(best) = size /\ Then(p, {UNION best}, "pick")
          ELSE Then(p, {}, "pick")

\* Whose entries are at hand: those of the stage before.
Rank(label) ==
    CASE label = "planner" -> Sources.deterministic
      [] label = "bundle"  -> Sources.orchestrator
      [] label = "pick"    -> Sources.adaptive_bundle

\* Mutant of Inserted: an entry that exists is queued anew.
InsertedOrReplaced(e) == "queued"

\* INSERT OR IGNORE
Inserted(e) == IF status[e] = "absent" THEN "queued" ELSE status[e]

Enqueue(p) ==
    /\ pc[p] \in {"planner", "bundle", "pick"}
    /\ \E e \in my[p].todo :
           /\ status' = [status EXCEPT ![e] = Inserted(e)]
           /\ rows' = IF status[e] = "absent" THEN Append(rows, e) ELSE rows
           /\ source' = IF status[e] = "absent"
                        THEN [source EXCEPT ![e] = Rank(pc[p])] ELSE source
           /\ Local(p, [my[p] EXCEPT !.todo = @ \ {e}])
    /\ UNCHANGED <<track, promising, proposed, work, server, lock, pc, faults>>

EndRefill(p) ==
    /\ pc[p] = "pick" /\ my[p].todo = {} /\ my[p].mode = "refill"
    /\ Leave(p, {starts})
    /\ UNCHANGED <<queue, proposed, work, server, faults>>

\* The decision store of the campaign gets another program.
Propose ==
    /\ \E e \in Proposals \ proposed : proposed' = proposed \cup {e}
    /\ UNCHANGED <<queue, work, server, lock, pc, my, faults>>

-----------------------------------------------------------------------------
\* step: the entry to test, its build, its fit and the result.

Older(e, f) == \E i, j \in DOMAIN rows : i < j /\ rows[i] = e /\ rows[j] = f

\* rows(): by rank, then as they were created.
First(e) ==
    /\ e \in With("queued")
    /\ \A f \in With("queued") \ {e} :
           \/ source[e] < source[f]
           \/ source[e] = source[f] /\ Older(e, f)

Pick(p) ==
    /\ pc[p] = "pick" /\ my[p].todo = {} /\ my[p].mode = "step"
    /\ IF With("queued") = {}
       THEN Goto(p, "loop") /\ UNCHANGED <<status, my>>
       ELSE \E e \in Entries :
                /\ First(e)
                /\ status' = [status EXCEPT ![e] = "running"]
                /\ Local(p, [my[p] EXCEPT !.cur = e])
                /\ Goto(p, "build")
    /\ UNCHANGED <<rows, source, track, promising, proposed, work, server, lock, faults>>

\* queue.update of the entry at work.
Update(p, s, label) ==
    /\ status' = [status EXCEPT ![my[p].cur] = s]
    /\ Goto(p, label)
    /\ UNCHANGED <<rows, source, proposed, server, my>>

\* build_feature_candidate returns, rejects its definitions, or is retried.
Build(p) ==
    /\ pc[p] = "build"
    /\ Goto(p, "control")
    /\ UNCHANGED <<queue, proposed, work, server, lock, my, faults>>

BuildRejected(p) ==
    /\ pc[p] = "build"
    /\ Update(p, "rejected", "loop")
    /\ UNCHANGED <<track, promising, work, lock, faults>>

BuildRetried(p) ==
    /\ pc[p] = "build" /\ Fault
    /\ Update(p, "queued", "loop")
    /\ UNCHANGED <<track, promising, work, lock>>

\* Mutant of Reusable: what was accepted is not looked for.
ReusableNone(a) == FALSE

\* _execute_managed finds an accepted result of the attempt.
Reusable(a) == executed[a] > 0

\* The fits of a step: of the control, then of the entry.
Baseline(p) ==
    /\ pc[p] = "control"
    /\ Goto(p, IF Reusable(Control) THEN "candidate" ELSE "controlFit")
    /\ UNCHANGED <<queue, proposed, work, server, lock, my, faults>>

Candidate(p) ==
    /\ pc[p] = "candidate"
    /\ Goto(p, IF Reusable(my[p].cur) THEN "record" ELSE "candidateFit")
    /\ UNCHANGED <<queue, proposed, work, server, lock, my, faults>>

\* A fit is run under a fresh path and accepted.
Accept(p, a, label) ==
    /\ executed' = [executed EXCEPT ![a] = @ + 1]
    /\ Goto(p, label)
    /\ UNCHANGED <<queue, proposed, outcomes, server, lock, my, faults>>

BaselineFit(p) == pc[p] = "controlFit" /\ Accept(p, Control, "candidate")

Fit(p) == pc[p] = "candidateFit" /\ Accept(p, my[p].cur, "record")

\* The entry is queued again and the loop ends with the exception.
BaselineFails(p) ==
    /\ pc[p] \in {"control", "controlFit"} /\ Fault
    /\ status' = [status EXCEPT ![my[p].cur] = "queued"]
    /\ Leave(p, 0..StartLimitBurst)
    /\ UNCHANGED <<rows, source, track, promising, proposed, work, server>>

\* The fit itself fails: the test of the entry is over.
FitFails(p) ==
    /\ pc[p] = "candidateFit"
    /\ Update(p, "failed", "loop")
    /\ UNCHANGED <<track, promising, work, lock, faults>>

\* record_model_outcome
Record(p) ==
    /\ pc[p] = "record"
    /\ outcomes' = outcomes \cup {my[p].cur}
    /\ Goto(p, "screen")
    /\ UNCHANGED <<queue, proposed, executed, server, lock, my, faults>>

Screen(p) ==
    /\ pc[p] = "screen"
    /\ status' = [status EXCEPT ![my[p].cur] = "screened"]
    /\ track' = [track EXCEPT ![my[p].cur] = "pending"]
    /\ promising' \in {promising, promising \cup {my[p].cur}}
    /\ Local(p, [my[p] EXCEPT !.at = Control])
    /\ Goto(p, "search")
    /\ UNCHANGED <<rows, source, proposed, work, server, lock, faults>>

\* The except clause of step takes every RuntimeError, StorageBlocked among
\* them, and covers the last write of publish_tracking.
Condemned(p) ==
    /\ \/ pc[p] \in {"candidate", "candidateFit", "record", "screen"}
       \/ pc[p] = "settle" /\ my[p].mode = "step"
    /\ Fault
    /\ Update(p, "failed", "loop")
    /\ UNCHANGED <<track, promising, work, lock>>

-----------------------------------------------------------------------------
\* publish_tracking, called by step and by retry_tracking.

\* search_runs for the tag of the attempt.
Found(a) == runs[a]

\* More than one is an error, and the publication stays pending.
Search(p) ==
    /\ pc[p] = "search"
    /\ Goto(p, CASE Found(my[p].at) = 0 -> "create"
                 [] Found(my[p].at) = 1 -> "note"
                 [] Found(my[p].at) > 1 -> "settle")
    /\ UNCHANGED <<queue, proposed, work, server, lock, my, faults>>

CreateRun(p) ==
    /\ pc[p] = "create"
    /\ runs' = [runs EXCEPT ![my[p].at] = @ + 1]
    /\ Goto(p, "note")
    /\ UNCHANGED <<queue, proposed, work, finished, lock, my, faults>>

NoteRun(p) ==
    /\ pc[p] = "note"
    /\ Update(p, "screened", "finish")
    /\ UNCHANGED <<track, promising, work, lock, faults>>

\* The run is completed, unless it was; then the next attempt, or the end.
Finish(p) ==
    /\ pc[p] = "finish"
    /\ finished' = finished \cup {my[p].at}
    /\ IF my[p].at = Control
       THEN Local(p, [my[p] EXCEPT !.at = my[p].cur]) /\ Goto(p, "search")
       ELSE Local(p, [my[p] EXCEPT !.got = "published"]) /\ Goto(p, "settle")
    /\ UNCHANGED <<queue, proposed, work, runs, lock, faults>>

Failed == "pending"

\* The server or a write fails; a response may be what was lost.
PublishFails(p) ==
    /\ pc[p] \in {"search", "create", "note", "finish"} /\ Fault
    /\ \/ UNCHANGED server
       \/ pc[p] = "create" /\ runs' = [runs EXCEPT ![my[p].at] = @ + 1] /\ UNCHANGED finished
       \/ pc[p] = "finish" /\ finished' = finished \cup {my[p].at} /\ UNCHANGED runs
    /\ Local(p, [my[p] EXCEPT !.got = Failed])
    /\ Goto(p, "settle")
    /\ UNCHANGED <<queue, proposed, work, lock>>

Settle(p) ==
    /\ pc[p] = "settle"
    /\ status' = [status EXCEPT ![my[p].cur] = "screened"]
    /\ track' = [track EXCEPT ![my[p].cur] = my[p].got]
    /\ Local(p, [my[p] EXCEPT !.cur = Control, !.at = Control, !.got = "pending"])
    /\ Goto(p, IF my[p].mode = "retry" THEN "retry" ELSE "loop")
    /\ UNCHANGED <<rows, source, promising, proposed, work, server, lock, faults>>

-----------------------------------------------------------------------------
\* An exception nobody handles or a signal ends the loop; the kernel frees
\* its lock.
Ends(p) ==
    /\ pc[p] # "idle" /\ Fault
    /\ Leave(p, 0..StartLimitBurst)
    /\ UNCHANGED <<queue, proposed, work, server>>

Works(p) ==
    \/ Recover(p) \/ Retry(p)
    \/ WaitsDisk(p) \/ Candidates(p) \/ Planner(p) \/ Bundle(p) \/ Enqueue(p) \/ EndRefill(p)
    \/ Pick(p) \/ Build(p) \/ BuildRejected(p) \/ BuildRetried(p)
    \/ Baseline(p) \/ BaselineFit(p) \/ BaselineFails(p)
    \/ Candidate(p) \/ Fit(p) \/ FitFails(p) \/ Record(p) \/ Screen(p) \/ Condemned(p)
    \/ Search(p) \/ CreateRun(p) \/ NoteRun(p) \/ Finish(p) \/ PublishFails(p) \/ Settle(p)

ExplorationNext ==
    \/ Propose \/ StartFails \/ SwitchOn
    \/ \E p \in Procs :
           \/ Works(p) \/ StartLoop(p) \/ StartRefill(p) \/ Done(p) \/ Ends(p)
           \/ \E due \in SUBSET Due : Loop(p, due)

ExplorationSpec == ExplorationInit /\ [][ExplorationNext]_explorationVars

\* A loop goes on, and the time of every retry comes; while the unit is not
\* off systemd starts the service, which gets the lock or fails.
ExplorationFairSpec ==
    /\ ExplorationSpec
    /\ \A p \in Procs :
           /\ WF_explorationVars(Works(p))
           /\ WF_explorationVars(\E due \in SUBSET Due : Loop(p, due))
           /\ SF_explorationVars(Loop(p, Due))
    /\ WF_explorationVars(StartLoop(Service) \/ StartFails)

-----------------------------------------------------------------------------
(* The fit of an attempt is accepted once and its run is created once,     *)
(* those of the control all entries share too, however often loops end,    *)
(* entries are queued again and responses are lost (_execute_managed,      *)
(* publish_tracking, exploration_lock).                                    *)
NothingTwice == \A a \in Attempts : executed[a] <= 1 /\ runs[a] <= 1

(* A test that is over is not begun again, by no refill, planner or bundle *)
(* that asks for the same definitions and by no recovery (enqueue).        *)
SettledStays ==
    [][\A e \in Entries :
           /\ status[e] \in {"rejected", "failed"} => status'[e] = status[e]
           /\ status[e] = "screened" => status'[e] \in {"screened", "failed"}]_explorationVars

(* Every entry is tested in the end, whoever asked for it and whatever     *)
(* ended the loop meanwhile, or the unit is off: stopped, skipped or at    *)
(* the limit of its starts.  If the entry is screened, its outcome is      *)
(* linked, its run and that of the control are finished, and it says so,   *)
(* unless it is failed after all (run, recover, rows, retry_tracking, the  *)
(* Restart and StartLimit lines of the unit).                              *)
EntriesSettle ==
    \A e \in Entries :
        status[e] \in {"queued", "running"} ~>
            \/ status[e] \in {"rejected", "failed"}
            \/ /\ status[e] = "screened" /\ track[e] = "published"
               /\ e \in outcomes /\ {e, Control} \subseteq finished
            \/ starts = 0
=============================================================================
