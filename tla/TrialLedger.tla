----------------------------- MODULE TrialLedger -----------------------------
(***************************************************************************)
(* One optimizer trial, from Optuna's ask to Optuna's tell.                *)
(*                                                                         *)
(* Two stores describe the same trial and no transaction spans them: the   *)
(* Optuna journal of ProgramSearchController (research_search.py) and the  *)
(* SQLite ResearchLedger (research_store.py).  The controller of           *)
(* research_expansion.py walks a trial through both, one durable write at  *)
(* a time, and may die between any two of them:                            *)
(*                                                                         *)
(*   study.ask -> three user attributes -> reserve_attempt -> submit ->    *)
(*   mark_running -> accepted result.json -> complete_attempt ->           *)
(*   study.tell -> mark_told                                               *)
(*                                                                         *)
(* On restart it retires half-written asks, commits results accepted but   *)
(* not yet in the ledger, returns running rows to reserved, repeats the    *)
(* missing tells and bridges whole asks that never reached the ledger.     *)
(*                                                                         *)
(* An attempt is identified by its execution signature; inside a campaign  *)
(* data, protocol, code and environment are fixed, so the signature is the *)
(* recipe (research_controller.py:_execution_signature).                   *)
(***************************************************************************)
EXTENDS Integers, FiniteSets

CONSTANTS
    Programs,   \* registered programs, one Optuna study each
    Recipes,    \* the recipes a study can suggest
    Values,     \* the objective values a completed fit can have
    None,       \* no recipe, no owner, no result
    Failure,    \* the result of an attempt that did not complete
    Budget,     \* max_trials of every program
    MaxAsks,    \* bound: trials a study ever creates
    MaxCrashes, \* bound: controller deaths
    MaxBlocks   \* bound: StorageBlocked outcomes

ASSUME BoundsAssumption ==
    /\ IsFiniteSet(Programs)
    /\ Budget \in Nat
    /\ MaxAsks \in Nat
    /\ MaxCrashes \in Nat
    /\ MaxBlocks \in Nat

ASSUME ResultAssumption ==
    /\ None \notin Values \cup Recipes \cup {Failure}
    /\ Failure \notin Values

VARIABLES
    trials,    \* the Optuna journal: [Programs -> [1..MaxAsks -> Trial]]
    attempt,   \* the ledger's attempts table, by signature
    published, \* trials/<attempt>/result.json, accepted by the supervisor
    fit,       \* the controller's futures, by signature
    pc,        \* what the controller is doing
    crashes,   \* deaths so far
    blocks     \* StorageBlocked outcomes so far

vars == <<trials, attempt, published, fit, pc, crashes, blocks>>

Numbers == 1..MaxAsks
Owners == Programs \X Numbers
Results == Values \cup {Failure}

TrialStates == {"absent", "running", "complete", "fail", "pruned"}
Terminal == {"completed", "failed"}
FitStates == {"none", "busy", "accepted", "failed", "blocked"}

Trial == [state : TrialStates, recipe : Recipes \cup {None}, attrs : 0..3,
          value : Values \cup {None}]
Row == [status : {"absent", "reserved", "running"} \cup Terminal,
        owner : Owners \cup {None}, result : Results \cup {None}, told : BOOLEAN]

NoTrial == [state |-> "absent", recipe |-> None, attrs |-> 0, value |-> None]
NoRow == [status |-> "absent", owner |-> None, result |-> None, told |-> FALSE]

\* pc names the phase; ask and reserve also name the trial, told and submitted
\* the signature.
Phases == {"down", "recover", "tells", "loop", "dispatch"}
At(phase) == [at |-> phase, trial |-> None, recipe |-> None]
AtTrial(phase, p, n) == [at |-> phase, trial |-> <<p, n>>, recipe |-> None]
AtRecipe(phase, r) == [at |-> phase, trial |-> None, recipe |-> r]

TypeOK ==
    /\ trials \in [Programs -> [Numbers -> Trial]]
    /\ attempt \in [Recipes -> Row]
    /\ published \in [Recipes -> Results \cup {None}]
    /\ fit \in [Recipes -> FitStates]
    /\ pc \in [at : Phases \cup {"ask", "reserve", "submitted", "told"},
               trial : Owners \cup {None}, recipe : Recipes \cup {None}]
    /\ crashes \in 0..MaxCrashes
    /\ blocks \in 0..MaxBlocks

Init ==
    /\ trials = [p \in Programs |-> [n \in Numbers |-> NoTrial]]
    /\ attempt = [r \in Recipes |-> NoRow]
    /\ published = [r \in Recipes |-> None]
    /\ fit = [r \in Recipes |-> "none"]
    /\ pc = At("down")
    /\ crashes = 0
    /\ blocks = 0

-----------------------------------------------------------------------------
(***************************************************************************)
(* The Optuna side.                                                        *)
(***************************************************************************)

\* Mutant of Unpruned: trials still running are not counted.
UnprunedEnded(p) == {n \in Numbers : trials[p][n].state \in {"complete", "fail"}}

\* Asks of p that consume its budget: every trial that is not PRUNED.
Unpruned(p) == {n \in Numbers : trials[p][n].state \notin {"absent", "pruned"}}

Running(p, n) == trials[p][n].state = "running"

\* recipe, recipe_hash and program_id are all in the journal.
Whole(p, n) == trials[p][n].attrs = 3

\* The study after every half-written ask was told PRUNED.
RetireIncomplete ==
    [p \in Programs |-> [n \in Numbers |->
        IF Running(p, n) /\ ~Whole(p, n)
        THEN [trials[p][n] EXCEPT !.state = "pruned"]
        ELSE trials[p][n]]]

\* study.tell, of an outcome or of a failure.
Told(p, n, result) ==
    [trials EXCEPT ![p][n] =
        [trials[p][n] EXCEPT
            !.state = IF result = Failure THEN "fail" ELSE "complete",
            !.value = IF result = Failure THEN None ELSE result]]

\* study.ask: the journal now holds a RUNNING trial without attributes.
BeginAsk(p) ==
    /\ pc.at = "dispatch"
    /\ Cardinality(Unpruned(p)) < Budget
    /\ \A r \in Recipes : attempt[r].status = "reserved" => attempt[r].owner[1] # p
    /\ \E n \in Numbers :
         /\ trials[p][n].state = "absent"
         /\ \A m \in 1..(n - 1) : trials[p][m].state # "absent"
         /\ trials' = [trials EXCEPT ![p][n] = [NoTrial EXCEPT !.state = "running"]]
         /\ pc' = AtTrial("ask", p, n)
    /\ UNCHANGED <<attempt, published, fit, crashes, blocks>>

Asking(p, n) == pc = AtTrial("ask", p, n)

\* The suggested parameters are not a recipe: FAIL, which keeps its budget.
RejectSuggestion(p, n) ==
    /\ Asking(p, n)
    /\ trials[p][n].attrs = 0
    /\ trials' = [trials EXCEPT ![p][n].state = "fail"]
    /\ pc' = At("dispatch")
    /\ UNCHANGED <<attempt, published, fit, crashes, blocks>>

\* One set_user_attr; the first one fixes the recipe.
SetAttribute(p, n) ==
    /\ Asking(p, n)
    /\ ~Whole(p, n)
    /\ \E r \in Recipes :
         /\ trials[p][n].attrs > 0 => r = trials[p][n].recipe
         /\ trials' = [trials EXCEPT ![p][n] =
                        [trials[p][n] EXCEPT !.recipe = r, !.attrs = @ + 1]]
    /\ UNCHANGED <<attempt, published, fit, pc, crashes, blocks>>

SeenElsewhere(p, n) ==
    \E o \in Owners \ {<<p, n>>} :
        Whole(o[1], o[2]) /\ trials[o[1]][o[2]].recipe = trials[p][n].recipe

\* A recipe some study already holds is told PRUNED and asked again; a new
\* one is returned to the caller.
EndAsk(p, n) ==
    /\ Asking(p, n)
    /\ Whole(p, n)
    /\ IF SeenElsewhere(p, n)
       THEN /\ trials' = [trials EXCEPT ![p][n].state = "pruned"]
            /\ pc' = At("dispatch")
       ELSE /\ pc' = AtTrial("reserve", p, n)
            /\ UNCHANGED trials
    /\ UNCHANGED <<attempt, published, fit, crashes, blocks>>

\* An append of the ask raises: ask retires what it left and the error ends
\* the campaign.
AskFails(p, n) ==
    /\ Asking(p, n)
    /\ blocks < MaxBlocks
    /\ blocks' = blocks + 1
    /\ trials' = RetireIncomplete
    /\ pc' = At("down")
    /\ fit' = [r \in Recipes |-> "none"]
    /\ UNCHANGED <<attempt, published, crashes>>

-----------------------------------------------------------------------------
(***************************************************************************)
(* The ledger side.                                                        *)
(***************************************************************************)

\* Mutant of Reserved: INSERT OR REPLACE.
ReservedAnew(table, r, owner) ==
    [table EXCEPT ![r] = [NoRow EXCEPT !.status = "reserved", !.owner = owner]]

\* INSERT OR IGNORE: a signature keeps its first owner.
Reserved(table, r, owner) ==
    IF table[r].status = "absent"
    THEN [table EXCEPT ![r] = [NoRow EXCEPT !.status = "reserved", !.owner = owner]]
    ELSE table

\* complete_attempt: a terminal row keeps its result.
Completed(r, result) ==
    IF attempt[r].status \in Terminal
    THEN attempt
    ELSE [attempt EXCEPT ![r] =
            [@ EXCEPT !.status = IF result = Failure THEN "failed" ELSE "completed",
                      !.result = result]]

\* defer_infrastructure: the allocation waits, nothing scientific happened.
Deferred(r) == [attempt EXCEPT ![r].status = "reserved"]

\* The new suggestion gets its row; when resources admit it its fit starts
\* before the row says so.
Reserve(p, n) ==
    /\ pc = AtTrial("reserve", p, n)
    /\ LET r == trials[p][n].recipe IN
         /\ attempt' = Reserved(attempt, r, <<p, n>>)
         /\ \/ pc' = At("dispatch") /\ UNCHANGED fit
            \/ pc' = AtRecipe("submitted", r) /\ fit' = [fit EXCEPT ![r] = "busy"]
    /\ UNCHANGED <<trials, published, crashes, blocks>>

MarkRunning(r) ==
    /\ pc = AtRecipe("submitted", r)
    /\ attempt' = [attempt EXCEPT ![r].status = IF @ = "reserved" THEN "running" ELSE @]
    /\ pc' = At("dispatch")
    /\ UNCHANGED <<trials, published, fit, crashes, blocks>>

\* A pending row: commit the result it already has, else fit it again.
Resume(r) ==
    /\ pc.at = "dispatch"
    /\ attempt[r].status = "reserved"
    /\ IF published[r] # None
       THEN /\ attempt' = Completed(r, published[r])
            /\ pc' = At("tells")
            /\ UNCHANGED fit
       ELSE /\ fit' = [fit EXCEPT ![r] = "busy"]
            /\ pc' = AtRecipe("submitted", r)
            /\ UNCHANGED attempt
    /\ UNCHANGED <<trials, published, crashes, blocks>>

\* Its fold preparation is rejected: the unstarted allocation fails.
FailFold(r) ==
    /\ pc.at = "dispatch"
    /\ attempt[r].status = "reserved"
    /\ published[r] = None
    /\ attempt' = Completed(r, Failure)
    /\ pc' = At("tells")
    /\ UNCHANGED <<trials, published, fit, crashes, blocks>>

\* The supervised fit ends, accepted or not.  A publication can survive a
\* failure reported after it; a storage failure is not an outcome.
FitEnds(r) ==
    /\ fit[r] = "busy"
    /\ \E result \in Results \cup {None}, end \in {"accepted", "failed", "blocked"} :
         /\ end = "accepted" => result # None
         /\ end = "blocked" => blocks < MaxBlocks
         /\ published' = [published EXCEPT ![r] = result]
         /\ fit' = [fit EXCEPT ![r] = end]
         /\ blocks' = IF end = "blocked" THEN blocks + 1 ELSE blocks
    /\ UNCHANGED <<trials, attempt, pc, crashes>>

\* Mutant of Outcome: the future's failure is believed first.
OutcomeOfFuture(r) ==
    IF published[r] # None /\ fit[r] = "accepted" THEN published[r] ELSE Failure

\* What the controller records for a finished future: an accepted publication
\* wins over what the future says.
Outcome(r) == IF published[r] # None THEN published[r] ELSE Failure

\* A finished future leaves the controller with a terminal row, or with a
\* deferred one when the fit or the ledger's write met full storage.
Complete(r) ==
    /\ pc.at = "loop"
    /\ fit[r] \in {"accepted", "failed", "blocked"}
    /\ fit' = [fit EXCEPT ![r] = "none"]
    /\ IF published[r] = None /\ fit[r] = "blocked"
       THEN attempt' = Deferred(r) /\ UNCHANGED <<pc, blocks>>
       ELSE \/ /\ attempt' = Completed(r, Outcome(r))
               /\ pc' = At("tells")
               /\ UNCHANGED blocks
            \/ /\ blocks < MaxBlocks
               /\ blocks' = blocks + 1
               /\ attempt' = Deferred(r)
               /\ UNCHANGED pc
    /\ UNCHANGED <<trials, published, crashes>>

-----------------------------------------------------------------------------
(***************************************************************************)
(* Recovery, tells and the controller's loop.                              *)
(***************************************************************************)

\* ProgramSearchController.__init__ retires half-written asks.
Start ==
    /\ pc.at = "down"
    /\ trials' = RetireIncomplete
    /\ pc' = At("recover")
    /\ UNCHANGED <<attempt, published, fit, crashes, blocks>>

\* _recover_published_attempt on startup, or its deferral.
RecoverRow(r) ==
    /\ pc.at = "recover"
    /\ attempt[r].status \in {"reserved", "running"}
    /\ published[r] # None
    /\ \/ attempt' = Completed(r, published[r]) /\ UNCHANGED blocks
       \/ /\ blocks < MaxBlocks
          /\ blocks' = blocks + 1
          /\ attempt' = Deferred(r)
    /\ UNCHANGED <<trials, published, fit, pc, crashes>>

\* Mutant of RecoverRunning: failed rows are retried as well.
RecoverFailedToo ==
    /\ pc.at = "recover"
    /\ \A r \in Recipes : attempt[r].status = "running" => published[r] = None
    /\ attempt' = [r \in Recipes |->
                     IF attempt[r].status \in {"running", "failed"}
                     THEN [attempt[r] EXCEPT !.status = "reserved", !.told = FALSE]
                     ELSE attempt[r]]
    /\ pc' = At("tells")
    /\ UNCHANGED <<trials, published, fit, crashes, blocks>>

\* recover_running, once no running row still has a result to commit; a
\* reserved one in backoff waits for the pending loop.
RecoverRunning ==
    /\ pc.at = "recover"
    /\ \A r \in Recipes : attempt[r].status = "running" => published[r] = None
    /\ attempt' = [r \in Recipes |->
                     IF attempt[r].status = "running"
                     THEN [attempt[r] EXCEPT !.status = "reserved"] ELSE attempt[r]]
    /\ pc' = At("tells")
    /\ UNCHANGED <<trials, published, fit, crashes, blocks>>

\* Mutant of PendingTells: failures are not owed to the optimizer.
PendingCompletions == {r \in Recipes : attempt[r].status = "completed" /\ ~attempt[r].told}

PendingTells == {r \in Recipes : attempt[r].status \in Terminal /\ ~attempt[r].told}

\* _reconcile_tells: Optuna first, and only a RUNNING trial; then the ledger.
Tell(r) ==
    /\ pc.at = "tells"
    /\ r \in PendingTells
    /\ LET p == attempt[r].owner[1]
           n == attempt[r].owner[2]
       IN trials' = IF Running(p, n) THEN Told(p, n, attempt[r].result) ELSE trials
    /\ pc' = AtRecipe("told", r)
    /\ UNCHANGED <<attempt, published, fit, crashes, blocks>>

MarkTold(r) ==
    /\ pc = AtRecipe("told", r)
    /\ attempt' = [attempt EXCEPT ![r].told = TRUE]
    /\ pc' = At("tells")
    /\ UNCHANGED <<trials, published, fit, crashes, blocks>>

TellsDone ==
    /\ pc.at = "tells"
    /\ PendingTells = {}
    /\ pc' = At("loop")
    /\ UNCHANGED <<trials, attempt, published, fit, crashes, blocks>>

\* An exception leaves the remaining tells for a later pass.
TellsBlocked ==
    /\ pc.at \in {"tells", "told"}
    /\ blocks < MaxBlocks
    /\ blocks' = blocks + 1
    /\ pc' = At("loop")
    /\ UNCHANGED <<trials, attempt, published, fit, crashes>>

\* Before it stops, an idle controller repeats the missing tells.
Drain ==
    /\ pc.at = "loop"
    /\ \A r \in Recipes : fit[r] = "none"
    /\ PendingTells # {}
    /\ pc' = At("tells")
    /\ UNCHANGED <<trials, attempt, published, fit, crashes, blocks>>

Known == {attempt[r].owner : r \in {q \in Recipes : attempt[q].status # "absent"}}
Orphans == {o \in Owners : /\ Running(o[1], o[2])
                           /\ Whole(o[1], o[2])
                           /\ o \notin Known}

\* _recover_orphan_asks, one reserve_attempt; the insert is ignored when
\* another trial owns the signature.
RecoverOrphan(p, n) ==
    /\ pc.at = "loop"
    /\ <<p, n>> \in Orphans
    /\ attempt' = Reserved(attempt, trials[p][n].recipe, <<p, n>>)
    /\ UNCHANGED <<trials, published, fit, pc, crashes, blocks>>

\* The pass ends when no orphan is left that an insert could bridge.
OrphansDone ==
    /\ pc.at = "loop"
    /\ \A o \in Orphans : attempt[trials[o[1]][o[2]].recipe].status # "absent"
    /\ pc' = At("dispatch")
    /\ UNCHANGED <<trials, attempt, published, fit, crashes, blocks>>

EndIteration ==
    /\ pc.at = "dispatch"
    /\ pc' = At("loop")
    /\ UNCHANGED <<trials, attempt, published, fit, crashes, blocks>>

\* The process dies; the supervisor's futures die with it.
Crash ==
    /\ pc.at # "down"
    /\ crashes < MaxCrashes
    /\ crashes' = crashes + 1
    /\ pc' = At("down")
    /\ fit' = [r \in Recipes |-> "none"]
    /\ UNCHANGED <<trials, attempt, published, blocks>>

-----------------------------------------------------------------------------
OptunaStep ==
    \/ \E p \in Programs : BeginAsk(p)
    \/ \E p \in Programs, n \in Numbers :
         \/ RejectSuggestion(p, n) \/ SetAttribute(p, n)
         \/ EndAsk(p, n) \/ AskFails(p, n)

AttemptStep ==
    \/ \E p \in Programs, n \in Numbers : Reserve(p, n)
    \/ \E r \in Recipes :
         \/ MarkRunning(r) \/ Resume(r) \/ FailFold(r)
         \/ FitEnds(r) \/ Complete(r)

RecoveryStep ==
    \/ Start \/ RecoverRunning \/ TellsDone \/ TellsBlocked
    \/ Drain \/ OrphansDone \/ EndIteration \/ Crash
    \/ \E r \in Recipes : RecoverRow(r) \/ Tell(r) \/ MarkTold(r)
    \/ \E p \in Programs, n \in Numbers : RecoverOrphan(p, n)

Next == OptunaStep \/ AttemptStep \/ RecoveryStep

Spec == Init /\ [][Next]_vars

(***************************************************************************)
(* The controller keeps taking steps while its process lives.  Each pass   *)
(* of the loop looks at every finished future, every orphan and every      *)
(* pending row, so an action that is enabled again and again is taken: its *)
(* steps across passes get strong fairness.  Fits end because their        *)
(* deadline is enforced.  Asks, deaths and StorageBlocked are not promised.*)
(***************************************************************************)
Fairness ==
    /\ WF_vars(Start) /\ WF_vars(RecoverRunning) /\ WF_vars(TellsDone)
    /\ WF_vars(OrphansDone) /\ WF_vars(EndIteration) /\ SF_vars(Drain)
    /\ \A r \in Recipes :
         /\ WF_vars(RecoverRow(r)) /\ WF_vars(Tell(r)) /\ WF_vars(MarkTold(r))
         /\ WF_vars(MarkRunning(r)) /\ WF_vars(FitEnds(r))
         /\ SF_vars(Complete(r)) /\ SF_vars(Resume(r))
    /\ \A p \in Programs, n \in Numbers :
         /\ WF_vars(SetAttribute(p, n)) /\ WF_vars(EndAsk(p, n))
         /\ WF_vars(Reserve(p, n)) /\ SF_vars(RecoverOrphan(p, n))

FairSpec == Spec /\ Fairness

-----------------------------------------------------------------------------
(***************************************************************************)
(* Properties.                                                             *)
(***************************************************************************)

\* A program never holds more budget-consuming trials than max_trials, however
\* many asks were interrupted, retired, rejected or repeated: retiring a
\* half-written ask gives its slot back exactly once.
BudgetHeld == \A p \in Programs : Cardinality(Unpruned(p)) <= Budget

\* Optuna and the ledger never disagree about an outcome: a COMPLETE trial has
\* a completed row of its own with the same value, a whole trial that FAILed
\* has a failed one, and a row marked told has a trial that was told.
OutcomesAgree ==
    /\ \A p \in Programs, n \in Numbers :
         Whole(p, n) /\ trials[p][n].state \in {"complete", "fail"} =>
            LET row == attempt[trials[p][n].recipe] IN
              /\ row.owner = <<p, n>>
              /\ row.status = IF trials[p][n].state = "fail" THEN "failed" ELSE "completed"
              /\ trials[p][n].state = "complete" => row.result = trials[p][n].value
    /\ \A r \in Recipes :
         attempt[r].told => LET o == attempt[r].owner
                            IN trials[o[1]][o[2]].state \in {"complete", "fail"}

\* Whatever the future says and wherever the controller dies, a result the
\* supervisor accepted is the result the ledger ends with.
AcceptedResultKept ==
    \A r \in Recipes :
        published[r] # None /\ attempt[r].status \in Terminal => attempt[r].result = published[r]

\* A suggestion that reaches reserve_attempt has no row yet: the duplicate test
\* of the ask, over every study, is enough to keep one recipe from being
\* allocated to two trials, so resolve_reused_attempt has nothing to resolve.
SuggestionIsNew ==
    \A p \in Programs, n \in Numbers :
        pc = AtTrial("reserve", p, n) => attempt[trials[p][n].recipe].status = "absent"

\* A fit starts only for an attempt with neither an accepted result nor another
\* fit in flight: no restart, deferral or resumption trains a recipe twice at
\* once or again after its result was accepted.
FitsStartOnce ==
    [][\A r \in Recipes :
         fit[r] # "busy" /\ fit'[r] = "busy" => fit[r] = "none" /\ published[r] = None]_vars

\* No recovery path reopens an outcome: terminal rows keep their status, owner
\* and result, told stays told, and a trial Optuna finished is never retold.
OutcomesAreFinal ==
    [][/\ \A r \in Recipes :
            /\ attempt[r].status \in Terminal =>
                 attempt'[r] = [attempt[r] EXCEPT !.told = attempt'[r].told]
            /\ attempt[r].told => attempt'[r].told
       /\ \A p \in Programs, n \in Numbers :
            trials[p][n].state \in {"complete", "fail", "pruned"} =>
                trials'[p][n] = trials[p][n]]_vars

\* Every allocation ends in a tell, and every whole ask whose recipe has no row
\* gets one, across crashes, deferrals and blocked tells.
AllocationsAreTold ==
    /\ \A r \in Recipes : (attempt[r].status # "absent") ~> attempt[r].told
    /\ \A o \in Owners, r \in Recipes :
         (o \in Orphans /\ trials[o[1]][o[2]].recipe = r) ~> (attempt[r].status # "absent")
=============================================================================
