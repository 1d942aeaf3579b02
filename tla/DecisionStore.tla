---------------------------- MODULE DecisionStore ----------------------------
(***************************************************************************)
(* How a planner's decision becomes trial budgets (apply_decision of       *)
(* research_expansion.py, DecisionStore, ProgramSearchController).         *)
(*                                                                         *)
(* A decision is recorded, then applied by a chain of durable writes, each *)
(* guarded by a receipt, and is replayed from the first write after any    *)
(* failure: at once when its saved response is recovered, else when the    *)
(* campaign next starts.  Nothing is asked of a program before the         *)
(* decision that allocated it is applied.                                  *)
(*                                                                         *)
(* A program bears the number of the decision that proposed it, for the    *)
(* evidence of a decision is part of the program's identity; program 0 is  *)
(* the bootstrap.  Feature definitions, dataset and betting requests, the  *)
(* recipe checks and the lane refill rule are left out.                    *)
(***************************************************************************)
EXTENDS Naturals, FiniteSets

CONSTANTS
    MaxDecisions,  \* bound: decisions the planner makes
    Signatures,    \* what two proposals of one experiment have in common
    None,
    Answers,       \* the decisions a planner may return
    MaxFaults,     \* bound: writes refused for storage
    MaxCrashes     \* bound: deaths of the campaign

Decisions == 1..MaxDecisions
Programs == 0..MaxDecisions

\* What a proposal allocates, and what an extension adds.
Base == 1
Extra == 1

ASSUME BoundAssumption == MaxDecisions \in Nat /\ MaxFaults \in Nat /\ MaxCrashes \in Nat

ASSUME AnswerAssumption ==
    /\ None \notin Signatures
    /\ None \notin Answers
    /\ \A a \in Answers :
        /\ a \in [signature : Signatures \cup {None},
                  extends : SUBSET Programs, retires : SUBSET Programs]
        /\ a.extends \cap a.retires = {}

VARIABLES
    answer,       \* the saved response of each decision, or None
    status,       \* decisions.sqlite: none, recorded, applied
    disciplined,  \* decisions with the experiment-discipline receipt
    chartered,    \* decisions with the receipt of their program
    grants,       \* the budget frozen in each extension receipt, 0 without one
    budget,       \* the search's max_trials of each program, 0 when unregistered
    retiredFile,  \* retired-programs.json
    retired,      \* the controller's copy of it
    asked,        \* trials asked of each program
    running,      \* programs with a trial in the ledger that is not terminal
    apply,        \* apply_decision at work: decision, next write, extensions left
    pc,           \* the campaign: down, replaying, loop; refused by a replay
    faults, crashes

store == <<answer, status, disciplined, chartered, grants>>
search == <<budget, retiredFile, retired>>
trials == <<asked, running>>
bounds == <<faults, crashes>>
vars == <<store, search, trials, apply, pc, bounds>>

Steps == {"admit", "discipline", "register", "charter", "grant", "raise", "retire", "complete"}
Idle == [d |-> 0, at |-> "admit", left |-> {}]

TypeOK ==
    /\ answer \in [Decisions -> Answers \cup {None}]
    /\ status \in [Decisions -> {"none", "recorded", "applied"}]
    /\ disciplined \subseteq Decisions
    /\ chartered \subseteq Decisions
    /\ grants \in [Decisions -> [Programs -> Nat]]
    /\ budget \in [Programs -> Nat]
    /\ retiredFile \subseteq Programs
    /\ retired \subseteq Programs
    /\ asked \in [Programs -> Nat]
    /\ running \subseteq Programs
    /\ apply \in [d : 0..MaxDecisions, at : Steps, left : SUBSET Programs]
    /\ apply.d # 0 => answer[apply.d] # None
    /\ apply.at \in {"grant", "raise"} => apply.left # {}
    /\ pc \in {"down", "replaying", "loop", "refused"}
    /\ faults \in 0..MaxFaults
    /\ crashes \in 0..MaxCrashes

Init ==
    /\ answer = [d \in Decisions |-> None]
    /\ status = [d \in Decisions |-> "none"]
    /\ disciplined = {}
    /\ chartered = {}
    /\ grants = [d \in Decisions |-> [p \in Programs |-> 0]]
    /\ budget = [p \in Programs |-> IF p = 0 THEN Base ELSE 0]
    /\ retiredFile = {}
    /\ retired = {}
    /\ asked = [p \in Programs |-> 0]
    /\ running = {}
    /\ apply = Idle
    /\ pc = "loop"
    /\ faults = 0
    /\ crashes = 0

-----------------------------------------------------------------------------
Registered == {p \in Programs : budget[p] > 0}

SignatureOf(p) == IF p = 0 THEN None ELSE answer[p].signature

\* lifecycle_snapshot: a registered program still owes trials.
Pending(p) ==
    /\ p \in Registered
    /\ p \in running \/ (p \notin retired /\ asked[p] < budget[p])

\* Another program with this decision's signature owes trials.
Twin(d) == {p \in Programs \ {d} : Pending(p) /\ SignatureOf(p) = answer[d].signature}

\* The recorded decisions that were not completed, oldest first.
Unapplied == {d \in Decisions : status[d] = "recorded"}

\* apply_decision's checks and admit_decision.
Admissible(d) ==
    /\ answer[d].extends \cup answer[d].retires \subseteq Registered
    /\ answer[d].signature # None => Twin(d) = {}

Begin(d) == [d |-> d, at |-> "admit", left |-> answer[d].extends]

\* A step of apply_decision is about to be made.
At(step) == apply.d # 0 /\ apply.at = step /\ pc \in {"loop", "replaying"}

Goto(step) == apply' = [apply EXCEPT !.at = step]

AfterPrograms == IF apply.left = {} THEN "retire" ELSE "grant"

\* The extension apply_decision is working on.
Extended == CHOOSE p \in apply.left : \A q \in apply.left : p <= q

-----------------------------------------------------------------------------
\* The planner's answer: the response is saved, then applied.
Receive(d, a) ==
    /\ pc = "loop" /\ apply = Idle
    /\ answer[d] = None
    /\ \A e \in Decisions : e < d => answer[e] # None
    /\ answer' = [answer EXCEPT ![d] = a]
    /\ apply' = [d |-> d, at |-> "admit", left |-> a.extends]
    /\ UNCHANGED <<status, disciplined, chartered, grants, search, trials, pc, bounds>>

\* The saved response of the latest decision is taken up again.
Recover(d) ==
    /\ pc = "loop" /\ apply = Idle
    /\ answer[d] # None
    /\ \A e \in Decisions : e > d => answer[e] = None
    /\ apply' = Begin(d)
    /\ UNCHANGED <<store, search, trials, pc, bounds>>

\* The decision passes every check and is recorded.
Admit ==
    /\ At("admit")
    /\ Admissible(apply.d)
    /\ status' = [status EXCEPT ![apply.d] = IF @ = "none" THEN "recorded" ELSE @]
    /\ Goto("discipline")
    /\ UNCHANGED <<answer, disciplined, chartered, grants, search, trials, pc, bounds>>

\* The decision is refused: in the loop, also when too many programs wait
\* for trials, it has failed; at startup the exception ends the campaign.
Reject ==
    /\ At("admit")
    /\ Admissible(apply.d) => pc = "loop"
    /\ apply' = Idle
    /\ pc' = IF pc = "replaying" THEN "refused" ELSE pc
    /\ UNCHANGED <<store, search, trials, bounds>>

\* The receipt of the discipline audit.
Discipline ==
    /\ At("discipline")
    /\ disciplined' = disciplined \cup {apply.d}
    /\ Goto(IF answer[apply.d].signature # None THEN "register" ELSE AfterPrograms)
    /\ UNCHANGED <<answer, status, chartered, grants, search, trials, pc, bounds>>

\* ProgramSearchController.register: a program that exists keeps its budget.
\* Its line in the index registers it; the study that belongs to it is opened,
\* or created, by whoever reads that line.
Register ==
    /\ At("register")
    /\ budget' = [budget EXCEPT ![apply.d] = IF @ = 0 THEN Base ELSE @]
    /\ Goto("charter")
    /\ UNCHANGED <<store, retiredFile, retired, trials, pc, bounds>>

\* The receipt of the new program's allocation.
Charter ==
    /\ At("charter")
    /\ chartered' = chartered \cup {apply.d}
    /\ Goto(AfterPrograms)
    /\ UNCHANGED <<answer, status, disciplined, grants, search, trials, pc, bounds>>

\* Mutant of Frozen: the budget is computed again on every replay.
FrozenAnew(d, p) == budget[p] + Extra

\* The absolute budget of an extension, computed once and then read back.
Frozen(d, p) == IF grants[d][p] = 0 THEN budget[p] + Extra ELSE grants[d][p]

\* The receipt that freezes the budget of one extension.
Grant ==
    /\ At("grant")
    /\ grants' = [grants EXCEPT ![apply.d][Extended] = Frozen(apply.d, Extended)]
    /\ Goto("raise")
    /\ UNCHANGED <<answer, status, disciplined, chartered, search, trials, pc, bounds>>

\* ProgramSearchController.set_budget, with the frozen budget.
Raise ==
    /\ At("raise")
    /\ budget' = [budget EXCEPT ![Extended] = grants[apply.d][Extended]]
    /\ apply' = [apply EXCEPT !.left = @ \ {Extended},
                              !.at = IF apply.left = {Extended} THEN "retire" ELSE "grant"]
    /\ UNCHANGED <<store, retiredFile, retired, trials, pc, bounds>>

\* Mutant of Retire: the set is not written to its file.
RetireInMemory ==
    /\ At("retire")
    /\ retired' = retired \cup answer[apply.d].retires
    /\ Goto("complete")
    /\ UNCHANGED <<store, budget, retiredFile, trials, pc, bounds>>

\* The retirements join the set in memory, which is then written.
Retire ==
    /\ At("retire")
    /\ retired' = retired \cup answer[apply.d].retires
    /\ retiredFile' = retired'
    /\ Goto("complete")
    /\ UNCHANGED <<store, budget, trials, pc, bounds>>

\* DecisionStore.complete.
Complete ==
    /\ At("complete")
    /\ status' = [status EXCEPT ![apply.d] = "applied"]
    /\ apply' = Idle
    /\ UNCHANGED <<answer, disciplined, chartered, grants, search, trials, pc, bounds>>

\* A write is refused for storage.  In the loop the decision has failed and
\* stays as far as it came; at startup the exception ends the campaign.
Fault ==
    /\ apply # Idle
    /\ faults < MaxFaults
    /\ faults' = faults + 1
    /\ retired' = IF apply.at = "retire" THEN retired \cup answer[apply.d].retires ELSE retired
    /\ apply' = Idle
    /\ pc' = IF pc = "replaying" THEN "down" ELSE pc
    /\ UNCHANGED <<store, budget, retiredFile, trials, crashes>>

-----------------------------------------------------------------------------
\* DecisionStore.authorized_budgets: applied decisions only, the latest
\* extension wins.
Extenders(p) == {d \in Decisions : status[d] = "applied" /\ grants[d][p] # 0}

Authorized(p) ==
    IF Extenders(p) # {}
    THEN grants[CHOOSE d \in Extenders(p) : \A e \in Extenders(p) : e <= d][p]
    ELSE IF p = 0 \/ (p \in chartered /\ status[p] = "applied") THEN Base ELSE 0

\* A trial of a program with remaining capacity.
Ask(p) ==
    /\ pc = "loop" /\ apply = Idle
    /\ p \in Registered \ (retired \cup running)
    /\ asked[p] < budget[p]
    /\ asked[p] < Authorized(p)
    /\ asked' = [asked EXCEPT ![p] = @ + 1]
    /\ running' = running \cup {p}
    /\ UNCHANGED <<store, search, apply, pc, bounds>>

\* Its attempt becomes terminal.
Finish(p) ==
    /\ pc = "loop" /\ apply = Idle
    /\ p \in running
    /\ running' = running \ {p}
    /\ UNCHANGED <<store, search, asked, apply, pc, bounds>>

Crash ==
    /\ pc \in {"loop", "replaying"}
    /\ crashes < MaxCrashes
    /\ crashes' = crashes + 1
    /\ pc' = "down"
    /\ apply' = Idle
    /\ UNCHANGED <<store, search, trials, faults>>

\* Mutant of Start: the retired programs are not read back.
StartUnread ==
    /\ pc \in {"down", "refused"}
    /\ retired' = {}
    /\ pc' = "replaying"
    /\ UNCHANGED <<store, budget, retiredFile, trials, apply, bounds>>

\* The campaign is started again, after a death or a refusal.
Start ==
    /\ pc \in {"down", "refused"}
    /\ retired' = retiredFile
    /\ pc' = "replaying"
    /\ UNCHANGED <<store, budget, retiredFile, trials, apply, bounds>>

\* Every unapplied decision is replayed in order before the loop is entered.
Replay ==
    /\ pc = "replaying" /\ apply = Idle
    /\ IF Unapplied = {}
       THEN pc' = "loop" /\ UNCHANGED apply
       ELSE /\ apply' = Begin(CHOOSE d \in Unapplied : \A e \in Unapplied : d <= e)
            /\ UNCHANGED pc
    /\ UNCHANGED <<store, search, trials, bounds>>

Next ==
    \/ \E d \in Decisions : Recover(d) \/ \E a \in Answers : Receive(d, a)
    \/ Admit \/ Reject \/ Discipline \/ Register \/ Charter
    \/ Grant \/ Raise \/ Retire \/ Complete \/ Fault
    \/ \E p \in Programs : Ask(p) \/ Finish(p)
    \/ Crash \/ Start \/ Replay

Spec == Init /\ [][Next]_vars

-----------------------------------------------------------------------------
(* What the chain of writes promises.                                      *)

\* A decision that counts as applied left nothing undone: its receipts, its
\* program, its frozen budgets and its retirements are all durable, whatever
\* failed or died on the way.
AppliedIsWhole ==
    \A d \in Decisions : status[d] = "applied" =>
        /\ d \in disciplined
        /\ answer[d].signature # None => d \in chartered /\ d \in Registered
        /\ \A p \in answer[d].extends : grants[d][p] # 0
        /\ answer[d].retires \subseteq retiredFile

\* Replays never grant an extension twice: the trials asked of a program stay
\* within its base and one extra for each decision that extends it.
SpentWithinGrants ==
    \A p \in Programs :
        asked[p] <= Base + Extra * Cardinality({d \in Decisions : grants[d][p] # 0})

\* A program an applied decision retired is never asked again, in this
\* campaign or after a restart.
RetiredStops ==
    [][\A p \in Programs : asked'[p] # asked[p] =>
        \A d \in Decisions : status[d] = "applied" => p \notin answer[d].retires]_vars
=============================================================================
