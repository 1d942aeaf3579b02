--------------------------- MODULE ResourceAdmission ---------------------------
(***************************************************************************)
(* Which job the expansion controller starts next (ResourceAdmission and   *)
(* fair_program_order of research_scheduler.py, their use in               *)
(* run_expansion_campaign of research_expansion.py).                       *)
(*                                                                         *)
(* An iteration of the loop observes the host, takes finished jobs back,   *)
(* resumes allocated rows and then asks for new trials, until the          *)
(* admission has no candidate left.  A program waits by its first estimate *)
(* and is admitted again by the estimate of the recipe it was given; when  *)
(* that one does not fit, the row stays pending.                           *)
(*                                                                         *)
(* One memory headroom stands for the host's and the cgroup's, which are   *)
(* compared and charged alike.  CPU threads, disk bytes and the cold       *)
(* quota are further limits of the same form and are left out, as is       *)
(* max_jobs, which exceeds the other limits together.  Preparations pass   *)
(* the same limits without waiting in line and are left out.  Every        *)
(* program has capacity and its inputs are ready: a lane all of whose      *)
(* programs have spent theirs is refilled by the planner.                  *)
(***************************************************************************)
EXTENDS Integers, FiniteSets, FiniteSetsExt, Functions

CONSTANTS
    MaxProgram,    \* programs are numbered in the order of their registration
    NoArtifact,
    LaneOf,        \* the lane of each program, "benter" or "experimental"
    Expensive,     \* programs of a gaussian_probit or graph family
    ArtifactOf,    \* the shared matrix each program maps, or NoArtifact
    Typical,       \* the estimate of each program's own recipe
    Suggested,     \* the estimates of the recipes Optuna may suggest for it
    Jobs,          \* max_concurrent_trials
    Ram,           \* ram_gib, the configured budget
    Emergency,     \* emergency_gib, which is host_reserve_ram_gib
    Host,          \* memory of the host above that reserve, with nothing running
    MaxForeign,    \* bound: memory that others take
    MaxResident,   \* bound: residency of the controller
    MaxPeak        \* bound: memory a job is seen to use

Programs == 1..MaxProgram

ASSUME SizeAssumption ==
    /\ {MaxProgram, Jobs, Ram, Emergency, Host, MaxForeign, MaxResident,
        MaxPeak} \subseteq Nat
    /\ Typical \in [Programs -> Nat]
    /\ \A p \in Programs : Typical[p] \in Suggested[p] /\ Suggested[p] \subseteq 1..MaxPeak

ASSUME ProgramAssumption ==
    /\ LaneOf \in [Programs -> {"benter", "experimental"}]
    /\ Expensive \subseteq Programs

VARIABLES
    active,    \* the reservations of the jobs: program, estimate, private
               \* peak, and whether it is newer than the last sample
    sample,    \* what the last observation found available
    headroom,  \* memory_headroom_gib, charged since then
    resident,  \* resident_gib
    rung,      \* the cap ProgressiveCapacity has reached
    maxFits,   \* max_fits: that cap, or 0 while the ramp is paused
    row,       \* the estimate of each program's allocated, waiting row, or 0
    order,     \* <<p, q>>: the latest reservation of p is older (fair_program_order)
    turn,      \* reservations so far, modulo the period of the lanes
    waiting,   \* deferred_since: the programs in it
    longer,    \* <<p, q>>: p is in it since an earlier time than q
    aged,      \* those deferred for aging_seconds
    phase      \* where the iteration is

limits == <<resident, rung, maxFits>>
turns == <<row, order, turn>>
aging == <<waiting, longer, aged>>
admissionVars == <<active, sample, headroom, limits, turns, aging, phase>>

\* The ladder of ProgressiveCapacity for few jobs: min(jobs, 2), then jobs.
Rungs == {Min({Jobs, 2}), Jobs}

JobIds == 1..Jobs

Reservations == [p : Programs, est : 1..MaxPeak, peak : 1..MaxPeak, fresh : BOOLEAN]

\* One program is before another, in a line.
Line(before) ==
    /\ \A p, q \in Programs : <<p, q>> \in before <=> p # q /\ <<q, p>> \notin before
    /\ \A p, q, r \in Programs :
           <<p, q>> \in before /\ <<q, r>> \in before => <<p, r>> \in before

AdmissionTypeOK ==
    /\ \E jobs \in SUBSET JobIds : active \in [jobs -> Reservations]
    /\ \A i \in DOMAIN active : active[i].est <= active[i].peak
    /\ sample \in 0..Host
    /\ headroom \in Int
    /\ resident \in 0..MaxResident
    /\ rung \in Rungs
    /\ maxFits \in {0, rung}
    /\ row \in [Programs -> 0..MaxPeak]
    /\ order \subseteq Programs \X Programs /\ Line(order)
    /\ turn \in 0..4
    /\ waiting \subseteq Programs /\ longer \subseteq waiting \X waiting
    /\ aged \subseteq waiting
    /\ \A p, q \in Programs : <<p, q>> \in longer /\ q \in aged => p \in aged
    /\ phase \in {"observe", "complete", "resume", "ask"}

AdmissionInit ==
    /\ active = <<>>
    /\ sample = Host
    /\ headroom = Host
    /\ resident = 0
    /\ rung = Min({Jobs, 2})
    /\ maxFits = rung
    /\ row = [p \in Programs |-> 0]
    /\ order = {pair \in Programs \X Programs : pair[1] < pair[2]}
    /\ turn = 0
    /\ waiting = {} /\ longer = {} /\ aged = {}
    /\ phase = "observe"

-----------------------------------------------------------------------------
Fits == DOMAIN active

\* The sum of f, counted unit by unit.
Units(f) == {u \in (DOMAIN f) \X (1..MaxPeak) : u[2] <= f[u[1]]}
Total(f) == Cardinality(Units(f))

Private == Total([i \in Fits |-> active[i].peak])

\* The artifacts mapped by running fits; each has size 1 and counts once.
Artifacts(S) == {ArtifactOf[active[i].p] : i \in S} \ {NoArtifact}
Mapped == Artifacts(Fits)
Shared == Cardinality(Mapped)

\* What a job of program p adds to them.
NewlyShared(p) == IF ArtifactOf[p] \in Mapped \cup {NoArtifact} THEN 0 ELSE 1

\* The expensive fits that run, and max_expensive_fits.
Costly == {i \in Fits : active[i].p \in Expensive}
MaxCostly == Max({1, maxFits - 1})

\* blockers: why a job of program p with this estimate may not start now.
Blockers(p, est) ==
    {reason \in {"memory", "host", "fits", "expensive"} :
        CASE reason = "memory" ->
                 Private + est + Shared + NewlyShared(p) + resident + Emergency > Ram
          [] reason = "host" -> est + NewlyShared(p) + Emergency > headroom
          [] reason = "fits" -> Cardinality(Fits) >= maxFits
          [] reason = "expensive" -> p \in Expensive /\ Cardinality(Costly) >= MaxCostly}

Admits(p, est) == Blockers(p, est) = {}

\* Mutant of Charge: the sample serves every reservation until the next one.
ChargeNothing(p, est) == 0

\* What a reservation takes from the cached headroom.
Charge(p, est) == est + NewlyShared(p)

\* An id for a new job.
NewId == CHOOSE job \in JobIds \ Fits : TRUE

\* reserve.
Reserve(p, est) ==
    /\ active' = [i \in Fits \cup {NewId} |->
           IF i = NewId THEN [p |-> p, est |-> est, peak |-> est, fresh |-> TRUE]
           ELSE active[i]]
    /\ headroom' = headroom - Charge(p, est)

-----------------------------------------------------------------------------
\* The sample of an iteration: what is available above the reserve, charged
\* at once for the growth it shows; and the ramp, which pauses fits when what
\* is available, reserve included, is down to it, and may rise a rung.
Observe ==
    /\ phase = "observe"
    /\ \E foreign \in 0..MaxForeign, r \in 0..MaxResident :
       \E use \in [Fits -> 0..MaxPeak] :
          LET growth == Total([i \in Fits |-> Max({0, use[i] - active[i].peak})])
              above == Host - foreign - r - Total(use)
              available == Max({0, above})
              remaining == Ram - (Private + growth) - Shared - r
          IN /\ sample' = available
             /\ headroom' = available - growth
             /\ resident' = r
             /\ active' = [i \in Fits |->
                    [active[i] EXCEPT !.peak = Max({@, use[i]}), !.fresh = FALSE]]
             /\ IF Min({remaining, above + Emergency}) <= Emergency
                THEN maxFits' = 0 /\ UNCHANGED rung
                ELSE rung' \in {rung, Jobs} /\ maxFits' = rung'
    /\ phase' = "complete"
    /\ UNCHANGED <<turns, aging>>

\* A job that ended gives its reservation back; the headroom waits for the
\* next sample.
Release(i) ==
    /\ phase = "complete"
    /\ i \in Fits
    /\ active' = Restrict(active, Fits \ {i})
    /\ UNCHANGED <<sample, headroom, limits, turns, aging, phase>>

Completed ==
    /\ phase = "complete"
    /\ phase' = "resume"
    /\ UNCHANGED <<active, sample, headroom, limits, turns, aging>>

\* The first program of S.
Foremost(p, S) == p \in S /\ \A q \in S \ {p} : <<p, q>> \in order

\* Allocated rows, oldest reservation first.  A row passed over does not fit
\* later in the pass, for the pass only takes memory.
Resumable == {p \in Programs : row[p] # 0 /\ Admits(p, row[p])}

Resume ==
    /\ phase = "resume" /\ Cardinality(Fits) < Jobs
    /\ \E p \in Programs :
           /\ Foremost(p, Resumable)
           /\ Reserve(p, row[p])
           /\ row' = [row EXCEPT ![p] = 0]
    /\ UNCHANGED <<sample, limits, order, turn, aging, phase>>

Resumed ==
    /\ phase = "resume"
    /\ Resumable = {} \/ Cardinality(Fits) >= Jobs
    /\ phase' = "ask"
    /\ UNCHANGED <<active, sample, headroom, limits, turns, aging>>

-----------------------------------------------------------------------------
\* _lane: four of five reservations go to the benter lane.
Lane == IF turn = 2 THEN "experimental" ELSE "benter"

\* The programs that may be asked for a trial now.
Allowed == {p \in Programs : row[p] = 0 /\ LaneOf[p] = Lane}

Unfit == {p \in Allowed : ~Admits(p, Typical[p])}
Feasible == Allowed \ Unfit

\* Mutant of Possible: a job that can never fit holds the others back too.
PossibleAlways(p) == TRUE

\* The program would fit with nothing else reserved.
Possible(p) ==
    Typical[p] + (IF ArtifactOf[p] = NoArtifact THEN 0 ELSE 1) + resident + Emergency <= Ram

\* A deferred program whose wait is over holds back all others, unless only an
\* expensive-fit limit blocks it.
Holding ==
    \E p \in aged \cap Unfit : Possible(p) /\ "expensive" \notin Blockers(p, Typical[p])

\* deferred_since after a call of peek_feasible: other programs than the
\* allowed ones are forgotten, those blocked now are remembered.
Kept == waiting \cap Allowed
Added == Unfit \ waiting

Peeked ==
    /\ waiting' = Kept \cup Added
    /\ longer' = (longer \cap (Kept \X Kept)) \cup (Kept \X Added)
    /\ aged' = aged \cap Kept

\* Mutant of Behind: the place p had is kept too.
BehindTwice(p) == order \cup ((Programs \ {p}) \X {p})

\* p goes behind all others.
Behind(p) == {pair \in order : pair[1] # p} \cup ((Programs \ {p}) \X {p})

\* The latest reservation is that of p.
Reserved(p) ==
    /\ order' = Behind(p)
    /\ turn' = (turn + 1) % 5

\* Mutant of Settled: the recipe runs on the program's first estimate.
SettledUnchecked(p, est) == Reserve(p, est) /\ UNCHANGED row

\* The recipe that was suggested is estimated anew; it starts if it fits,
\* else its row stays allocated.
Settled(p, est) ==
    \/ Admits(p, est) /\ Reserve(p, est) /\ UNCHANGED row
    \/ ~Admits(p, est) /\ row' = [row EXCEPT ![p] = est] /\ UNCHANGED <<active, headroom>>

\* What peek_feasible returns is asked for a trial.
Ask(p) ==
    /\ phase = "ask"
    /\ Cardinality(Fits) < Jobs /\ maxFits # 0
    /\ ~Holding /\ Foremost(p, Feasible)
    /\ Peeked
    /\ \E est \in Suggested[p] : Settled(p, est)
    /\ Reserved(p)
    /\ UNCHANGED <<sample, limits, phase>>

\* No candidate, or no room for a fit: the iteration ends.
Asked ==
    /\ phase = "ask"
    /\ IF Cardinality(Fits) < Jobs /\ maxFits # 0
       THEN (Holding \/ Feasible = {}) /\ Peeked
       ELSE UNCHANGED aging
    /\ phase' = "observe"
    /\ UNCHANGED <<active, sample, headroom, limits, turns>>

\* aging_seconds have passed for the programs deferred longest.
Age ==
    /\ waiting # aged
    /\ LET fresh == waiting \ aged
       IN aged' = aged \cup {p \in fresh : \A q \in fresh : <<q, p>> \notin longer}
    /\ UNCHANGED <<active, sample, headroom, limits, turns, waiting, longer, phase>>

AdmissionNext ==
    \/ Observe \/ Completed \/ Resume \/ Resumed \/ Asked \/ Age
    \/ \E i \in JobIds : Release(i)
    \/ \E p \in Programs : Ask(p)

AdmissionSpec == AdmissionInit /\ [][AdmissionNext]_admissionVars

Iterates == Observe \/ Completed \/ Resume \/ Resumed \/ Asked \/ \E p \in Programs : Ask(p)

\* The loop never stops iterating, and every job ends (it has a deadline).
AdmissionFairSpec ==
    /\ AdmissionSpec
    /\ WF_admissionVars(Iterates)
    /\ \A i \in JobIds : SF_admissionVars(Release(i))

-----------------------------------------------------------------------------
(* What the admission promises.                                            *)

Estimates(S) == Total([i \in S |-> active[i].est])

\* The estimates of the jobs that were admitted fit in the configured memory
\* together, shared matrices counted once: only growth beyond an estimate, or
\* of the controller itself, exceeds it.
EstimatesFit ==
    Fits # {} => Estimates(Fits) + Shared + Emergency <= Ram

\* One sample is not spent twice: the jobs admitted since it was taken, and
\* the matrices only they map, fit in what it found above the emergency reserve.
SampleSpentOnce ==
    LET fresh == {i \in Fits : active[i].fresh}
        matrices == Artifacts(fresh) \ Artifacts(Fits \ fresh)
    IN fresh # {} =>
        Estimates(fresh) + Cardinality(matrices) + Emergency <= sample

\* What p would run next, its allocated row or a new trial, does not fit.
Stalled(p) ==
    Blockers(p, IF row[p] # 0 THEN row[p] ELSE Typical[p]) \cap {"memory", "host"} # {}

\* With nothing running, either no program of the lane whose turn it is fits
\* in the budget and on the host, or one that has aged fits in the budget and
\* not on the host.
Starved ==
    /\ Fits = {}
    /\ \/ \A p \in Programs : LaneOf[p] = Lane => Stalled(p)
       \/ \E p \in aged : row[p] = 0 /\ Blockers(p, Typical[p]) = {"host"}

\* Dispatching goes on for ever, whichever jobs wait, for however long, and
\* whatever the other lane waits for; it stops for good only when memory does
\* not become free that the jobs of this lane need even alone.  A recipe that
\* was suggested and never fits is such a job: its row keeps its program, and
\* the turn does not pass to the other lane.
DispatchGoesOn ==
    \/ []<><<Resume \/ \E p \in Programs : Ask(p)>>_admissionVars
    \/ <>[]Starved
=============================================================================
