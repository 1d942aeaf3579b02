------------------------- MODULE DecisionStoreProofs -------------------------
(***************************************************************************)
(* Theorems about DecisionStore, for every number of decisions, every set  *)
(* of answers and every number of refused writes and deaths.               *)
(***************************************************************************)
EXTENDS DecisionStore, FiniteSetTheorems, WellFoundedInduction, TLAPS

-----------------------------------------------------------------------------
(* The least number of a set.                                              *)

\* A set of numbers that is not empty has a least one.
LEMMA LeastExists ==
    ASSUME NEW S \in SUBSET Nat, S # {}
    PROVE  \E n \in S : \A m \in S : n <= m
<1> DEFINE below == OpToRel(<, Nat)
<1>1. IsWellFoundedOn(below, Nat)
  BY NatLessThanWellFounded
<1> HIDE DEF below
<1>2. \E n \in S : \A m \in S : <<m, n>> \notin below
  BY <1>1, WFMin
<1>3. \A m, n \in Nat : <<m, n>> \in below <=> m < n
  BY DEF below, OpToRel
<1>4. PICK n \in S : \A m \in S : <<m, n>> \notin below
  BY <1>2
<1>5. ASSUME NEW m \in S PROVE n <= m
  <2>1. n \in Nat /\ m \in Nat
    OBVIOUS
  <2>2. ~(m < n)
    BY <1>3, <1>4, <2>1, Zenon
  <2> QED
    BY <2>1, <2>2
<1> QED
  BY <1>5

\* Choosing it gives an element of the set.
LEMMA LeastChosen ==
    ASSUME NEW S \in SUBSET Nat, S # {}
    PROVE  (CHOOSE n \in S : \A m \in S : n <= m) \in S
  BY LeastExists

\* A recorded decision has a saved response.
Answered == \A d \in Decisions : status[d] # "none" => answer[d] # None

\* The controller's copy of the retired programs never lags behind the file.
Remembered == retiredFile \subseteq retired

Late == {"grant", "raise", "retire", "complete"}

\* How far apply_decision has come says what is durable, whichever writes were
\* made now and whichever an earlier run had made.
Progress ==
    /\ apply.d = 0 => apply = Idle
    /\ apply.d # 0 =>
      /\ apply.left \subseteq answer[apply.d].extends
      /\ \A p \in answer[apply.d].extends \ apply.left : grants[apply.d][p] # 0
      /\ apply.at \notin {"admit", "discipline"} => apply.d \in disciplined
      /\ apply.at \in {"charter"} \cup Late /\ answer[apply.d].signature # None =>
            budget[apply.d] # 0
      /\ apply.at \in Late /\ answer[apply.d].signature # None => apply.d \in chartered
      /\ apply.at = "raise" => grants[apply.d][Extended] # 0
      /\ apply.at \in {"retire", "complete"} => apply.left = {}
      /\ apply.at = "complete" => answer[apply.d].retires \subseteq retiredFile

\* What the decisions that extend a program allow.
Granted(p) == {d \in Decisions : grants[d][p] # 0}
Cap(p) == Base + Extra * Cardinality(Granted(p))

\* Every frozen budget, the budget in force and the trials asked stay within it.
WithinCap ==
    \A p \in Programs :
        /\ asked[p] <= Cap(p)
        /\ budget[p] <= Cap(p)
        /\ \A d \in Decisions : grants[d][p] <= Cap(p)

IInv ==
    /\ TypeOK
    /\ Answered
    /\ Remembered
    /\ Progress
    /\ AppliedIsWhole
    /\ WithinCap

-----------------------------------------------------------------------------
(***************************************************************************)
(* The parts of the type invariant.                                        *)
(***************************************************************************)

Applying == [d : 0..MaxDecisions, at : Steps, left : SUBSET Programs]

StoreOK ==
    /\ answer \in [Decisions -> Answers \cup {None}]
    /\ status \in [Decisions -> {"none", "recorded", "applied"}]
    /\ disciplined \subseteq Decisions
    /\ chartered \subseteq Decisions
    /\ grants \in [Decisions -> [Programs -> Nat]]

SearchOK ==
    /\ budget \in [Programs -> Nat]
    /\ retiredFile \subseteq Programs
    /\ retired \subseteq Programs

TrialsOK ==
    /\ asked \in [Programs -> Nat]
    /\ running \subseteq Programs

ApplyOK ==
    /\ apply \in Applying
    /\ apply.d # 0 => answer[apply.d] # None
    /\ apply.at \in {"grant", "raise"} => apply.left # {}

BoundsOK ==
    /\ pc \in {"down", "replaying", "loop", "refused"}
    /\ faults \in 0..MaxFaults
    /\ crashes \in 0..MaxCrashes

LEMMA TypesSplit ==
    /\ TypeOK <=> StoreOK /\ SearchOK /\ TrialsOK /\ ApplyOK /\ BoundsOK
    /\ TypeOK' <=> StoreOK' /\ SearchOK' /\ TrialsOK' /\ ApplyOK' /\ BoundsOK'
BY DEF TypeOK, StoreOK, SearchOK, TrialsOK, ApplyOK, BoundsOK, Applying

\* The decisions are numbered like their programs.
LEMMA Numbered ==
    /\ \A d \in Decisions : d \in Programs /\ d \in Nat /\ d # 0
    /\ \A d \in 0..MaxDecisions : d # 0 => d \in Decisions
    /\ Programs \subseteq Nat /\ Decisions \subseteq Nat /\ 0 \in Programs
    /\ 0 \in 0..MaxDecisions
BY BoundAssumption DEF Decisions, Programs

\* What a response is.
LEMMA AnswerTyped ==
    ASSUME NEW a \in Answers
    PROVE  a # None /\ a.extends \subseteq Programs /\ a.retires \subseteq Programs
BY AnswerAssumption

\* The decision being applied, with its response.
LEMMA Current ==
    ASSUME TypeOK, apply.d # 0
    PROVE  /\ apply.d \in Decisions
           /\ answer[apply.d] \in Answers
           /\ answer[apply.d].extends \subseteq Programs
           /\ answer[apply.d].retires \subseteq Programs
           /\ apply.left \subseteq Programs
<1>1. apply.d \in Decisions
  BY TypesSplit, Numbered DEF ApplyOK, Applying
<1>2. answer[apply.d] \in Answers
  BY <1>1, TypesSplit DEF ApplyOK, StoreOK
<1>3. apply.left \subseteq Programs
  BY TypesSplit DEF ApplyOK, Applying
<1>q. QED BY <1>1, <1>2, <1>3, AnswerTyped

\* The extension being worked on is one that is left.
LEMMA ExtendedLeft ==
    ASSUME TypeOK, apply.left # {}
    PROVE  Extended \in apply.left
<1>1. apply.left \in SUBSET Nat
  BY TypesSplit, Numbered DEF ApplyOK, Applying
<1>q. QED BY <1>1, LeastChosen DEF Extended

\* What the next step of apply_decision changes in its record.
LEMMA GotoDoes ==
    ASSUME TypeOK, NEW step \in Steps, Goto(step)
    PROVE  /\ apply' \in Applying
           /\ apply'.d = apply.d /\ apply'.left = apply.left /\ apply'.at = step
BY TypesSplit DEF Goto, ApplyOK, Applying

LEMMA IdleTyped == Idle \in Applying /\ Idle.d = 0 /\ Idle.at = "admit"
BY Numbered DEF Idle, Applying, Steps

\* apply_decision begins with the first write.
LEMMA BeginTyped ==
    ASSUME NEW d \in Decisions, NEW left \in SUBSET Programs
    PROVE  /\ [d |-> d, at |-> "admit", left |-> left] \in Applying
           /\ [d |-> d, at |-> "admit", left |-> left].d = d
           /\ [d |-> d, at |-> "admit", left |-> left].at = "admit"
           /\ [d |-> d, at |-> "admit", left |-> left].left = left
BY BoundAssumption DEF Applying, Steps, Decisions

-----------------------------------------------------------------------------
(***************************************************************************)
(* Nothing durable is lost.                                                *)
(***************************************************************************)

\* The receipts, budgets and retirements of before are there after.
Grows ==
    /\ disciplined \subseteq disciplined'
    /\ chartered \subseteq chartered'
    /\ retiredFile \subseteq retiredFile'
    /\ \A d \in Decisions : answer[d] # None => answer'[d] = answer[d]
    /\ \A p \in Programs : budget[p] # 0 => budget'[p] # 0
    /\ \A d \in Decisions, p \in Programs : grants[d][p] # 0 => grants'[d][p] # 0

\* A decision that counted as applied is still whole, when no other is added.
LEMMA WholeKept ==
    ASSUME IInv, TypeOK', Grows,
           \A d \in Decisions : status'[d] = "applied" => status[d] = "applied"
    PROVE  AppliedIsWhole'
<1> SUFFICES ASSUME NEW d \in Decisions, status'[d] = "applied"
             PROVE  /\ d \in disciplined'
                    /\ answer'[d].signature # None => d \in chartered' /\ d \in Registered'
                    /\ \A p \in answer'[d].extends : grants'[d][p] # 0
                    /\ answer'[d].retires \subseteq retiredFile'
  BY DEF AppliedIsWhole
<1>1. status[d] = "applied"
  OBVIOUS
<1>2. answer[d] # None /\ answer'[d] = answer[d]
  BY <1>1 DEF IInv, Answered, Grows
<1>3. /\ d \in disciplined
      /\ answer[d].signature # None => d \in chartered /\ d \in Registered
      /\ \A p \in answer[d].extends : grants[d][p] # 0
      /\ answer[d].retires \subseteq retiredFile
  BY <1>1 DEF IInv, AppliedIsWhole
<1>4. answer[d].extends \subseteq Programs
  BY <1>2, AnswerTyped, TypesSplit DEF IInv, StoreOK
<1>5. d \in Programs /\ budget'[d] \in Nat /\ budget[d] \in Nat
  BY Numbered, TypesSplit DEF IInv, SearchOK
<1>6. d \in Registered => d \in Registered'
  BY <1>5 DEF Grows, Registered
<1>q. QED BY <1>2, <1>3, <1>4, <1>6 DEF Grows

\* Between two decisions there is no progress to keep.
LEMMA IdleProgress ==
    ASSUME apply' = Idle
    PROVE  Progress' /\ ApplyOK'
BY IdleTyped DEF Progress, ApplyOK

\* The caps of the programs are the same while no grant is made.
LEMMA CapsKept ==
    ASSUME IInv, grants' = grants,
           \A p \in Programs : asked'[p] = asked[p] \/ asked'[p] <= Cap(p),
           \A p \in Programs : budget'[p] = budget[p] \/ budget'[p] <= Cap(p)
    PROVE  WithinCap'
<1>1. \A p \in Programs : Cap(p)' = Cap(p)
  BY DEF Cap, Granted
<1>q. QED BY <1>1 DEF IInv, WithinCap

\* A cap is a number, and at least what a proposal allocates.
LEMMA CapTyped ==
    ASSUME NEW p
    PROVE  Cap(p) \in Nat /\ Base <= Cap(p) /\ IsFiniteSet(Granted(p))
<1>1. IsFiniteSet(Decisions)
  BY BoundAssumption, FS_Interval DEF Decisions
<1>2. IsFiniteSet(Granted(p))
  BY <1>1, FS_Subset DEF Granted
<1>3. Cardinality(Granted(p)) \in Nat
  BY <1>2, FS_CardinalityType
<1>q. QED BY <1>2, <1>3 DEF Cap, Base, Extra

-----------------------------------------------------------------------------
(***************************************************************************)
(* One lemma per action.                                                   *)
(***************************************************************************)

\* The response is saved and apply_decision begins.
LEMMA ReceiveKeeps ==
    ASSUME IInv, NEW d \in Decisions, NEW a \in Answers, Receive(d, a)
    PROVE  IInv'
<1>1. /\ answer[d] = None
      /\ answer' = [answer EXCEPT ![d] = a]
      /\ apply' = [d |-> d, at |-> "admit", left |-> a.extends]
      /\ UNCHANGED <<status, disciplined, chartered, grants, search, trials, pc, bounds>>
  BY DEF Receive
<1>2. /\ answer' \in [Decisions -> Answers \cup {None}]
      /\ answer'[d] = a
      /\ \A e \in Decisions : e # d => answer'[e] = answer[e]
  BY <1>1, TypesSplit DEF IInv, StoreOK
<1>3. /\ apply' \in Applying
      /\ apply'.d = d /\ apply'.at = "admit" /\ apply'.left = a.extends
  BY <1>1, BeginTyped, AnswerTyped
<1>4. StoreOK' /\ SearchOK' /\ TrialsOK' /\ BoundsOK'
  BY <1>1, <1>2, TypesSplit
  DEF IInv, StoreOK, SearchOK, TrialsOK, BoundsOK, search, trials, bounds
<1>5. ApplyOK'
  BY <1>2, <1>3, AnswerTyped DEF ApplyOK
<1>6. TypeOK'
  BY <1>4, <1>5, TypesSplit
<1>7. Answered' /\ Remembered'
  BY <1>1, <1>2, AnswerTyped DEF IInv, Answered, Remembered, search
<1>8. Progress'
  BY <1>2, <1>3, Numbered DEF Progress, Late
<1>9. Grows
  BY <1>1, <1>2 DEF Grows, search
<1>10. AppliedIsWhole'
  BY <1>1, <1>6, <1>9, WholeKept
<1>11. WithinCap'
  BY <1>1, CapsKept DEF search, trials
<1>q. QED BY <1>6, <1>7, <1>8, <1>10, <1>11 DEF IInv

\* A decision is taken up that has a response: nothing durable changes.
LEMMA BeginKeeps ==
    ASSUME IInv, NEW d \in Decisions, answer[d] # None, apply' = Begin(d),
           UNCHANGED <<store, search, trials, pc, bounds>>
    PROVE  IInv'
<1>1. answer[d].extends \in SUBSET Programs
  BY AnswerTyped, TypesSplit DEF IInv, StoreOK
<1>2. /\ apply' \in Applying
      /\ apply'.d = d /\ apply'.at = "admit" /\ apply'.left = answer[d].extends
  BY <1>1, BeginTyped DEF Begin
<1>3. StoreOK' /\ SearchOK' /\ TrialsOK' /\ BoundsOK' /\ answer' = answer
  BY TypesSplit
  DEF IInv, StoreOK, SearchOK, TrialsOK, BoundsOK, store, search, trials, bounds
<1>4. ApplyOK'
  BY <1>2, <1>3 DEF ApplyOK
<1>5. TypeOK'
  BY <1>3, <1>4, TypesSplit
<1>6. Answered' /\ Remembered'
  BY DEF IInv, Answered, Remembered, store, search
<1>7. Progress'
  BY <1>2, <1>3, Numbered DEF Progress, Late
<1>8. Grows
  BY DEF Grows, store, search
<1>9. AppliedIsWhole'
  BY <1>5, <1>8, WholeKept DEF store
<1>10. WithinCap'
  BY CapsKept DEF store, search, trials
<1>q. QED BY <1>5, <1>6, <1>7, <1>9, <1>10 DEF IInv

LEMMA RecoverKeeps ==
    ASSUME IInv, NEW d \in Decisions, Recover(d)
    PROVE  IInv'
BY BeginKeeps DEF Recover

\* The oldest unapplied decision is replayed, or the loop is entered.
LEMMA ReplayKeeps ==
    ASSUME IInv, Replay
    PROVE  IInv'
<1>1. CASE Unapplied # {}
  <2> DEFINE d == CHOOSE d \in Unapplied : \A e \in Unapplied : d <= e
  <2>1. Unapplied \in SUBSET Nat
    BY Numbered DEF Unapplied
  <2>2. d \in Unapplied
    BY <1>1, <2>1, LeastChosen
  <2>3. d \in Decisions /\ answer[d] # None
    BY <2>2 DEF Unapplied, IInv, Answered
  <2>4. apply' = Begin(d) /\ UNCHANGED <<store, search, trials, pc, bounds>>
    BY <1>1 DEF Replay
  <2> HIDE DEF d
  <2>q. QED BY <2>3, <2>4, BeginKeeps
<1>2. CASE Unapplied = {}
  <2>1. pc' = "loop" /\ UNCHANGED <<apply, store, search, trials, bounds>>
    BY <1>2 DEF Replay
  <2>2. apply' = Idle
    BY <2>1 DEF Replay
  <2>3. StoreOK' /\ SearchOK' /\ TrialsOK' /\ BoundsOK'
    BY <2>1, TypesSplit
    DEF IInv, StoreOK, SearchOK, TrialsOK, BoundsOK, store, search, trials, bounds
  <2>4. TypeOK' /\ Progress'
    BY <2>2, <2>3, IdleProgress, TypesSplit
  <2>5. Answered' /\ Remembered' /\ Grows
    BY <2>1 DEF IInv, Answered, Remembered, Grows, store, search
  <2>6. AppliedIsWhole' /\ WithinCap'
    BY <2>1, <2>4, <2>5, WholeKept, CapsKept DEF store, search, trials
  <2>q. QED BY <2>4, <2>5, <2>6 DEF IInv
<1>q. QED BY <1>1, <1>2

\* The decision is recorded.
LEMMA AdmitKeeps ==
    ASSUME IInv, Admit
    PROVE  IInv'
<1>1. /\ apply.d # 0
      /\ status' = [status EXCEPT ![apply.d] = IF @ = "none" THEN "recorded" ELSE @]
      /\ Goto("discipline")
      /\ UNCHANGED <<answer, disciplined, chartered, grants, search, trials, pc, bounds>>
  BY DEF Admit, At
<1>2. apply.d \in Decisions /\ answer[apply.d] # None
  BY <1>1, Current, TypesSplit DEF IInv, ApplyOK
<1>3. apply' \in Applying /\ apply'.d = apply.d /\ apply'.left = apply.left /\ apply'.at = "discipline"
  BY <1>1, GotoDoes DEF IInv, Steps
<1>4. status' \in [Decisions -> {"none", "recorded", "applied"}]
  BY <1>1, <1>2, TypesSplit DEF IInv, StoreOK
<1>5. \A d \in Decisions : /\ status'[d] = "applied" => status[d] = "applied"
                          /\ status'[d] # "none" => status[d] # "none" \/ d = apply.d
  BY <1>1, <1>2, TypesSplit DEF IInv, StoreOK
<1>6. StoreOK' /\ SearchOK' /\ TrialsOK' /\ BoundsOK'
  BY <1>1, <1>4, TypesSplit
  DEF IInv, StoreOK, SearchOK, TrialsOK, BoundsOK, search, trials, bounds
<1>7. ApplyOK'
  BY <1>1, <1>2, <1>3 DEF ApplyOK
<1>8. TypeOK'
  BY <1>6, <1>7, TypesSplit
<1>9. Answered' /\ Remembered' /\ Grows
  BY <1>1, <1>2, <1>5 DEF IInv, Answered, Remembered, Grows, search
<1>10. Progress'
  BY <1>1, <1>3 DEF IInv, Progress, Late
<1>11. AppliedIsWhole' /\ WithinCap'
  BY <1>1, <1>5, <1>8, <1>9, WholeKept, CapsKept DEF search, trials
<1>q. QED BY <1>8, <1>9, <1>10, <1>11 DEF IInv

\* The receipt of the discipline audit.
LEMMA DisciplineKeeps ==
    ASSUME IInv, Discipline
    PROVE  IInv'
<1> DEFINE next == IF answer[apply.d].signature # None THEN "register" ELSE AfterPrograms
<1>1. /\ apply.d # 0
      /\ disciplined' = disciplined \cup {apply.d}
      /\ Goto(next)
      /\ UNCHANGED <<answer, status, chartered, grants, search, trials, pc, bounds>>
  BY DEF Discipline, At
<1>2. apply.d \in Decisions /\ answer[apply.d] # None
  BY <1>1, Current, TypesSplit DEF IInv, ApplyOK
<1>3. /\ next \in {"register", "grant", "retire"}
      /\ answer[apply.d].signature # None => next = "register"
      /\ next = "grant" => apply.left # {}
      /\ next = "retire" => apply.left = {}
  BY DEF AfterPrograms
<1> HIDE DEF next
<1>4. apply' \in Applying /\ apply'.d = apply.d /\ apply'.left = apply.left /\ apply'.at = next
  BY <1>1, <1>3, GotoDoes DEF IInv, Steps
<1>5. StoreOK' /\ SearchOK' /\ TrialsOK' /\ BoundsOK'
  BY <1>1, <1>2, TypesSplit
  DEF IInv, StoreOK, SearchOK, TrialsOK, BoundsOK, search, trials, bounds
<1>6. ApplyOK'
  BY <1>1, <1>2, <1>3, <1>4 DEF ApplyOK
<1>7. TypeOK'
  BY <1>5, <1>6, TypesSplit
<1>8. Answered' /\ Remembered' /\ Grows
  BY <1>1 DEF IInv, Answered, Remembered, Grows, search
<1>9. Progress'
  BY <1>1, <1>3, <1>4 DEF IInv, Progress, Late
<1>10. AppliedIsWhole' /\ WithinCap'
  BY <1>1, <1>7, <1>8, WholeKept, CapsKept DEF search, trials
<1>q. QED BY <1>7, <1>8, <1>9, <1>10 DEF IInv

\* The program is registered.
LEMMA RegisterKeeps ==
    ASSUME IInv, Register
    PROVE  IInv'
<1>1. /\ apply.d # 0
      /\ budget' = [budget EXCEPT ![apply.d] = IF @ = 0 THEN Base ELSE @]
      /\ Goto("charter")
      /\ UNCHANGED <<store, retiredFile, retired, trials, pc, bounds>>
  BY DEF Register, At
<1>2. apply.d \in Decisions /\ answer[apply.d] # None /\ apply.d \in Programs
  BY <1>1, Current, Numbered, TypesSplit DEF IInv, ApplyOK
<1>3. apply' \in Applying /\ apply'.d = apply.d /\ apply'.left = apply.left /\ apply'.at = "charter"
  BY <1>1, GotoDoes DEF IInv, Steps
<1>4. /\ budget' \in [Programs -> Nat]
      /\ budget'[apply.d] # 0
      /\ \A p \in Programs : budget'[p] = budget[p] \/ (budget[p] = 0 /\ budget'[p] = Base)
  BY <1>1, <1>2, TypesSplit DEF IInv, SearchOK, Base
<1>5. StoreOK' /\ SearchOK' /\ TrialsOK' /\ BoundsOK'
  BY <1>1, <1>4, TypesSplit
  DEF IInv, StoreOK, SearchOK, TrialsOK, BoundsOK, store, trials, bounds
<1>6. ApplyOK'
  BY <1>1, <1>2, <1>3 DEF ApplyOK, store
<1>7. TypeOK'
  BY <1>5, <1>6, TypesSplit
<1>8. Answered' /\ Remembered' /\ Grows
  BY <1>1, <1>4 DEF IInv, Answered, Remembered, Grows, store
<1>9. Progress'
  <2>1. apply.d \in disciplined /\ apply.at = "register"
    BY <1>1 DEF IInv, Progress, Register, At
  <2>2. UNCHANGED <<answer, disciplined, chartered, grants>>
    BY <1>1 DEF store
  <2>q. QED BY <1>1, <1>3, <1>4, <2>1, <2>2 DEF IInv, Progress, Late
<1>10. AppliedIsWhole' /\ WithinCap'
  BY <1>1, <1>4, <1>7, <1>8, WholeKept, CapsKept, CapTyped DEF store, trials
<1>q. QED BY <1>7, <1>8, <1>9, <1>10 DEF IInv

\* The receipt of the allocation.
LEMMA CharterKeeps ==
    ASSUME IInv, Charter
    PROVE  IInv'
<1>1. /\ apply.d # 0 /\ apply.at = "charter"
      /\ chartered' = chartered \cup {apply.d}
      /\ Goto(AfterPrograms)
      /\ UNCHANGED <<answer, status, disciplined, grants, search, trials, pc, bounds>>
  BY DEF Charter, At
<1>2. apply.d \in Decisions /\ answer[apply.d] # None
  BY <1>1, Current, TypesSplit DEF IInv, ApplyOK
<1>3. /\ AfterPrograms \in {"grant", "retire"}
      /\ AfterPrograms = "grant" => apply.left # {}
      /\ AfterPrograms = "retire" => apply.left = {}
  BY DEF AfterPrograms
<1>4. /\ apply' \in Applying /\ apply'.d = apply.d /\ apply'.left = apply.left
      /\ apply'.at = AfterPrograms
  BY <1>1, <1>3, GotoDoes DEF IInv, Steps
<1>5. StoreOK' /\ SearchOK' /\ TrialsOK' /\ BoundsOK'
  BY <1>1, <1>2, TypesSplit
  DEF IInv, StoreOK, SearchOK, TrialsOK, BoundsOK, search, trials, bounds
<1>6. ApplyOK'
  BY <1>1, <1>2, <1>3, <1>4 DEF ApplyOK
<1>7. TypeOK'
  BY <1>5, <1>6, TypesSplit
<1>8. Answered' /\ Remembered' /\ Grows
  BY <1>1 DEF IInv, Answered, Remembered, Grows, search
<1>9. Progress'
  BY <1>1, <1>3, <1>4 DEF IInv, Progress, Late, search
<1>10. AppliedIsWhole' /\ WithinCap'
  BY <1>1, <1>7, <1>8, WholeKept, CapsKept DEF search, trials
<1>q. QED BY <1>7, <1>8, <1>9, <1>10 DEF IInv

\* The budget that a grant freezes is within the cap it raises.
LEMMA GrantDoes ==
    ASSUME IInv, NEW d \in Decisions, NEW p \in Programs,
           grants' = [grants EXCEPT ![d][p] = Frozen(d, p)]
    PROVE  /\ grants' \in [Decisions -> [Programs -> Nat]]
           /\ grants'[d][p] # 0
           /\ \A e \in Decisions, q \in Programs : grants[e][q] # 0 => grants'[e][q] # 0
           /\ \A q \in Programs : Cap(q)' \in Nat /\ Cap(q) <= Cap(q)'
           /\ \A q \in Programs, e \in Decisions : grants'[e][q] <= Cap(q)'
<1>1. /\ grants \in [Decisions -> [Programs -> Nat]]
      /\ budget[p] \in Nat
      /\ \A e \in Decisions : grants[e] \in [Programs -> Nat]
      /\ \A q \in Programs, e \in Decisions : grants[e][q] \in Nat
  BY TypesSplit DEF IInv, StoreOK, SearchOK
<1>2. Frozen(d, p) \in Nat /\ Frozen(d, p) # 0
  BY <1>1 DEF Frozen, Extra
<1> DEFINE row == [grants[d] EXCEPT ![p] = Frozen(d, p)]
<1>3. row \in [Programs -> Nat] /\ row[p] = Frozen(d, p)
      /\ \A q \in Programs : q # p => row[q] = grants[d][q]
  BY <1>1, <1>2
<1>4. grants' = [grants EXCEPT ![d] = row]
  OBVIOUS
<1> HIDE DEF row
<1>5. /\ grants' \in [Decisions -> [Programs -> Nat]]
      /\ grants'[d] = row
      /\ \A e \in Decisions : e # d => grants'[e] = grants[e]
  BY <1>1, <1>3, <1>4
<1>6. \A e \in Decisions, q \in Programs : q # p => grants'[e][q] = grants[e][q]
  BY <1>3, <1>5
<1>7. grants'[d][p] = Frozen(d, p)
  BY <1>3, <1>5
<1>8. \A e \in Decisions : e # d => grants'[e][p] = grants[e][p]
  BY <1>5
<1>9. \A q \in Programs : q # p => Granted(q)' = Granted(q)
  BY <1>6 DEF Granted
<1>10. Granted(p)' = Granted(p) \cup {d}
  BY <1>2, <1>7, <1>8 DEF Granted
<1>11. d \in Granted(p) <=> grants[d][p] # 0
  BY DEF Granted
<1>12. Cap(p)' = IF grants[d][p] # 0 THEN Cap(p) ELSE Cap(p) + Extra
  <2>1. /\ Cardinality(Granted(p)) \in Nat
        /\ Cardinality(Granted(p)') =
             IF d \in Granted(p) THEN Cardinality(Granted(p)) ELSE Cardinality(Granted(p)) + 1
    BY <1>10, CapTyped, FS_CardinalityType, FS_AddElement
  <2>2. Cap(p)' = Base + Extra * Cardinality(Granted(p)')
    BY DEF Cap
  <2>q. QED BY <1>11, <2>1, <2>2 DEF Cap, Base, Extra
<1>13. \A q \in Programs : q # p => Cap(q)' = Cap(q)
  BY <1>9 DEF Cap
<1>14. /\ \A q \in Programs : Cap(q) \in Nat
       /\ budget[p] <= Cap(p)
       /\ \A e \in Decisions, q \in Programs : grants[e][q] <= Cap(q)
  BY CapTyped DEF IInv, WithinCap
<1>15. Cap(p) <= Cap(p)' /\ Frozen(d, p) <= Cap(p)' /\ Cap(p)' \in Nat
  <2>1. CASE grants[d][p] # 0
    BY <1>12, <1>14, <2>1 DEF Frozen
  <2>2. CASE grants[d][p] = 0
    BY <1>1, <1>12, <1>14, <2>2 DEF Frozen, Extra
  <2>q. QED BY <2>1, <2>2
<1>16. \A q \in Programs : Cap(q)' \in Nat /\ Cap(q) <= Cap(q)'
  BY <1>13, <1>14, <1>15
<1>17. ASSUME NEW q \in Programs, NEW e \in Decisions PROVE grants'[e][q] <= Cap(q)'
  <2>1. CASE q # p
    BY <1>6, <1>13, <1>14, <2>1
  <2>2. CASE q = p /\ e = d
    BY <1>7, <1>15, <2>2
  <2>3. CASE q = p /\ e # d
    <3>1. grants'[e][p] = grants[e][p] /\ grants[e][p] <= Cap(p)
      BY <1>8, <1>14, <2>3
    <3>q. QED BY <1>1, <1>14, <1>15, <2>3, <3>1
  <2>q. QED BY <2>1, <2>2, <2>3
<1>18. \A e \in Decisions, q \in Programs : grants[e][q] # 0 => grants'[e][q] # 0
  <2>1. \A q \in Programs, e \in Decisions : q # p \/ e # d => grants'[e][q] = grants[e][q]
    BY <1>6, <1>8
  <2>q. QED BY <1>2, <1>7, <2>1
<1>q. QED BY <1>2, <1>5, <1>7, <1>16, <1>17, <1>18

\* An extension's budget is frozen.
LEMMA GrantKeeps ==
    ASSUME IInv, Grant
    PROVE  IInv'
<1>1. /\ apply.d # 0 /\ apply.at = "grant"
      /\ grants' = [grants EXCEPT ![apply.d][Extended] = Frozen(apply.d, Extended)]
      /\ Goto("raise")
      /\ UNCHANGED <<answer, status, disciplined, chartered, search, trials, pc, bounds>>
  BY DEF Grant, At
<1>2. apply.d \in Decisions /\ answer[apply.d] # None /\ apply.left # {}
      /\ apply.left \subseteq Programs /\ answer[apply.d].extends \subseteq Programs
  BY <1>1, Current, TypesSplit DEF IInv, ApplyOK
<1>3. apply' \in Applying /\ apply'.d = apply.d /\ apply'.left = apply.left /\ apply'.at = "raise"
  BY <1>1, GotoDoes DEF IInv, Steps
<1>4. Extended \in Programs
  BY <1>2, ExtendedLeft DEF IInv
<1>5. /\ grants' \in [Decisions -> [Programs -> Nat]]
      /\ grants'[apply.d][Extended] # 0
      /\ \A e \in Decisions, q \in Programs : grants[e][q] # 0 => grants'[e][q] # 0
      /\ \A q \in Programs : Cap(q)' \in Nat /\ Cap(q) <= Cap(q)'
      /\ \A q \in Programs, e \in Decisions : grants'[e][q] <= Cap(q)'
  BY <1>1, <1>2, <1>4, GrantDoes
<1>6. StoreOK' /\ SearchOK' /\ TrialsOK' /\ BoundsOK'
  BY <1>1, <1>5, TypesSplit
  DEF IInv, StoreOK, SearchOK, TrialsOK, BoundsOK, search, trials, bounds
<1>7. ApplyOK'
  BY <1>1, <1>2, <1>3 DEF ApplyOK
<1>8. TypeOK'
  BY <1>6, <1>7, TypesSplit
<1>9. Answered' /\ Remembered' /\ Grows
  BY <1>1, <1>5 DEF IInv, Answered, Remembered, Grows, search
<1>10. Progress'
  <2>1. Extended' = Extended
    BY <1>3 DEF Extended
  <2>2. apply'.d \in Decisions
    BY <1>2, <1>3
  <2>q. QED BY <1>1, <1>2, <1>3, <1>5, <2>1 DEF IInv, Progress, Late, search
<1>11. AppliedIsWhole'
  BY <1>1, <1>8, <1>9, WholeKept
<1>12. WithinCap'
  <2> SUFFICES ASSUME NEW q \in Programs
               PROVE  asked'[q] <= Cap(q)' /\ budget'[q] <= Cap(q)'
    BY <1>5 DEF WithinCap
  <2>1. asked[q] \in Nat /\ budget[q] \in Nat /\ Cap(q) \in Nat
    BY CapTyped, TypesSplit DEF IInv, TrialsOK, SearchOK
  <2>2. Cap(q)' \in Nat
    BY <1>5
  <2>3. asked[q] <= Cap(q) /\ budget[q] <= Cap(q) /\ Cap(q) <= Cap(q)'
    BY <1>5 DEF IInv, WithinCap
  <2>q. QED BY <1>1, <2>1, <2>2, <2>3 DEF search, trials
<1>q. QED BY <1>8, <1>9, <1>10, <1>11, <1>12 DEF IInv

\* The frozen budget comes into force.
LEMMA RaiseKeeps ==
    ASSUME IInv, Raise
    PROVE  IInv'
<1>1. /\ apply.d # 0 /\ apply.at = "raise"
      /\ budget' = [budget EXCEPT ![Extended] = grants[apply.d][Extended]]
      /\ apply' = [apply EXCEPT !.left = @ \ {Extended},
                                !.at = IF apply.left = {Extended} THEN "retire" ELSE "grant"]
      /\ UNCHANGED <<store, retiredFile, retired, trials, pc, bounds>>
  BY DEF Raise, At
<1>2. apply.d \in Decisions /\ answer[apply.d] # None /\ apply.left # {}
      /\ apply.left \subseteq Programs
  BY <1>1, Current, TypesSplit DEF IInv, ApplyOK
<1>3. Extended \in Programs /\ Extended \in apply.left
  BY <1>2, ExtendedLeft DEF IInv
<1>4. /\ apply' \in Applying /\ apply'.d = apply.d
      /\ apply'.left = apply.left \ {Extended}
      /\ apply'.at \in {"grant", "retire"}
      /\ apply'.at = "grant" => apply.left # {Extended}
      /\ apply'.at = "retire" => apply.left = {Extended}
  BY <1>1, TypesSplit DEF IInv, ApplyOK, Applying, Steps
<1>5. grants[apply.d][Extended] \in Nat /\ grants[apply.d][Extended] # 0
      /\ grants[apply.d][Extended] <= Cap(Extended)
  BY <1>1, <1>2, <1>3, TypesSplit DEF IInv, Progress, StoreOK, WithinCap
<1>6. /\ budget' \in [Programs -> Nat]
      /\ \A p \in Programs : budget[p] # 0 => budget'[p] # 0
      /\ \A p \in Programs : budget'[p] = budget[p] \/ budget'[p] <= Cap(p)
  BY <1>1, <1>3, <1>5, TypesSplit DEF IInv, SearchOK
<1>7. StoreOK' /\ SearchOK' /\ TrialsOK' /\ BoundsOK'
  BY <1>1, <1>6, TypesSplit
  DEF IInv, StoreOK, SearchOK, TrialsOK, BoundsOK, store, trials, bounds
<1>8. ApplyOK'
  BY <1>1, <1>2, <1>3, <1>4 DEF ApplyOK, store
<1>9. TypeOK'
  BY <1>7, <1>8, TypesSplit
<1>10. Answered' /\ Remembered' /\ Grows
  BY <1>1, <1>6 DEF IInv, Answered, Remembered, Grows, store
<1>11. Progress'
  <2>1. UNCHANGED <<answer, disciplined, chartered, grants>>
    BY <1>1 DEF store
  <2>2. apply.d \in Programs
    BY <1>2, Numbered
  <2>q. QED BY <1>1, <1>2, <1>4, <1>5, <1>6, <2>1, <2>2 DEF IInv, Progress, Late
<1>12. AppliedIsWhole' /\ WithinCap'
  BY <1>1, <1>6, <1>9, <1>10, WholeKept, CapsKept DEF store, trials
<1>q. QED BY <1>9, <1>10, <1>11, <1>12 DEF IInv

\* The retirements are remembered and written.
LEMMA RetireKeeps ==
    ASSUME IInv, Retire
    PROVE  IInv'
<1>1. /\ apply.d # 0 /\ apply.at = "retire"
      /\ retired' = retired \cup answer[apply.d].retires
      /\ retiredFile' = retired'
      /\ Goto("complete")
      /\ UNCHANGED <<store, budget, trials, pc, bounds>>
  BY DEF Retire, At
<1>2. apply.d \in Decisions /\ answer[apply.d] # None /\ answer[apply.d].retires \subseteq Programs
  BY <1>1, Current, TypesSplit DEF IInv, ApplyOK
<1>3. apply' \in Applying /\ apply'.d = apply.d /\ apply'.left = apply.left /\ apply'.at = "complete"
  BY <1>1, GotoDoes DEF IInv, Steps
<1>4. StoreOK' /\ SearchOK' /\ TrialsOK' /\ BoundsOK'
  BY <1>1, <1>2, TypesSplit
  DEF IInv, StoreOK, SearchOK, TrialsOK, BoundsOK, store, trials, bounds
<1>5. ApplyOK'
  BY <1>1, <1>2, <1>3 DEF ApplyOK, store
<1>6. TypeOK'
  BY <1>4, <1>5, TypesSplit
<1>7. Answered' /\ Remembered' /\ Grows
  BY <1>1 DEF IInv, Answered, Remembered, Grows, store
<1>8. Progress'
  <2>1. UNCHANGED <<answer, disciplined, chartered, grants, budget>>
    BY <1>1 DEF store
  <2>q. QED BY <1>1, <1>3, <2>1 DEF IInv, Progress, Late
<1>9. AppliedIsWhole' /\ WithinCap'
  BY <1>1, <1>6, <1>7, WholeKept, CapsKept DEF store, trials
<1>q. QED BY <1>6, <1>7, <1>8, <1>9 DEF IInv

\* The decision counts as applied, and is whole.
LEMMA CompleteKeeps ==
    ASSUME IInv, Complete
    PROVE  IInv'
<1>1. /\ apply.d # 0 /\ apply.at = "complete"
      /\ status' = [status EXCEPT ![apply.d] = "applied"]
      /\ apply' = Idle
      /\ UNCHANGED <<answer, disciplined, chartered, grants, search, trials, pc, bounds>>
  BY DEF Complete, At
<1>2. apply.d \in Decisions /\ answer[apply.d] # None
  BY <1>1, Current, TypesSplit DEF IInv, ApplyOK
<1>3. /\ status' \in [Decisions -> {"none", "recorded", "applied"}]
      /\ \A e \in Decisions : e # apply.d => status'[e] = status[e]
  BY <1>1, <1>2, TypesSplit DEF IInv, StoreOK
<1>4. StoreOK' /\ SearchOK' /\ TrialsOK' /\ BoundsOK'
  BY <1>1, <1>3, TypesSplit
  DEF IInv, StoreOK, SearchOK, TrialsOK, BoundsOK, search, trials, bounds
<1>5. TypeOK' /\ Progress'
  BY <1>1, <1>4, IdleProgress, TypesSplit
<1>6. Answered' /\ Remembered'
  BY <1>1, <1>2, <1>3 DEF IInv, Answered, Remembered, search
<1>7. AppliedIsWhole'
  <2>1. apply.d \in Programs /\ budget[apply.d] \in Nat
    BY <1>2, Numbered, TypesSplit DEF IInv, SearchOK
  <2>2. /\ apply.d \in disciplined
        /\ answer[apply.d].signature # None => apply.d \in chartered /\ apply.d \in Registered
        /\ \A p \in answer[apply.d].extends : grants[apply.d][p] # 0
        /\ answer[apply.d].retires \subseteq retiredFile
    BY <1>1, <2>1 DEF IInv, Progress, Late, Registered
  <2>3. UNCHANGED <<answer, disciplined, chartered, grants, budget, retiredFile>>
        /\ Registered' = Registered
    BY <1>1 DEF search, Registered
  <2>4. ASSUME NEW e \in Decisions, status'[e] = "applied"
        PROVE  /\ e \in disciplined
               /\ answer[e].signature # None => e \in chartered /\ e \in Registered
               /\ \A p \in answer[e].extends : grants[e][p] # 0
               /\ answer[e].retires \subseteq retiredFile
    BY <1>3, <2>2, <2>4 DEF IInv, AppliedIsWhole
  <2>q. QED BY <2>3, <2>4 DEF AppliedIsWhole
<1>8. WithinCap'
  BY <1>1, CapsKept DEF search, trials
<1>q. QED BY <1>5, <1>6, <1>7, <1>8 DEF IInv

\* What a step that ends the application, or finds none, keeps.
LEMMA AbandonKeeps ==
    ASSUME IInv, apply' = Idle, UNCHANGED <<store, budget, retiredFile, trials>>,
           retired' \subseteq Programs, retiredFile \subseteq retired', BoundsOK'
    PROVE  IInv'
<1>1. StoreOK' /\ SearchOK' /\ TrialsOK'
  BY TypesSplit DEF IInv, StoreOK, SearchOK, TrialsOK, store, trials
<1>2. TypeOK' /\ Progress'
  BY <1>1, IdleProgress, TypesSplit
<1>3. Answered' /\ Remembered' /\ Grows
  BY DEF IInv, Answered, Remembered, Grows, store
<1>4. AppliedIsWhole' /\ WithinCap'
  BY <1>2, <1>3, WholeKept, CapsKept DEF store, trials
<1>q. QED BY <1>2, <1>3, <1>4 DEF IInv

\* The decision is refused.
LEMMA RejectKeeps ==
    ASSUME IInv, Reject
    PROVE  IInv'
<1>1. apply' = Idle /\ UNCHANGED <<store, search, trials, bounds>>
      /\ pc' = IF pc = "replaying" THEN "refused" ELSE pc
  BY DEF Reject
<1>2. BoundsOK'
  BY <1>1, TypesSplit DEF IInv, BoundsOK, bounds
<1>3. retired' \subseteq Programs /\ retiredFile \subseteq retired'
  BY <1>1, TypesSplit DEF IInv, SearchOK, Remembered, search
<1>q. QED BY <1>1, <1>2, <1>3, AbandonKeeps DEF search

\* A write is refused; the retirements may have reached the memory.
LEMMA FaultKeeps ==
    ASSUME IInv, Fault
    PROVE  IInv'
<1>1. /\ apply' = Idle /\ apply # Idle
      /\ UNCHANGED <<store, budget, retiredFile, trials, crashes>>
      /\ faults < MaxFaults /\ faults' = faults + 1
      /\ pc' = IF pc = "replaying" THEN "down" ELSE pc
      /\ retired' = IF apply.at = "retire" THEN retired \cup answer[apply.d].retires ELSE retired
  BY DEF Fault
<1>2. BoundsOK'
  BY <1>1, BoundAssumption, TypesSplit DEF IInv, BoundsOK
<1>3. retired \subseteq Programs /\ retiredFile \subseteq retired
  BY TypesSplit DEF IInv, SearchOK, Remembered
<1>4. apply.at = "retire" => answer[apply.d].retires \subseteq Programs
  BY <1>1, Current DEF IInv, Progress
<1>5. retired' \subseteq Programs /\ retiredFile \subseteq retired'
  BY <1>1, <1>3, <1>4
<1>q. QED BY <1>1, <1>2, <1>5, AbandonKeeps

\* A trial is asked within the budget.
LEMMA AskKeeps ==
    ASSUME IInv, NEW p \in Programs, Ask(p)
    PROVE  IInv'
<1>1. /\ apply' = Idle /\ asked[p] < budget[p]
      /\ asked' = [asked EXCEPT ![p] = @ + 1]
      /\ running' = running \cup {p}
      /\ UNCHANGED <<store, search, pc, bounds>>
  BY DEF Ask
<1>2. asked \in [Programs -> Nat] /\ budget[p] \in Nat /\ budget[p] <= Cap(p) /\ Cap(p) \in Nat
  BY CapTyped, TypesSplit DEF IInv, TrialsOK, SearchOK, WithinCap
<1>3. asked' \in [Programs -> Nat] /\ asked'[p] <= Cap(p)
      /\ \A q \in Programs : q # p => asked'[q] = asked[q]
  BY <1>1, <1>2
<1>4. StoreOK' /\ SearchOK' /\ TrialsOK' /\ BoundsOK'
  BY <1>1, <1>3, TypesSplit
  DEF IInv, StoreOK, SearchOK, TrialsOK, BoundsOK, store, search, bounds
<1>5. TypeOK' /\ Progress'
  BY <1>1, <1>4, IdleProgress, TypesSplit
<1>6. Answered' /\ Remembered' /\ Grows
  BY <1>1 DEF IInv, Answered, Remembered, Grows, store, search
<1>7. AppliedIsWhole' /\ WithinCap'
  BY <1>1, <1>3, <1>5, <1>6, WholeKept, CapsKept DEF store, search
<1>q. QED BY <1>5, <1>6, <1>7 DEF IInv

\* Its attempt ends.
LEMMA FinishKeeps ==
    ASSUME IInv, NEW p \in Programs, Finish(p)
    PROVE  IInv'
<1>1. /\ apply' = Idle /\ running' = running \ {p}
      /\ UNCHANGED <<store, search, asked, pc, bounds>>
  BY DEF Finish
<1>2. StoreOK' /\ SearchOK' /\ TrialsOK' /\ BoundsOK'
  BY <1>1, TypesSplit
  DEF IInv, StoreOK, SearchOK, TrialsOK, BoundsOK, store, search, bounds
<1>3. TypeOK' /\ Progress'
  BY <1>1, <1>2, IdleProgress, TypesSplit
<1>4. Answered' /\ Remembered' /\ Grows
  BY <1>1 DEF IInv, Answered, Remembered, Grows, store, search
<1>5. AppliedIsWhole' /\ WithinCap'
  BY <1>1, <1>3, <1>4, WholeKept, CapsKept DEF store, search
<1>q. QED BY <1>3, <1>4, <1>5 DEF IInv

\* The campaign dies.
LEMMA CrashKeeps ==
    ASSUME IInv, Crash
    PROVE  IInv'
<1>1. /\ apply' = Idle /\ pc' = "down" /\ crashes < MaxCrashes /\ crashes' = crashes + 1
      /\ UNCHANGED <<store, search, trials, faults>>
  BY DEF Crash
<1>2. BoundsOK'
  BY <1>1, BoundAssumption, TypesSplit DEF IInv, BoundsOK
<1>3. retired' \subseteq Programs /\ retiredFile \subseteq retired'
  BY <1>1, TypesSplit DEF IInv, SearchOK, Remembered, search
<1>q. QED BY <1>1, <1>2, <1>3, AbandonKeeps DEF search

\* It is started again, with what the file remembers.
LEMMA StartKeeps ==
    ASSUME IInv, Start
    PROVE  IInv'
<1>1. /\ apply' = apply /\ pc' = "replaying" /\ retired' = retiredFile
      /\ UNCHANGED <<store, budget, retiredFile, trials, bounds>>
  BY DEF Start
<1>2. StoreOK' /\ SearchOK' /\ TrialsOK' /\ BoundsOK' /\ ApplyOK'
  BY <1>1, TypesSplit
  DEF IInv, StoreOK, SearchOK, TrialsOK, BoundsOK, ApplyOK, store, trials, bounds
<1>3. TypeOK'
  BY <1>2, TypesSplit
<1>4. Answered' /\ Remembered' /\ Grows
  BY <1>1 DEF IInv, Answered, Remembered, Grows, store
<1>5. Progress'
  <2>1. UNCHANGED <<answer, disciplined, chartered, grants>> /\ Extended' = Extended
    BY <1>1 DEF store, Extended
  <2>q. QED BY <1>1, <2>1 DEF IInv, Progress, Late
<1>6. AppliedIsWhole' /\ WithinCap'
  BY <1>1, <1>3, <1>4, WholeKept, CapsKept DEF store, trials
<1>q. QED BY <1>3, <1>4, <1>5, <1>6 DEF IInv

\* Nothing happens.
LEMMA StutterKeeps ==
    ASSUME IInv, UNCHANGED vars
    PROVE  IInv'
<1>1. UNCHANGED <<answer, status, disciplined, chartered, grants, budget, retiredFile,
                  retired, asked, running, apply, pc, faults, crashes>>
  BY DEF vars, store, search, trials, bounds
<1>2. TypeOK' /\ Answered' /\ Remembered'
  BY <1>1 DEF IInv, TypeOK, Answered, Remembered
<1>3. Progress'
  <2>1. Extended' = Extended
    BY <1>1 DEF Extended
  <2>q. QED BY <1>1, <2>1 DEF IInv, Progress, Late
<1>4. AppliedIsWhole'
  BY <1>1 DEF IInv, AppliedIsWhole, Registered
<1>5. WithinCap'
  BY <1>1, CapsKept
<1>q. QED BY <1>2, <1>3, <1>4, <1>5 DEF IInv

-----------------------------------------------------------------------------
(***************************************************************************)
(* The theorems.                                                           *)
(***************************************************************************)

LEMMA InitInv == Init => IInv
<1> SUFFICES ASSUME Init PROVE IInv
  OBVIOUS
<1>1. StoreOK
  BY DEF Init, StoreOK
<1>2. SearchOK /\ TrialsOK
  BY DEF Init, SearchOK, TrialsOK, Base
<1>3. apply = Idle /\ ApplyOK
  BY IdleTyped DEF Init, ApplyOK
<1>4. BoundsOK
  BY BoundAssumption DEF Init, BoundsOK
<1>5. Answered /\ Remembered /\ AppliedIsWhole
  BY DEF Init, Answered, Remembered, AppliedIsWhole
<1>6. Progress
  BY <1>3, IdleTyped DEF Progress
<1>7. WithinCap
  <2> SUFFICES ASSUME NEW p \in Programs
               PROVE  /\ asked[p] <= Cap(p) /\ budget[p] <= Cap(p)
                      /\ \A d \in Decisions : grants[d][p] <= Cap(p)
    BY DEF WithinCap
  <2>1. asked[p] = 0 /\ budget[p] \in {0, Base} /\ \A d \in Decisions : grants[d][p] = 0
    BY DEF Init
  <2>q. QED BY <2>1, CapTyped DEF Base
<1>q. QED BY <1>1, <1>2, <1>3, <1>4, <1>5, <1>6, <1>7, TypesSplit DEF IInv

LEMMA NextKeeps == IInv /\ [Next]_vars => IInv'
<1> SUFFICES ASSUME IInv, [Next]_vars PROVE IInv'
  OBVIOUS
<1>1. CASE UNCHANGED vars
  BY <1>1, StutterKeeps
<1>2. ASSUME NEW d \in Decisions, Recover(d) \/ \E a \in Answers : Receive(d, a)
      PROVE  IInv'
  BY <1>2, RecoverKeeps, ReceiveKeeps
<1>3. CASE Admit \/ Reject \/ Discipline \/ Register \/ Charter
  BY <1>3, AdmitKeeps, RejectKeeps, DisciplineKeeps, RegisterKeeps, CharterKeeps
<1>4. CASE Grant \/ Raise \/ Retire \/ Complete \/ Fault
  BY <1>4, GrantKeeps, RaiseKeeps, RetireKeeps, CompleteKeeps, FaultKeeps
<1>5. ASSUME NEW p \in Programs, Ask(p) \/ Finish(p)
      PROVE  IInv'
  BY <1>5, AskKeeps, FinishKeeps
<1>6. CASE Crash \/ Start \/ Replay
  BY <1>6, CrashKeeps, StartKeeps, ReplayKeeps
<1>q. QED BY <1>1, <1>2, <1>3, <1>4, <1>5, <1>6 DEF Next

\* The inductive invariant holds in every reachable state.
THEOREM Inductive == Spec => []IInv
<1>1. Init => IInv
  BY InitInv
<1>2. IInv /\ [Next]_vars => IInv'
  BY NextKeeps
<1>q. QED BY <1>1, <1>2, PTL DEF Spec

\* Type correctness: what apply_decision works on was answered, and an extension
\* is worked on only while one is left.
THEOREM TypeCorrect == Spec => []TypeOK
<1>1. IInv => TypeOK
  BY DEF IInv
<1>q. QED BY <1>1, Inductive, PTL

\* An applied decision left nothing undone, whatever was refused or died while
\* apply_decision ran and however often it was replayed.
THEOREM AppliedWhole == Spec => []AppliedIsWhole
<1>1. IInv => AppliedIsWhole
  BY DEF IInv
<1>q. QED BY <1>1, Inductive, PTL

\* No number of replays grants an extension twice.
THEOREM WithinGrants == Spec => []SpentWithinGrants
<1>1. IInv => SpentWithinGrants
  BY DEF IInv, WithinCap, Cap, Granted, SpentWithinGrants
<1>q. QED BY <1>1, Inductive, PTL

\* Only Ask asks trials.
LEMMA AskedByAsk ==
    ASSUME [Next]_vars
    PROVE  asked' = asked \/ \E p \in Programs : Ask(p)
BY DEF Next, vars, trials, Receive, Recover, Admit, Reject, Discipline, Register,
   Charter, Grant, Raise, Retire, Complete, Fault, Finish, Crash, Start, Replay

\* A program that an applied decision retired is never asked again: the file
\* holds it, and the controller's copy never lags behind the file.
THEOREM RetiredStop == Spec => RetiredStops
<1>1. ASSUME IInv, [Next]_vars, NEW p \in Programs, asked'[p] # asked[p],
             NEW d \in Decisions, status[d] = "applied"
      PROVE  p \notin answer[d].retires
  <2>1. PICK q \in Programs : Ask(q)
    BY <1>1, AskedByAsk
  <2>2. q = p
    BY <1>1, <2>1, TypesSplit DEF IInv, TrialsOK, Ask
  <2>3. p \notin retired
    BY <2>1, <2>2 DEF Ask
  <2>4. answer[d].retires \subseteq retired
    BY <1>1 DEF IInv, AppliedIsWhole, Remembered
  <2>q. QED BY <2>3, <2>4
<1>2. IInv /\ [Next]_vars =>
        [\A p \in Programs : asked'[p] # asked[p] =>
           \A d \in Decisions : status[d] = "applied" => p \notin answer[d].retires]_vars
  BY <1>1
<1>q. QED BY <1>2, Inductive, PTL DEF Spec, RetiredStops
=============================================================================
