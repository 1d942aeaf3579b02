-------------------------- MODULE TrialLedgerProofs --------------------------
(***************************************************************************)
(* The Optuna journal and the ledger agree about every outcome, an         *)
(* accepted result is kept, and no recipe is fitted twice, for every       *)
(* number of programs, recipes, asks, deaths and storage failures.         *)
(*                                                                         *)
(* None of these facts is inductive alone: that the stores agree when a    *)
(* row is told rests on whose trial a row is (RowInv), which rests on what *)
(* the interrupted ask had written (TrialInv, PcInv); that a result is     *)
(* kept rests on which rows can have a fit in flight (FitInv).             *)
(***************************************************************************)
EXTENDS TrialLedger, FiniteSetTheorems, TLAPS

OwnTrial(r) == trials[attempt[r].owner[1]][attempt[r].owner[2]]

(* A row has a whole trial of its recipe, running until it is told.        *)
RowOK(r) ==
    /\ attempt[r].status = "absent" => attempt[r] = NoRow
    /\ attempt[r].status # "absent" =>
         /\ attempt[r].owner \in Owners
         /\ OwnTrial(r).attrs = 3
         /\ OwnTrial(r).recipe = r
         /\ OwnTrial(r).state \in {"running", "complete", "fail"}
    /\ attempt[r].status \notin Terminal => attempt[r].result = None
    /\ attempt[r].status = "failed" => attempt[r].result = Failure
    /\ attempt[r].status = "completed" => attempt[r].result \in Values
    /\ attempt[r].told => /\ attempt[r].status \in Terminal
                          /\ OwnTrial(r).state # "running"

RowInv == \A r \in Recipes : RowOK(r)

(* A trial has a recipe once it has an attribute, and an outcome only if   *)
(* it is its row's or it never was a recipe.                               *)
TrialOK(p, n) ==
    /\ trials[p][n].state = "absent" => trials[p][n] = NoTrial
    /\ trials[p][n].attrs > 0 => trials[p][n].recipe \in Recipes
    /\ trials[p][n].state = "complete" => trials[p][n].attrs = 3
    /\ trials[p][n].attrs = 3 /\ trials[p][n].state \in {"complete", "fail"} =>
         /\ attempt[trials[p][n].recipe].owner = <<p, n>>
         /\ attempt[trials[p][n].recipe].status =
              IF trials[p][n].state = "fail" THEN "failed" ELSE "completed"
         /\ trials[p][n].state = "complete" =>
              attempt[trials[p][n].recipe].result = trials[p][n].value

TrialInv == \A p \in Programs, n \in Numbers : TrialOK(p, n)

(* What the controller is in the middle of.                                *)
PcInv ==
    /\ \A p \in Programs, n \in Numbers :
         /\ pc = AtTrial("ask", p, n) => /\ trials[p][n].state = "running"
                                         /\ \A r \in Recipes :
                                              attempt[r].status # "absent" =>
                                                attempt[r].owner # <<p, n>>
         /\ pc = AtTrial("reserve", p, n) =>
              /\ trials[p][n].state = "running"
              /\ trials[p][n].attrs = 3
              /\ attempt[trials[p][n].recipe].status = "absent"
    /\ \A r \in Recipes :
         /\ pc = AtRecipe("submitted", r) => attempt[r].status = "reserved"
         /\ pc = AtRecipe("told", r) => /\ attempt[r].status \in Terminal
                                        /\ OwnTrial(r).state # "running"

(* Only a running row, or the one just submitted, has a fit.               *)
FitInv ==
    \A r \in Recipes :
        /\ fit[r] # "none" =>
             /\ pc.at \notin {"down", "recover"}
             /\ attempt[r].status = "running" \/ pc = AtRecipe("submitted", r)
        /\ fit[r] = "busy" \/ attempt[r].status = "absent" => published[r] = None
        /\ published[r] # None /\ attempt[r].status \in Terminal => attempt[r].result = published[r]

IInv == TypeOK /\ RowInv /\ TrialInv /\ PcInv /\ FitInv

Journal == [Programs -> [Numbers -> Trial]]
Table == [Recipes -> Row]
PcSet == [at : Phases \cup {"ask", "reserve", "submitted", "told"},
          trial : Owners \cup {None}, recipe : Recipes \cup {None}]

-----------------------------------------------------------------------------
(* How one trial, one row and the pc change.                               *)

LEMMA PcTypes ==
  /\ \A phase \in Phases : At(phase) \in PcSet
  /\ \A p \in Programs, n \in Numbers :
       AtTrial("ask", p, n) \in PcSet /\ AtTrial("reserve", p, n) \in PcSet
  /\ \A r \in Recipes :
       AtRecipe("submitted", r) \in PcSet /\ AtRecipe("told", r) \in PcSet
  BY DEF PcSet, Phases, At, AtTrial, AtRecipe, Owners

(* pc values are told apart by their fields.                               *)
LEMMA PcFields ==
  /\ \A phase : At(phase).at = phase
  /\ \A phase, p, n : AtTrial(phase, p, n).at = phase /\ AtTrial(phase, p, n).trial = <<p, n>>
  /\ \A phase, r : AtRecipe(phase, r).at = phase /\ AtRecipe(phase, r).recipe = r
  BY DEF At, AtTrial, AtRecipe

(* Between two handlers PcInv asks nothing.                                *)
LEMMA PcIdle ==
  ASSUME pc.at \in Phases
  PROVE  PcInv
  BY PcFields DEF PcInv, Phases

LEMMA PcIdleNext ==
  ASSUME pc'.at \in Phases
  PROVE  PcInv'
  BY PcFields DEF PcInv, Phases

LEMMA TypeParts ==
  TypeOK <=> /\ trials \in Journal
             /\ attempt \in Table
             /\ published \in [Recipes -> Results \cup {None}]
             /\ fit \in [Recipes -> FitStates]
             /\ pc \in PcSet
             /\ crashes \in 0..MaxCrashes
             /\ blocks \in 0..MaxBlocks
  BY DEF TypeOK, Journal, Table, PcSet

LEMMA SetTrial ==
  ASSUME NEW journal \in Journal, NEW p \in Programs, NEW n \in Numbers, NEW t \in Trial
  PROVE  /\ [journal EXCEPT ![p][n] = t] \in Journal
         /\ [journal EXCEPT ![p][n] = t][p][n] = t
         /\ \A q \in Programs, m \in Numbers :
              q # p \/ m # n => [journal EXCEPT ![p][n] = t][q][m] = journal[q][m]
  BY DEF Journal

-----------------------------------------------------------------------------
(* A row that keeps its fields, and whose trial does not change, stays OK. *)
LEMMA RowKept ==
  ASSUME NEW r \in Recipes, RowOK(r), attempt'[r] = attempt[r],
         attempt[r].status = "absent" \/ OwnTrial(r)' = OwnTrial(r)
  PROVE  RowOK(r)'
  <1>1. CASE attempt[r].status = "absent"
    BY <1>1 DEF RowOK, Terminal
  <1>2. CASE OwnTrial(r)' = OwnTrial(r)
    BY <1>2 DEF RowOK
  <1> QED BY <1>1, <1>2

LEMMA RowsKept ==
  ASSUME IInv, UNCHANGED <<trials, attempt>>
  PROVE  RowInv' /\ TrialInv'
  <1>1. ASSUME NEW r \in Recipes PROVE RowOK(r)'
    <2>1. OwnTrial(r)' = OwnTrial(r)
      BY DEF OwnTrial
    <2>2. RowOK(r)
      BY DEF IInv, RowInv
    <2> QED BY <2>1, <2>2, RowKept
  <1>2. ASSUME NEW p \in Programs, NEW n \in Numbers PROVE TrialOK(p, n)'
    <2>1. TrialOK(p, n)
      BY DEF IInv, TrialInv
    <2> QED BY <2>1 DEF TrialOK
  <1> QED BY <1>1, <1>2 DEF RowInv, TrialInv

(* One row changes and the trials do not: only that row is in question.    *)
LEMMA OneRowChanged ==
  ASSUME IInv, NEW r \in Recipes, UNCHANGED trials, RowOK(r)',
         \A s \in Recipes \ {r} : attempt'[s] = attempt[s]
  PROVE  RowInv'
  <1>1. ASSUME NEW s \in Recipes, s # r PROVE RowOK(s)'
    <2>1. attempt'[s] = attempt[s]
      BY <1>1
    <2>2. OwnTrial(s)' = OwnTrial(s)
      BY <2>1 DEF OwnTrial
    <2>3. RowOK(s)
      BY DEF IInv, RowInv
    <2> QED BY <2>1, <2>2, <2>3, RowKept
  <1> QED BY <1>1 DEF RowInv

-----------------------------------------------------------------------------
(* complete_attempt of an open row: Resume, FailFold, Complete, RecoverRow. *)
LEMMA CompletedRow ==
  ASSUME IInv, NEW r \in Recipes, NEW result \in Results,
         attempt[r].status \in {"reserved", "running"},
         attempt' = Completed(r, result), UNCHANGED trials
  PROVE  /\ attempt' \in Table
         /\ attempt'[r].status \in Terminal
         /\ attempt'[r].result = result
         /\ attempt'[r].owner = attempt[r].owner
         /\ \A s \in Recipes \ {r} : attempt'[s] = attempt[s]
         /\ RowInv'
         /\ TrialInv'
  <1> DEFINE row == [attempt[r] EXCEPT
                       !.status = IF result = Failure THEN "failed" ELSE "completed",
                       !.result = result]
  <1>1. attempt \in Table /\ attempt[r] \in Row
    BY TypeParts DEF IInv, Table
  <1>2. /\ row \in Row
        /\ row.status = IF result = Failure THEN "failed" ELSE "completed"
        /\ row.result = result
        /\ row.owner = attempt[r].owner
        /\ row.told = attempt[r].told
    BY <1>1 DEF Row, Terminal
  <1>3. attempt' = [attempt EXCEPT ![r] = row]
    BY <1>1 DEF Completed, Terminal, Table
  <1> HIDE DEF row
  <1>4. /\ attempt' \in Table
        /\ attempt'[r] = row
        /\ \A s \in Recipes \ {r} : attempt'[s] = attempt[s]
    BY <1>1, <1>2, <1>3 DEF Table
  <1>5. attempt[r].told = FALSE
    BY <1>1 DEF IInv, RowInv, RowOK, Terminal, Row
  <1>6. RowInv'
    <2>1. OwnTrial(r)' = OwnTrial(r)
      BY <1>2, <1>4 DEF OwnTrial
    <2>2. RowOK(r)
      BY DEF IInv, RowInv
    <2>3. RowOK(r)'
      BY <1>2, <1>4, <1>5, <2>1, <2>2, ResultAssumption DEF RowOK, Terminal, Results
    <2> QED BY <1>4, <2>3, OneRowChanged
  <1>7. TrialInv'
    BY <1>2, <1>4 DEF IInv, TrialInv, TrialOK
  <1> QED BY <1>2, <1>4, <1>6, <1>7 DEF Terminal

(* defer_infrastructure of an open row.                                    *)
LEMMA DeferredRow ==
  ASSUME IInv, NEW r \in Recipes, attempt[r].status \in {"reserved", "running"},
         attempt' = Deferred(r), UNCHANGED trials
  PROVE  /\ attempt' \in Table
         /\ attempt'[r].status = "reserved"
         /\ attempt'[r].owner = attempt[r].owner
         /\ \A s \in Recipes \ {r} : attempt'[s] = attempt[s]
         /\ RowInv'
         /\ TrialInv'
  <1> DEFINE row == [attempt[r] EXCEPT !.status = "reserved"]
  <1>1. attempt \in Table /\ attempt[r] \in Row
    BY TypeParts DEF IInv, Table
  <1>2. /\ row \in Row
        /\ row.status = "reserved"
        /\ row.result = attempt[r].result
        /\ row.owner = attempt[r].owner
        /\ row.told = attempt[r].told
    BY <1>1 DEF Row, Terminal
  <1>3. attempt' = [attempt EXCEPT ![r] = row]
    BY <1>1 DEF Deferred, Table
  <1> HIDE DEF row
  <1>4. /\ attempt' \in Table
        /\ attempt'[r] = row
        /\ \A s \in Recipes \ {r} : attempt'[s] = attempt[s]
    BY <1>1, <1>2, <1>3 DEF Table
  <1>5. attempt[r].told = FALSE /\ attempt[r].result = None
    BY <1>1 DEF IInv, RowInv, RowOK, Terminal, Row
  <1>6. RowInv'
    <2>1. OwnTrial(r)' = OwnTrial(r)
      BY <1>2, <1>4 DEF OwnTrial
    <2>2. RowOK(r)
      BY DEF IInv, RowInv
    <2>3. RowOK(r)'
      BY <1>2, <1>4, <1>5, <2>1, <2>2 DEF RowOK, Terminal
    <2> QED BY <1>4, <2>3, OneRowChanged
  <1>7. TrialInv'
    <2> SUFFICES ASSUME NEW p \in Programs, NEW n \in Numbers,
                        trials[p][n].attrs = 3, trials[p][n].state \in {"complete", "fail"}
                 PROVE  trials[p][n].recipe \in Recipes \ {r}
      BY <1>4 DEF IInv, TrialInv, TrialOK
    <2> QED BY DEF IInv, TrialInv, TrialOK
  <1> QED BY <1>2, <1>4, <1>6, <1>7

(* reserve_attempt of a whole running trial whose recipe has no row.       *)
LEMMA ReservedRow ==
  ASSUME IInv, NEW p \in Programs, NEW n \in Numbers, NEW r \in Recipes,
         trials[p][n].state = "running", trials[p][n].attrs = 3,
         trials[p][n].recipe = r,
         attempt[r].status = "absent",
         attempt' = Reserved(attempt, r, <<p, n>>), UNCHANGED trials
  PROVE  /\ attempt' \in Table
         /\ attempt'[r].status = "reserved"
         /\ attempt'[r].owner = <<p, n>>
         /\ \A s \in Recipes \ {r} : attempt'[s] = attempt[s]
         /\ RowInv'
         /\ TrialInv'
  <1> DEFINE row == [NoRow EXCEPT !.status = "reserved", !.owner = <<p, n>>]
  <1>1. attempt \in Table
    BY TypeParts DEF IInv
  <1>2. /\ row \in Row
        /\ row.status = "reserved"
        /\ row.result = None
        /\ row.owner = <<p, n>>
        /\ row.told = FALSE
    BY DEF Row, NoRow, Owners
  <1>3. attempt' = [attempt EXCEPT ![r] = row]
    BY DEF Reserved
  <1> HIDE DEF row
  <1>4. /\ attempt' \in Table
        /\ attempt'[r] = row
        /\ \A s \in Recipes \ {r} : attempt'[s] = attempt[s]
    BY <1>1, <1>2, <1>3 DEF Table
  <1>5. <<p, n>>[1] = p /\ <<p, n>>[2] = n /\ <<p, n>> \in Owners
    BY DEF Owners
  <1>6. RowInv'
    <2>1. OwnTrial(r)' = trials[p][n]
      BY <1>2, <1>4, <1>5 DEF OwnTrial
    <2>2. RowOK(r)'
      BY <1>2, <1>4, <1>5, <2>1 DEF RowOK, Terminal
    <2> QED BY <1>4, <2>2, OneRowChanged
  <1>7. TrialInv'
    BY <1>2, <1>4 DEF IInv, TrialInv, TrialOK
  <1> QED BY <1>2, <1>4, <1>6, <1>7

(* Retiring the half-written asks touches no row's trial.                  *)
LEMMA RetiredTrials ==
  ASSUME IInv, trials' = RetireIncomplete, UNCHANGED attempt
  PROVE  trials' \in Journal /\ RowInv' /\ TrialInv'
  <1>1. trials \in Journal
    BY TypeParts DEF IInv
  <1>2. ASSUME NEW p \in Programs, NEW n \in Numbers
        PROVE  /\ trials'[p][n] \in Trial
               /\ trials'[p][n].attrs = trials[p][n].attrs
               /\ trials'[p][n].recipe = trials[p][n].recipe
               /\ trials'[p][n].value = trials[p][n].value
               /\ \/ trials'[p][n] = trials[p][n]
                  \/ trials[p][n].state = "running" /\ trials[p][n].attrs # 3
                     /\ trials'[p][n].state = "pruned"
    <2>1. trials[p][n] \in Trial
      BY <1>1 DEF Journal
    <2>2. trials'[p][n] = IF trials[p][n].state = "running" /\ trials[p][n].attrs # 3
                          THEN [trials[p][n] EXCEPT !.state = "pruned"] ELSE trials[p][n]
      BY DEF RetireIncomplete, Running, Whole
    <2> QED BY <2>1, <2>2 DEF Trial, TrialStates
  <1>3. trials' \in Journal
    BY <1>2 DEF RetireIncomplete, Journal
  <1>4. RowInv'
    <2> SUFFICES ASSUME NEW r \in Recipes, attempt[r].status # "absent"
                 PROVE  OwnTrial(r)' = OwnTrial(r)
      BY DEF IInv, RowInv, RowOK, Terminal
    <2>1. /\ attempt[r].owner[1] \in Programs /\ attempt[r].owner[2] \in Numbers
          /\ OwnTrial(r).attrs = 3
      BY DEF IInv, RowInv, RowOK, Owners
    <2> QED BY <2>1, <1>2 DEF OwnTrial
  <1>5. TrialInv'
    <2> SUFFICES ASSUME NEW p \in Programs, NEW n \in Numbers
                 PROVE  TrialOK(p, n)'
      BY DEF TrialInv
    <2>1. CASE trials'[p][n] = trials[p][n]
      BY <2>1 DEF IInv, TrialInv, TrialOK
    <2>2. CASE trials'[p][n] # trials[p][n]
      BY <2>2, <1>2 DEF IInv, TrialInv, TrialOK
    <2> QED BY <2>1, <2>2
  <1> QED BY <1>3, <1>4, <1>5

(* Changing a trial that no row owns.                                      *)
LEMMA UnownedTrial ==
  ASSUME IInv, NEW p \in Programs, NEW n \in Numbers, NEW t \in Trial,
         trials' = [trials EXCEPT ![p][n] = t], UNCHANGED attempt,
         \A r \in Recipes : attempt[r].status # "absent" => attempt[r].owner # <<p, n>>
  PROVE  /\ trials' \in Journal
         /\ trials'[p][n] = t
         /\ \A q \in Programs, m \in Numbers : q # p \/ m # n => trials'[q][m] = trials[q][m]
         /\ RowInv'
         /\ TrialOK(p, n)' => TrialInv'
  <1>1. trials \in Journal
    BY TypeParts DEF IInv
  <1>2. /\ trials' \in Journal
        /\ trials'[p][n] = t
        /\ \A q \in Programs, m \in Numbers : q # p \/ m # n => trials'[q][m] = trials[q][m]
    BY <1>1 DEF Journal
  <1>3. ASSUME NEW r \in Recipes, attempt[r].status # "absent"
        PROVE  OwnTrial(r)' = OwnTrial(r)
    <2>1. attempt[r].owner \in Owners /\ attempt[r].owner # <<p, n>>
      BY <1>3 DEF IInv, RowInv, RowOK
    <2>2. /\ attempt[r].owner = <<attempt[r].owner[1], attempt[r].owner[2]>>
          /\ attempt[r].owner[1] \in Programs /\ attempt[r].owner[2] \in Numbers
      BY <2>1 DEF Owners
    <2> QED BY <2>1, <2>2, <1>2 DEF OwnTrial
  <1>4. RowInv'
    <2> SUFFICES ASSUME NEW r \in Recipes PROVE RowOK(r)'
      BY DEF RowInv
    <2>1. RowOK(r) /\ attempt'[r] = attempt[r]
      BY DEF IInv, RowInv
    <2> QED BY <2>1, <1>3, RowKept
  <1>5. ASSUME NEW q \in Programs, NEW m \in Numbers, q # p \/ m # n
        PROVE  TrialOK(q, m)'
    <2>1. trials'[q][m] = trials[q][m]
      BY <1>5, <1>2
    <2>2. TrialOK(q, m)
      BY DEF IInv, TrialInv
    <2> QED BY <2>1, <2>2 DEF TrialOK
  <1> QED BY <1>2, <1>4, <1>5 DEF TrialInv

(* Nothing about trials, rows or fits changes between two handlers.        *)
LEMMA IdleStep ==
  ASSUME IInv, UNCHANGED <<trials, attempt, published, fit>>,
         NEW phase \in Phases \ {"down", "recover"}, pc' = At(phase),
         pc.at # "submitted",
         crashes' \in 0..MaxCrashes, blocks' \in 0..MaxBlocks
  PROVE  IInv'
  <1>1. pc' \in PcSet /\ pc'.at = phase
    BY PcTypes, PcFields
  <1>2. TypeOK'
    BY <1>1, TypeParts DEF IInv, TypeOK, PcSet
  <1>3. RowInv' /\ TrialInv'
    BY RowsKept
  <1>4. PcInv'
    BY <1>1, PcIdleNext
  <1>5. FitInv'
    BY <1>1, PcFields DEF IInv, FitInv
  <1> QED BY <1>2, <1>3, <1>4, <1>5 DEF IInv

-----------------------------------------------------------------------------
(* One lemma per action.                                                   *)

LEMMA StutterStep ==
  ASSUME IInv, UNCHANGED vars
  PROVE  IInv'
  <1>1. TypeOK'
    BY DEF IInv, TypeOK, vars
  <1>2. RowInv' /\ TrialInv'
    BY RowsKept DEF vars
  <1>3. PcInv' /\ FitInv'
    BY DEF IInv, PcInv, FitInv, OwnTrial, vars
  <1> QED BY <1>1, <1>2, <1>3 DEF IInv

LEMMA BeginAskStep ==
  ASSUME IInv, NEW p \in Programs, BeginAsk(p)
  PROVE  IInv'
  <1> DEFINE t == [NoTrial EXCEPT !.state = "running"]
  <1>1. PICK n \in Numbers : /\ trials[p][n].state = "absent"
                             /\ trials' = [trials EXCEPT ![p][n] = t]
                             /\ pc' = AtTrial("ask", p, n)
    BY DEF BeginAsk
  <1>2. t \in Trial /\ t.state = "running" /\ t.attrs = 0
    BY DEF Trial, TrialStates, NoTrial
  <1> HIDE DEF t
  <1>3. UNCHANGED <<attempt, published, fit, crashes, blocks>>
    BY DEF BeginAsk
  <1>4. trials[p][n].attrs = 0
    BY <1>1 DEF IInv, TrialInv, TrialOK, NoTrial
  <1>5. \A r \in Recipes : attempt[r].status # "absent" => attempt[r].owner # <<p, n>>
    BY <1>4 DEF IInv, RowInv, RowOK, OwnTrial
  <1>6. /\ trials' \in Journal
        /\ trials'[p][n] = t
        /\ \A q \in Programs, m \in Numbers : q # p \/ m # n => trials'[q][m] = trials[q][m]
        /\ RowInv'
        /\ TrialOK(p, n)' => TrialInv'
    BY <1>1, <1>2, <1>3, <1>5, UnownedTrial
  <1>7. TypeOK'
    BY <1>1, <1>3, <1>6, PcTypes, TypeParts DEF IInv, Journal, Table, PcSet, TypeOK
  <1>8. TrialInv'
    BY <1>2, <1>6 DEF TrialOK
  <1>9. PcInv'
    BY <1>1, <1>2, <1>3, <1>5, <1>6, PcFields DEF PcInv
  <1>10. FitInv'
    BY <1>1, <1>3, PcFields DEF IInv, FitInv, BeginAsk
  <1> QED BY <1>6, <1>7, <1>8, <1>9, <1>10 DEF IInv

LEMMA RejectSuggestionStep ==
  ASSUME IInv, NEW p \in Programs, NEW n \in Numbers, RejectSuggestion(p, n)
  PROVE  IInv'
  <1> DEFINE t == [trials[p][n] EXCEPT !.state = "fail"]
  <1>1. trials \in Journal /\ trials[p][n] \in Trial
    BY TypeParts DEF IInv, Journal
  <1>2. t \in Trial /\ t.state = "fail" /\ t.attrs = 0 /\ trials' = [trials EXCEPT ![p][n] = t]
    BY <1>1 DEF Trial, TrialStates, RejectSuggestion, Journal
  <1> HIDE DEF t
  <1>3. UNCHANGED <<attempt, published, fit, crashes, blocks>> /\ pc' = At("dispatch")
    BY DEF RejectSuggestion
  <1>4. /\ trials' \in Journal
        /\ trials'[p][n] = t
        /\ RowInv'
        /\ TrialOK(p, n)' => TrialInv'
    <2>1. \A r \in Recipes : attempt[r].status # "absent" => attempt[r].owner # <<p, n>>
      BY DEF IInv, PcInv, RejectSuggestion, Asking
    <2> QED BY <1>2, <1>3, <2>1, UnownedTrial
  <1>5. pc' \in PcSet /\ pc'.at = "dispatch"
    BY <1>3, PcTypes, PcFields DEF Phases
  <1>6. TypeOK'
    BY <1>3, <1>4, <1>5, TypeParts DEF IInv, TypeOK, Table, Journal, PcSet
  <1>7. TrialInv'
    BY <1>2, <1>4 DEF TrialOK
  <1>8. PcInv'
    BY <1>5, PcIdleNext DEF Phases
  <1>9. FitInv'
    BY <1>3, <1>5, PcFields DEF IInv, FitInv, RejectSuggestion, Asking
  <1> QED BY <1>4, <1>6, <1>7, <1>8, <1>9 DEF IInv

LEMMA SetAttributeStep ==
  ASSUME IInv, NEW p \in Programs, NEW n \in Numbers, SetAttribute(p, n)
  PROVE  IInv'
  <1>1. PICK r \in Recipes :
           trials' = [trials EXCEPT ![p][n] =
                        [trials[p][n] EXCEPT !.recipe = r, !.attrs = @ + 1]]
    BY DEF SetAttribute
  <1> DEFINE t == [trials[p][n] EXCEPT !.recipe = r, !.attrs = @ + 1]
  <1>2. trials \in Journal /\ trials[p][n] \in Trial
    BY TypeParts DEF IInv, Journal
  <1>3. trials[p][n].state = "running"
        /\ \A s \in Recipes : attempt[s].status # "absent" => attempt[s].owner # <<p, n>>
    BY DEF IInv, PcInv, SetAttribute, Asking
  <1>4. t \in Trial /\ t.state = "running" /\ t.recipe \in Recipes
    <2>1. trials[p][n].attrs \in 0..2
      BY <1>2 DEF Trial, SetAttribute, Whole
    <2>2. trials[p][n].attrs + 1 \in 0..3
      BY <2>1
    <2> QED BY <1>2, <1>3, <2>2 DEF Trial
  <1>5. trials' = [trials EXCEPT ![p][n] = t]
    BY <1>1
  <1> HIDE DEF t
  <1>6. UNCHANGED <<attempt, published, fit, pc, crashes, blocks>>
    BY DEF SetAttribute
  <1>7. /\ trials' \in Journal
        /\ trials'[p][n] = t
        /\ \A q \in Programs, m \in Numbers : q # p \/ m # n => trials'[q][m] = trials[q][m]
        /\ RowInv'
        /\ TrialOK(p, n)' => TrialInv'
    BY <1>3, <1>4, <1>5, <1>6, UnownedTrial
  <1>8. TypeOK'
    BY <1>6, <1>7, TypeParts DEF IInv, TypeOK, Table, Journal, PcSet
  <1>9. TrialInv'
    BY <1>4, <1>7 DEF TrialOK
  <1>10. PcInv'
    BY <1>3, <1>4, <1>6, <1>7, PcFields DEF PcInv, SetAttribute, Asking
  <1>11. FitInv'
    BY <1>6 DEF IInv, FitInv
  <1> QED BY <1>7, <1>8, <1>9, <1>10, <1>11 DEF IInv

LEMMA EndAskStep ==
  ASSUME IInv, NEW p \in Programs, NEW n \in Numbers, EndAsk(p, n)
  PROVE  IInv'
  <1>1. /\ UNCHANGED <<attempt, published, fit, crashes, blocks>>
        /\ pc = AtTrial("ask", p, n) /\ trials[p][n].attrs = 3
        /\ trials \in Journal /\ trials[p][n] \in Trial
    BY TypeParts DEF IInv, Journal, EndAsk, Asking, Whole
  <1>2. /\ trials[p][n].state = "running" /\ trials[p][n].recipe \in Recipes
        /\ \A r \in Recipes : attempt[r].status # "absent" => attempt[r].owner # <<p, n>>
    BY <1>1 DEF IInv, PcInv, TrialInv, TrialOK
  <1>3. CASE SeenElsewhere(p, n)
    <2> DEFINE t == [trials[p][n] EXCEPT !.state = "pruned"]
    <2>1. /\ t \in Trial /\ t.state = "pruned" /\ t.attrs = 3 /\ t.recipe \in Recipes
          /\ trials' = [trials EXCEPT ![p][n] = t]
      BY <1>1, <1>2, <1>3 DEF Trial, TrialStates, EndAsk, Journal
    <2> HIDE DEF t
    <2>2. pc' \in PcSet /\ pc'.at = "dispatch"
      BY <1>3, PcTypes, PcFields DEF Phases, EndAsk
    <2>3. /\ trials' \in Journal
          /\ trials'[p][n] = t
          /\ RowInv'
          /\ TrialOK(p, n)' => TrialInv'
      BY <1>1, <1>2, <2>1, UnownedTrial
    <2>4. TypeOK'
      BY <1>1, <2>2, <2>3, TypeParts DEF IInv, TypeOK, Table, Journal, PcSet
    <2>5. TrialInv'
      BY <2>1, <2>3 DEF TrialOK
    <2>6. PcInv'
      BY <2>2, PcIdleNext DEF Phases
    <2>7. FitInv'
      BY <1>1, <2>2, PcFields DEF IInv, FitInv
    <2> QED BY <2>3, <2>4, <2>5, <2>6, <2>7 DEF IInv
  <1>4. CASE ~SeenElsewhere(p, n)
    <2>1. UNCHANGED trials /\ pc' = AtTrial("reserve", p, n)
      BY <1>4 DEF EndAsk
    <2>2. pc' \in PcSet /\ pc'.at = "reserve"
      BY <2>1, PcTypes, PcFields
    <2>3. attempt[trials[p][n].recipe].status = "absent"
      <3> SUFFICES ASSUME attempt[trials[p][n].recipe].status # "absent" PROVE FALSE
        OBVIOUS
      <3> DEFINE o == attempt[trials[p][n].recipe].owner
      <3>1. o \in Owners /\ trials[o[1]][o[2]].attrs = 3
            /\ trials[o[1]][o[2]].recipe = trials[p][n].recipe
        BY <1>2 DEF IInv, RowInv, RowOK, OwnTrial
      <3>2. o # <<p, n>>
        BY <1>2
      <3> QED BY <3>1, <3>2, <1>4 DEF SeenElsewhere, Whole
    <2>4. TypeOK'
      BY <1>1, <2>1, <2>2, TypeParts DEF IInv, TypeOK, Table, Journal, PcSet
    <2>5. RowInv' /\ TrialInv'
      BY <1>1, <2>1, RowsKept
    <2>6. PcInv'
      BY <1>1, <1>2, <2>1, <2>3, PcFields DEF PcInv
    <2>7. FitInv'
      BY <1>1, <2>2, PcFields DEF IInv, FitInv
    <2> QED BY <2>4, <2>5, <2>6, <2>7 DEF IInv
  <1> QED BY <1>3, <1>4

(* AskFails, Start and Crash leave a controller without fits.              *)
LEMMA AskFailsStep ==
  ASSUME IInv, NEW p \in Programs, NEW n \in Numbers, AskFails(p, n)
  PROVE  IInv'
  <1>1. /\ trials' = RetireIncomplete /\ UNCHANGED <<attempt, published, crashes>>
        /\ pc' = At("down") /\ fit' = [r \in Recipes |-> "none"] /\ blocks' \in 0..MaxBlocks
    BY BoundsAssumption DEF AskFails, IInv, TypeOK
  <1>2. pc' \in PcSet /\ pc'.at = "down"
    BY <1>1, PcTypes, PcFields DEF Phases
  <1>3. trials' \in Journal /\ RowInv' /\ TrialInv'
    BY <1>1, RetiredTrials
  <1>4. TypeOK'
    BY <1>1, <1>2, <1>3, TypeParts DEF IInv, TypeOK, Table, Journal, PcSet, FitStates
  <1>5. PcInv'
    BY <1>2, PcIdleNext DEF Phases
  <1>6. FitInv'
    BY <1>1 DEF IInv, FitInv
  <1> QED BY <1>3, <1>4, <1>5, <1>6 DEF IInv

LEMMA StartStep ==
  ASSUME IInv, Start
  PROVE  IInv'
  <1>1. /\ trials' = RetireIncomplete /\ UNCHANGED <<attempt, published, fit, crashes, blocks>>
        /\ pc' = At("recover") /\ pc.at = "down"
    BY DEF Start
  <1>2. pc' \in PcSet /\ pc'.at = "recover"
    BY <1>1, PcTypes, PcFields DEF Phases
  <1>3. trials' \in Journal /\ RowInv' /\ TrialInv'
    BY <1>1, RetiredTrials
  <1>4. TypeOK'
    BY <1>1, <1>2, <1>3, TypeParts DEF IInv, TypeOK, Table, Journal, PcSet
  <1>5. PcInv'
    BY <1>2, PcIdleNext DEF Phases
  <1>6. FitInv'
    BY <1>1 DEF IInv, FitInv
  <1> QED BY <1>3, <1>4, <1>5, <1>6 DEF IInv

LEMMA CrashStep ==
  ASSUME IInv, Crash
  PROVE  IInv'
  <1>1. /\ UNCHANGED <<trials, attempt, published, blocks>>
        /\ pc' = At("down") /\ fit' = [r \in Recipes |-> "none"] /\ crashes' \in 0..MaxCrashes
    BY BoundsAssumption DEF Crash, IInv, TypeOK
  <1>2. pc' \in PcSet /\ pc'.at = "down"
    BY <1>1, PcTypes, PcFields DEF Phases
  <1>3. RowInv' /\ TrialInv'
    BY <1>1, RowsKept
  <1>4. TypeOK'
    BY <1>1, <1>2, <1>3, TypeParts DEF IInv, TypeOK, Table, Journal, PcSet, FitStates
  <1>5. PcInv'
    BY <1>2, PcIdleNext DEF Phases
  <1>6. FitInv'
    BY <1>1 DEF IInv, FitInv
  <1> QED BY <1>3, <1>4, <1>5, <1>6 DEF IInv

LEMMA ReserveStep ==
  ASSUME IInv, NEW p \in Programs, NEW n \in Numbers, Reserve(p, n)
  PROVE  IInv'
  <1> DEFINE r == trials[p][n].recipe
  <1>1. /\ UNCHANGED <<trials, published, crashes, blocks>>
        /\ pc = AtTrial("reserve", p, n)
        /\ attempt' = Reserved(attempt, r, <<p, n>>)
        /\ \/ pc' = At("dispatch") /\ UNCHANGED fit
           \/ pc' = AtRecipe("submitted", r) /\ fit' = [fit EXCEPT ![r] = "busy"]
    BY DEF Reserve
  <1>2. /\ trials[p][n].state = "running" /\ trials[p][n].attrs = 3
        /\ attempt[r].status = "absent" /\ r \in Recipes
    BY <1>1 DEF IInv, PcInv, TrialInv, TrialOK
  <1> HIDE DEF r
  <1>3. /\ attempt' \in Table
        /\ attempt'[r].status = "reserved"
        /\ \A q \in Recipes \ {r} : attempt'[q] = attempt[q]
        /\ RowInv'
        /\ TrialInv'
    BY <1>1, <1>2, ReservedRow DEF r
  <1>4. /\ fit \in [Recipes -> FitStates] /\ fit[r] = "none"
        /\ \A q \in Recipes : fit[q] # "none" => attempt[q].status = "running"
    BY <1>1, <1>2, PcFields DEF IInv, TypeOK, FitInv
  <1>5. /\ published[r] = None \/ published[r] # None
        /\ \A q \in Recipes : attempt'[q].status \in Terminal => q # r
    BY <1>3 DEF Terminal
  <1>6. CASE pc' = At("dispatch") /\ UNCHANGED fit
    <2>1. pc' \in PcSet /\ pc'.at = "dispatch"
      BY <1>6, PcTypes, PcFields DEF Phases
    <2>2. TypeOK'
      BY <1>1, <1>3, <1>6, <2>1, TypeParts DEF IInv, TypeOK, Table, Journal, PcSet
    <2>3. PcInv'
      BY <2>1, PcIdleNext DEF Phases
    <2>4. FitInv'
      BY <1>1, <1>2, <1>3, <1>4, <1>5, <1>6, <2>1 DEF IInv, FitInv
    <2> QED BY <1>3, <2>2, <2>3, <2>4 DEF IInv
  <1>7. CASE pc' = AtRecipe("submitted", r) /\ fit' = [fit EXCEPT ![r] = "busy"]
    <2>1. pc' \in PcSet /\ pc'.at = "submitted"
      BY <1>2, <1>7, PcTypes, PcFields
    <2>2. fit' \in [Recipes -> FitStates]
      BY <1>4, <1>7 DEF FitStates
    <2>3. TypeOK'
      BY <1>1, <1>3, <2>1, <2>2, TypeParts DEF IInv, TypeOK, Table, Journal, PcSet
    <2>4. PcInv'
      BY <1>2, <1>3, <1>7, PcFields DEF PcInv
    <2>5. published[r] = None
      BY <1>2 DEF IInv, FitInv
    <2>6. FitInv'
      BY <1>1, <1>2, <1>3, <1>4, <1>5, <1>7, <2>1, <2>5 DEF IInv, FitInv
    <2> QED BY <1>3, <2>3, <2>4, <2>6 DEF IInv
  <1> QED BY <1>1, <1>6, <1>7

LEMMA MarkRunningStep ==
  ASSUME IInv, NEW r \in Recipes, MarkRunning(r)
  PROVE  IInv'
  <1> DEFINE row == [attempt[r] EXCEPT !.status = "running"]
  <1>1. /\ UNCHANGED <<trials, published, fit, crashes, blocks>>
        /\ pc = AtRecipe("submitted", r) /\ pc' = At("dispatch")
        /\ attempt[r].status = "reserved"
        /\ attempt \in Table /\ attempt[r] \in Row
    BY TypeParts DEF IInv, PcInv, MarkRunning, Table
  <1>2. /\ row \in Row /\ row.status = "running" /\ row.owner = attempt[r].owner
        /\ row.result = attempt[r].result /\ row.told = attempt[r].told
        /\ attempt' = [attempt EXCEPT ![r] = row]
    BY <1>1 DEF Row, Terminal, MarkRunning, Table
  <1> HIDE DEF row
  <1>3. /\ attempt' \in Table /\ attempt'[r] = row
        /\ \A q \in Recipes \ {r} : attempt'[q] = attempt[q]
    BY <1>1, <1>2 DEF Table
  <1>4. pc' \in PcSet /\ pc'.at = "dispatch"
    BY <1>1, PcTypes, PcFields DEF Phases
  <1>5. TypeOK'
    BY <1>1, <1>3, <1>4, TypeParts DEF IInv, TypeOK, Table, Journal, PcSet
  <1>6. RowInv'
    <2>1. OwnTrial(r)' = OwnTrial(r)
      BY <1>1, <1>2, <1>3 DEF OwnTrial
    <2>2. RowOK(r)
      BY DEF IInv, RowInv
    <2>3. RowOK(r)'
      BY <1>1, <1>2, <1>3, <2>1, <2>2 DEF RowOK, Terminal
    <2> QED BY <1>1, <1>3, <2>3, OneRowChanged
  <1>7. TrialInv'
    <2>1. \A p \in Programs, n \in Numbers :
            trials[p][n].attrs = 3 /\ trials[p][n].state \in {"complete", "fail"} =>
              trials[p][n].recipe \in Recipes \ {r}
      BY <1>1 DEF IInv, TrialInv, TrialOK
    <2> QED BY <1>1, <1>3, <2>1 DEF IInv, TrialInv, TrialOK
  <1>8. PcInv'
    BY <1>4, PcIdleNext DEF Phases
  <1>9. FitInv'
    BY <1>1, <1>2, <1>3, <1>4, PcFields DEF IInv, FitInv, Terminal
  <1> QED BY <1>5, <1>6, <1>7, <1>8, <1>9 DEF IInv

LEMMA ResumeStep ==
  ASSUME IInv, NEW r \in Recipes, Resume(r)
  PROVE  IInv'
  <1>1. /\ UNCHANGED <<trials, published, crashes, blocks>>
        /\ pc.at = "dispatch" /\ attempt[r].status = "reserved"
        /\ fit \in [Recipes -> FitStates] /\ fit[r] = "none"
        /\ published[r] \in Results \cup {None}
    BY PcFields DEF Resume, IInv, TypeOK, FitInv
  <1>2. CASE published[r] # None
    <2>1. attempt' = Completed(r, published[r]) /\ pc' = At("tells") /\ UNCHANGED fit
      BY <1>2 DEF Resume
    <2>2. /\ attempt' \in Table
          /\ attempt'[r].status \in Terminal
          /\ attempt'[r].result = published[r]
          /\ \A q \in Recipes \ {r} : attempt'[q] = attempt[q]
          /\ RowInv' /\ TrialInv'
      BY <1>1, <1>2, <2>1, CompletedRow
    <2>3. pc' \in PcSet /\ pc'.at = "tells"
      BY <2>1, PcTypes, PcFields DEF Phases
    <2>4. TypeOK'
      BY <1>1, <2>1, <2>2, <2>3, TypeParts DEF IInv, TypeOK, Table, Journal, PcSet
    <2>5. PcInv'
      BY <2>3, PcIdleNext DEF Phases
    <2>6. FitInv'
      BY <1>1, <1>2, <2>1, <2>2, <2>3, PcFields DEF IInv, FitInv, Terminal
    <2> QED BY <2>2, <2>4, <2>5, <2>6 DEF IInv
  <1>3. CASE published[r] = None
    <2>1. /\ fit' = [fit EXCEPT ![r] = "busy"] /\ pc' = AtRecipe("submitted", r)
          /\ UNCHANGED attempt
      BY <1>3 DEF Resume
    <2>2. pc' \in PcSet /\ pc'.at = "submitted" /\ fit' \in [Recipes -> FitStates]
      BY <1>1, <2>1, PcTypes, PcFields DEF FitStates
    <2>3. TypeOK'
      BY <1>1, <2>1, <2>2, TypeParts DEF IInv, TypeOK, Table, Journal, PcSet
    <2>4. RowInv' /\ TrialInv'
      BY <1>1, <2>1, RowsKept
    <2>5. PcInv'
      BY <1>1, <2>1, PcFields DEF PcInv
    <2>6. FitInv'
      BY <1>1, <1>3, <2>1, <2>2, PcFields DEF IInv, FitInv
    <2> QED BY <2>3, <2>4, <2>5, <2>6 DEF IInv
  <1> QED BY <1>2, <1>3

LEMMA FailFoldStep ==
  ASSUME IInv, NEW r \in Recipes, FailFold(r)
  PROVE  IInv'
  <1>1. /\ UNCHANGED <<trials, published, fit, crashes, blocks>>
        /\ pc.at = "dispatch" /\ attempt[r].status = "reserved" /\ published[r] = None
        /\ attempt' = Completed(r, Failure) /\ pc' = At("tells") /\ Failure \in Results
    BY DEF FailFold, Results
  <1>2. /\ attempt' \in Table
        /\ attempt'[r].status \in Terminal
        /\ \A q \in Recipes \ {r} : attempt'[q] = attempt[q]
        /\ RowInv' /\ TrialInv'
    BY <1>1, CompletedRow
  <1>3. pc' \in PcSet /\ pc'.at = "tells"
    BY <1>1, PcTypes, PcFields DEF Phases
  <1>4. TypeOK'
    BY <1>1, <1>2, <1>3, TypeParts DEF IInv, TypeOK, Table, Journal, PcSet
  <1>5. PcInv'
    BY <1>3, PcIdleNext DEF Phases
  <1>6. FitInv'
    BY <1>1, <1>2, <1>3, PcFields DEF IInv, FitInv, Terminal
  <1> QED BY <1>2, <1>4, <1>5, <1>6 DEF IInv

LEMMA FitEndsStep ==
  ASSUME IInv, NEW r \in Recipes, FitEnds(r)
  PROVE  IInv'
  <1>1. PICK result \in Results \cup {None}, end \in {"accepted", "failed", "blocked"} :
          /\ end = "blocked" => blocks < MaxBlocks
          /\ published' = [published EXCEPT ![r] = result]
          /\ fit' = [fit EXCEPT ![r] = end]
          /\ blocks' = IF end = "blocked" THEN blocks + 1 ELSE blocks
    BY DEF FitEnds
  <1>2. /\ UNCHANGED <<trials, attempt, pc, crashes>> /\ fit[r] = "busy"
        /\ fit \in [Recipes -> FitStates] /\ published \in [Recipes -> Results \cup {None}]
        /\ blocks \in 0..MaxBlocks
    BY DEF FitEnds, IInv, TypeOK
  <1>3. /\ fit' \in [Recipes -> FitStates]
        /\ published' \in [Recipes -> Results \cup {None}]
    BY <1>1, <1>2 DEF FitStates
  <1>4. blocks' \in 0..MaxBlocks
    BY <1>1, <1>2, BoundsAssumption
  <1>5. TypeOK'
    BY <1>2, <1>3, <1>4, TypeParts DEF IInv, TypeOK, Table, Journal, PcSet
  <1>6. RowInv' /\ TrialInv'
    BY <1>2, RowsKept
  <1>7. PcInv'
    BY <1>2 DEF IInv, PcInv, OwnTrial
  <1>8. attempt[r].status \notin Terminal \cup {"absent"}
    BY <1>2 DEF IInv, FitInv, PcInv, Terminal
  <1>9. FitInv'
    BY <1>1, <1>2, <1>8 DEF IInv, FitInv
  <1> QED BY <1>5, <1>6, <1>7, <1>9 DEF IInv

LEMMA CompleteStep ==
  ASSUME IInv, NEW r \in Recipes, Complete(r)
  PROVE  IInv'
  <1>1. /\ UNCHANGED <<trials, published, crashes>> /\ pc.at = "loop"
        /\ fit' = [fit EXCEPT ![r] = "none"] /\ fit \in [Recipes -> FitStates]
        /\ fit[r] # "none" /\ published \in [Recipes -> Results \cup {None}]
        /\ blocks \in 0..MaxBlocks
    BY DEF Complete, IInv, TypeOK
  <1>2. attempt[r].status = "running"
    BY <1>1, PcFields DEF IInv, FitInv
  <1>3. fit' \in [Recipes -> FitStates]
    BY <1>1 DEF FitStates
  <1>4. \/ attempt' = Deferred(r) /\ UNCHANGED pc /\ blocks' \in 0..MaxBlocks
        \/ /\ attempt' = Completed(r, Outcome(r)) /\ pc' = At("tells")
           /\ blocks' \in 0..MaxBlocks
    BY <1>1, BoundsAssumption DEF Complete
  <1>5. Outcome(r) \in Results /\ (published[r] # None => Outcome(r) = published[r])
    BY <1>1 DEF Outcome, Results
  <1>6. CASE attempt' = Deferred(r) /\ UNCHANGED pc /\ blocks' \in 0..MaxBlocks
    <2>1. /\ attempt' \in Table /\ attempt'[r].status = "reserved"
          /\ \A q \in Recipes \ {r} : attempt'[q] = attempt[q]
          /\ RowInv' /\ TrialInv'
      BY <1>1, <1>2, <1>6, DeferredRow
    <2>2. TypeOK'
      BY <1>1, <1>3, <1>6, <2>1, TypeParts DEF IInv, TypeOK, Table, Journal, PcSet
    <2>3. PcInv'
      BY <1>1, <1>6, PcIdleNext DEF Phases
    <2>4. FitInv'
      BY <1>1, <1>6, <2>1, PcFields DEF IInv, FitInv, Terminal
    <2> QED BY <2>1, <2>2, <2>3, <2>4 DEF IInv
  <1>7. CASE /\ attempt' = Completed(r, Outcome(r)) /\ pc' = At("tells")
             /\ blocks' \in 0..MaxBlocks
    <2>1. /\ attempt' \in Table /\ attempt'[r].status \in Terminal
          /\ attempt'[r].result = Outcome(r)
          /\ \A q \in Recipes \ {r} : attempt'[q] = attempt[q]
          /\ RowInv' /\ TrialInv'
      BY <1>1, <1>2, <1>5, <1>7, CompletedRow
    <2>2. pc' \in PcSet /\ pc'.at = "tells"
      BY <1>7, PcTypes, PcFields DEF Phases
    <2>3. TypeOK'
      BY <1>1, <1>3, <1>7, <2>1, <2>2, TypeParts DEF IInv, TypeOK, Table, Journal, PcSet
    <2>4. PcInv'
      BY <2>2, PcIdleNext DEF Phases
    <2>5. FitInv'
      BY <1>1, <1>5, <2>1, <2>2, PcFields DEF IInv, FitInv, Terminal
    <2> QED BY <2>1, <2>3, <2>4, <2>5 DEF IInv
  <1> QED BY <1>4, <1>6, <1>7

LEMMA RecoverRowStep ==
  ASSUME IInv, NEW r \in Recipes, RecoverRow(r)
  PROVE  IInv'
  <1>1. /\ UNCHANGED <<trials, published, fit, pc, crashes>> /\ pc.at = "recover"
        /\ attempt[r].status \in {"reserved", "running"}
        /\ published[r] \in Results /\ fit[r] = "none"
        /\ blocks' \in 0..MaxBlocks
        /\ attempt' = Completed(r, published[r]) \/ attempt' = Deferred(r)
    BY BoundsAssumption DEF RecoverRow, IInv, TypeOK, FitInv
  <1>2. /\ attempt' \in Table
        /\ attempt'[r].status # "absent"
        /\ attempt'[r].status \in Terminal => attempt'[r].result = published[r]
        /\ \A q \in Recipes \ {r} : attempt'[q] = attempt[q]
        /\ RowInv' /\ TrialInv'
    <2>1. CASE attempt' = Completed(r, published[r])
      BY <1>1, <2>1, CompletedRow DEF Terminal
    <2>2. CASE attempt' = Deferred(r)
      BY <1>1, <2>2, DeferredRow DEF Terminal
    <2> QED BY <1>1, <2>1, <2>2
  <1>3. TypeOK'
    BY <1>1, <1>2, TypeParts DEF IInv, TypeOK, Table, Journal, PcSet
  <1>4. PcInv'
    BY <1>1, PcIdleNext DEF Phases
  <1>5. FitInv'
    BY <1>1, <1>2 DEF IInv, FitInv
  <1> QED BY <1>2, <1>3, <1>4, <1>5 DEF IInv

LEMMA RecoverRunningStep ==
  ASSUME IInv, RecoverRunning
  PROVE  IInv'
  <1>1. /\ UNCHANGED <<trials, published, fit, crashes, blocks>>
        /\ pc.at = "recover" /\ pc' = At("tells") /\ attempt \in Table
    BY TypeParts DEF RecoverRunning, IInv
  <1>2. ASSUME NEW r \in Recipes
        PROVE  /\ attempt'[r] \in Row
               /\ attempt'[r] = attempt[r] \/ attempt[r].status = "running"
               /\ attempt[r].status = "running" =>
                    /\ attempt'[r].status = "reserved"
                    /\ attempt'[r].owner = attempt[r].owner
                    /\ attempt'[r].result = attempt[r].result
                    /\ attempt'[r].told = attempt[r].told
    <2>1. attempt[r] \in Row
      BY <1>1 DEF Table
    <2>2. attempt'[r] = IF attempt[r].status = "running"
                        THEN [attempt[r] EXCEPT !.status = "reserved"] ELSE attempt[r]
      BY DEF RecoverRunning
    <2> QED BY <2>1, <2>2 DEF Row
  <1>3. attempt' \in Table
    BY <1>2 DEF Table, RecoverRunning
  <1>4. pc' \in PcSet /\ pc'.at = "tells"
    BY <1>1, PcTypes, PcFields DEF Phases
  <1>5. TypeOK'
    BY <1>1, <1>3, <1>4, TypeParts DEF IInv, TypeOK, Table, Journal, PcSet
  <1>6. RowInv'
    <2> SUFFICES ASSUME NEW r \in Recipes PROVE RowOK(r)'
      BY DEF RowInv
    <2>1. RowOK(r)
      BY DEF IInv, RowInv
    <2>2. OwnTrial(r)' = OwnTrial(r)
      BY <1>1, <1>2 DEF OwnTrial
    <2>3. CASE attempt'[r] = attempt[r]
      BY <2>1, <2>2, <2>3, RowKept
    <2>4. CASE attempt[r].status = "running"
      BY <1>2, <2>1, <2>2, <2>4 DEF RowOK, Terminal
    <2> QED BY <1>2, <2>3, <2>4
  <1>7. TrialInv'
    <2>1. \A p \in Programs, n \in Numbers :
            trials[p][n].attrs = 3 /\ trials[p][n].state \in {"complete", "fail"} =>
              /\ trials[p][n].recipe \in Recipes
              /\ attempt'[trials[p][n].recipe] = attempt[trials[p][n].recipe]
      BY <1>2 DEF IInv, TrialInv, TrialOK
    <2> QED BY <1>1, <2>1 DEF IInv, TrialInv, TrialOK
  <1>8. PcInv'
    BY <1>4, PcIdleNext DEF Phases
  <1>9. FitInv'
    BY <1>1, <1>2, <1>4, PcFields DEF IInv, FitInv, Terminal
  <1> QED BY <1>5, <1>6, <1>7, <1>8, <1>9 DEF IInv

LEMMA TellStep ==
  ASSUME IInv, NEW r \in Recipes, Tell(r)
  PROVE  IInv'
  <1>1. attempt[r].status \in Terminal
    BY DEF Tell, PendingTells
  <1>2. PICK p \in Programs, n \in Numbers : attempt[r].owner = <<p, n>>
    BY <1>1 DEF IInv, RowInv, RowOK, Owners, Terminal
  <1>3. PICK result \in Results : /\ attempt[r].result = result
                                  /\ attempt[r].status =
                                       IF result = Failure THEN "failed" ELSE "completed"
    BY <1>1, ResultAssumption DEF IInv, RowInv, RowOK, Terminal, Results
  <1> DEFINE t == [trials[p][n] EXCEPT
                     !.state = IF result = Failure THEN "fail" ELSE "complete",
                     !.value = IF result = Failure THEN None ELSE result]
  <1>4. /\ UNCHANGED <<attempt, published, fit, crashes, blocks>>
        /\ pc.at = "tells" /\ pc' = AtRecipe("told", r)
        /\ trials \in Journal
    BY TypeParts DEF Tell, IInv
  <1>5. trials' = IF trials[p][n].state = "running"
                  THEN [trials EXCEPT ![p][n] = t] ELSE trials
    BY <1>2, <1>3 DEF Tell, Running, Told
  <1>6. /\ trials[p][n].attrs = 3 /\ trials[p][n].recipe = r
        /\ trials[p][n].state \in {"running", "complete", "fail"}
    <2>1. RowOK(r) /\ OwnTrial(r) = trials[p][n]
      BY <1>2 DEF IInv, RowInv, OwnTrial
    <2> QED BY <1>1, <2>1 DEF RowOK, Terminal
  <1>7. /\ t \in Trial /\ t.attrs = 3 /\ t.recipe = r
        /\ t.state = IF result = Failure THEN "fail" ELSE "complete"
        /\ t.value = IF result = Failure THEN None ELSE result
    <2>1. trials[p][n] \in Trial
      BY <1>4 DEF Journal
    <2> QED BY <1>6, <2>1 DEF Trial, TrialStates, Results
  <1> HIDE DEF t
  <1>8. /\ trials' \in Journal
        /\ trials'[p][n] = IF trials[p][n].state = "running" THEN t ELSE trials[p][n]
        /\ \A q \in Programs, m \in Numbers : q # p \/ m # n => trials'[q][m] = trials[q][m]
    BY <1>4, <1>5, <1>7 DEF Journal
  <1>9. /\ trials'[p][n].state \in {"complete", "fail"}
        /\ trials'[p][n].attrs = 3 /\ trials'[p][n].recipe = r
    BY <1>6, <1>7, <1>8
  <1>10. pc' \in PcSet /\ pc'.at = "told"
    BY <1>4, PcTypes, PcFields
  <1>11. TypeOK'
    BY <1>4, <1>8, <1>10, TypeParts DEF IInv, TypeOK, Table, Journal, PcSet
  <1>12. RowInv'
    <2> SUFFICES ASSUME NEW s \in Recipes PROVE RowOK(s)'
      BY DEF RowInv
    <2>1. CASE s = r
      <3>1. OwnTrial(r)' = trials'[p][n] /\ OwnTrial(r) = trials[p][n]
        BY <1>2, <1>4 DEF OwnTrial
      <3>2. RowOK(r)
        BY DEF IInv, RowInv
      <3> QED BY <1>1, <1>4, <1>9, <2>1, <3>1, <3>2 DEF RowOK, Terminal
    <2>2. CASE s # r /\ attempt[s].status # "absent"
      <3>1. /\ attempt[s].owner[1] \in Programs /\ attempt[s].owner[2] \in Numbers
            /\ OwnTrial(s).recipe = s
        BY <2>2 DEF IInv, RowInv, RowOK, Owners
      <3>2. attempt[s].owner[1] # p \/ attempt[s].owner[2] # n
        BY <1>6, <2>2, <3>1 DEF OwnTrial
      <3>3. OwnTrial(s)' = OwnTrial(s)
        BY <1>4, <1>8, <3>1, <3>2 DEF OwnTrial
      <3> QED BY <1>4, <3>3, RowKept DEF IInv, RowInv
    <2>3. CASE s # r /\ attempt[s].status = "absent"
      BY <1>4, <2>3, RowKept DEF IInv, RowInv
    <2> QED BY <2>1, <2>2, <2>3
  <1>13. TrialInv'
    <2>1. TrialOK(p, n)'
      <3>1. CASE trials[p][n].state = "running"
        BY <1>2, <1>3, <1>4, <1>7, <1>8, <3>1 DEF TrialOK
      <3>2. CASE trials[p][n].state # "running"
        BY <1>4, <1>8, <3>2 DEF IInv, TrialInv, TrialOK
      <3> QED BY <3>1, <3>2
    <2>2. ASSUME NEW q \in Programs, NEW m \in Numbers, q # p \/ m # n
          PROVE  TrialOK(q, m)'
      <3>1. trials'[q][m] = trials[q][m] /\ UNCHANGED attempt
        BY <2>2, <1>4, <1>8
      <3>2. TrialOK(q, m)
        BY DEF IInv, TrialInv
      <3> QED BY <3>1, <3>2 DEF TrialOK
    <2> QED BY <2>1, <2>2 DEF TrialInv
  <1>14. PcInv'
    BY <1>1, <1>2, <1>4, <1>9, PcFields DEF PcInv, OwnTrial
  <1>15. FitInv'
    BY <1>4, <1>10, PcFields DEF IInv, FitInv
  <1> QED BY <1>11, <1>12, <1>13, <1>14, <1>15 DEF IInv

LEMMA MarkToldStep ==
  ASSUME IInv, NEW r \in Recipes, MarkTold(r)
  PROVE  IInv'
  <1> DEFINE row == [attempt[r] EXCEPT !.told = TRUE]
  <1>1. /\ UNCHANGED <<trials, published, fit, crashes, blocks>>
        /\ pc = AtRecipe("told", r) /\ pc' = At("tells")
        /\ attempt[r].status \in Terminal /\ OwnTrial(r).state # "running"
        /\ attempt \in Table /\ attempt[r] \in Row
    BY TypeParts DEF IInv, PcInv, MarkTold, Table
  <1>2. /\ row \in Row /\ row.status = attempt[r].status /\ row.owner = attempt[r].owner
        /\ row.result = attempt[r].result
        /\ attempt' = [attempt EXCEPT ![r] = row]
    BY <1>1 DEF Row, Terminal, MarkTold, Table
  <1> HIDE DEF row
  <1>3. /\ attempt' \in Table /\ attempt'[r] = row
        /\ \A q \in Recipes \ {r} : attempt'[q] = attempt[q]
    BY <1>1, <1>2 DEF Table
  <1>4. pc' \in PcSet /\ pc'.at = "tells"
    BY <1>1, PcTypes, PcFields DEF Phases
  <1>5. TypeOK'
    BY <1>1, <1>3, <1>4, TypeParts DEF IInv, TypeOK, Table, Journal, PcSet
  <1>6. RowInv'
    <2>1. OwnTrial(r)' = OwnTrial(r)
      BY <1>1, <1>2, <1>3 DEF OwnTrial
    <2>2. RowOK(r)
      BY DEF IInv, RowInv
    <2>3. RowOK(r)'
      BY <1>1, <1>2, <1>3, <2>1, <2>2 DEF RowOK, Terminal
    <2> QED BY <1>1, <1>3, <2>3, OneRowChanged
  <1>7. TrialInv'
    BY <1>1, <1>2, <1>3 DEF IInv, TrialInv, TrialOK
  <1>8. PcInv'
    BY <1>4, PcIdleNext DEF Phases
  <1>9. FitInv'
    BY <1>1, <1>2, <1>3, <1>4, PcFields DEF IInv, FitInv, Terminal
  <1> QED BY <1>5, <1>6, <1>7, <1>8, <1>9 DEF IInv

LEMMA RecoverOrphanStep ==
  ASSUME IInv, NEW p \in Programs, NEW n \in Numbers, RecoverOrphan(p, n)
  PROVE  IInv'
  <1> DEFINE r == trials[p][n].recipe
  <1>1. /\ UNCHANGED <<trials, published, fit, pc, crashes, blocks>> /\ pc.at = "loop"
        /\ trials[p][n].state = "running" /\ trials[p][n].attrs = 3
        /\ attempt' = Reserved(attempt, r, <<p, n>>)
    BY DEF RecoverOrphan, Orphans, Running, Whole
  <1>2. r \in Recipes
    BY <1>1 DEF IInv, TrialInv, TrialOK
  <1> HIDE DEF r
  <1>3. CASE attempt[r].status = "absent"
    <2>1. /\ attempt' \in Table
          /\ attempt'[r].status = "reserved"
          /\ \A q \in Recipes \ {r} : attempt'[q] = attempt[q]
          /\ RowInv' /\ TrialInv'
      BY <1>1, <1>2, <1>3, ReservedRow DEF r
    <2>2. TypeOK'
      BY <1>1, <2>1, TypeParts DEF IInv, TypeOK, Table, Journal, PcSet
    <2>3. PcInv'
      BY <1>1, PcIdleNext DEF Phases
    <2>4. FitInv'
      BY <1>1, <1>2, <1>3, <2>1, PcFields DEF IInv, FitInv, Terminal
    <2> QED BY <2>1, <2>2, <2>3, <2>4 DEF IInv
  <1>4. CASE attempt[r].status # "absent"
    <2>1. UNCHANGED attempt
      BY <1>1, <1>4 DEF Reserved
    <2>2. UNCHANGED vars
      BY <1>1, <2>1 DEF vars
    <2> QED BY <2>2, StutterStep
  <1> QED BY <1>3, <1>4

LEMMA ControllerIdleStep ==
  ASSUME IInv, TellsDone \/ TellsBlocked \/ Drain \/ OrphansDone \/ EndIteration
  PROVE  IInv'
  <1>1. UNCHANGED <<trials, attempt, published, fit, crashes>> /\ pc.at # "submitted"
    BY DEF TellsDone, TellsBlocked, Drain, OrphansDone, EndIteration
  <1>2. crashes' \in 0..MaxCrashes /\ blocks' \in 0..MaxBlocks
    <2>1. crashes \in 0..MaxCrashes /\ blocks \in 0..MaxBlocks
      BY DEF IInv, TypeOK
    <2>2. \/ blocks' = blocks
          \/ blocks < MaxBlocks /\ blocks' = blocks + 1
      BY DEF TellsDone, TellsBlocked, Drain, OrphansDone, EndIteration
    <2> QED BY <1>1, <2>1, <2>2, BoundsAssumption
  <1>3. \E phase \in Phases \ {"down", "recover"} : pc' = At(phase)
    BY DEF Phases, TellsDone, TellsBlocked, Drain, OrphansDone, EndIteration
  <1> QED BY <1>1, <1>2, <1>3, IdleStep

-----------------------------------------------------------------------------
LEMMA InitInvariant == Init => IInv
  <1> SUFFICES ASSUME Init PROVE IInv
    OBVIOUS
  <1>1. pc \in PcSet /\ pc.at = "down"
    BY PcTypes, PcFields DEF Init, Phases
  <1>2. TypeOK
    BY <1>1, TypeParts, BoundsAssumption
       DEF Init, Journal, Table, Trial, Row, NoTrial, NoRow, TrialStates, FitStates
  <1>3. RowInv /\ TrialInv
    BY DEF Init, RowInv, RowOK, TrialInv, TrialOK, NoRow, NoTrial, Terminal
  <1>4. PcInv
    BY <1>1, PcIdle DEF Phases
  <1>5. FitInv
    BY DEF Init, FitInv, NoRow, Terminal
  <1> QED BY <1>2, <1>3, <1>4, <1>5 DEF IInv

LEMMA StepInvariant == IInv /\ [Next]_vars => IInv'
  <1> SUFFICES ASSUME IInv, [Next]_vars PROVE IInv'
    OBVIOUS
  <1>1. CASE OptunaStep
    BY <1>1, BeginAskStep, RejectSuggestionStep, SetAttributeStep, EndAskStep, AskFailsStep
       DEF OptunaStep
  <1>2. CASE AttemptStep
    BY <1>2, ReserveStep, MarkRunningStep, ResumeStep, FailFoldStep, FitEndsStep, CompleteStep
       DEF AttemptStep
  <1>3. CASE RecoveryStep
    BY <1>3, StartStep, RecoverRunningStep, ControllerIdleStep, CrashStep, RecoverRowStep,
       TellStep, MarkToldStep, RecoverOrphanStep DEF RecoveryStep
  <1>4. CASE UNCHANGED vars
    BY <1>4, StutterStep
  <1> QED BY <1>1, <1>2, <1>3, <1>4 DEF Next

(* Every behaviour satisfies the inductive invariant.                      *)
THEOREM TrialInvariantHolds == Spec => []IInv
  BY InitInvariant, StepInvariant, PTL DEF Spec

(* The two stores and the controller's futures keep their types.           *)
THEOREM TrialTypesCorrect == Spec => []TypeOK
  <1>1. IInv => TypeOK
    BY DEF IInv
  <1> QED BY <1>1, TrialInvariantHolds, PTL

(* Optuna's journal and the ledger never disagree about an outcome,        *)
(* wherever the controller dies between complete_attempt, tell and         *)
(* mark_told.                                                              *)
THEOREM StoresAgree == Spec => []OutcomesAgree
  <1>1. IInv => OutcomesAgree
    <2> SUFFICES ASSUME IInv PROVE OutcomesAgree
      OBVIOUS
    <2>1. \A r \in Recipes : attempt[r].told =>
            trials[attempt[r].owner[1]][attempt[r].owner[2]].state \in {"complete", "fail"}
      BY DEF IInv, RowInv, RowOK, OwnTrial, Terminal
    <2> QED BY <2>1 DEF IInv, TrialInv, TrialOK, OutcomesAgree, Whole
  <1> QED BY <1>1, TrialInvariantHolds, PTL

(* The result the supervisor accepted is the result the ledger ends with.  *)
THEOREM AcceptedResultsSurvive == Spec => []AcceptedResultKept
  <1>1. IInv => AcceptedResultKept
    BY DEF IInv, FitInv, AcceptedResultKept
  <1> QED BY <1>1, TrialInvariantHolds, PTL

(* No recipe is allocated to two trials.                                   *)
THEOREM SuggestionsAreNew == Spec => []SuggestionIsNew
  <1>1. IInv => SuggestionIsNew
    BY DEF IInv, PcInv, SuggestionIsNew
  <1> QED BY <1>1, TrialInvariantHolds, PTL

(* No fit starts for an attempt that has an accepted result or another fit *)
(* in flight.                                                              *)
THEOREM NoSecondFit == Spec => FitsStartOnce
  <1> DEFINE A == \A r \in Recipes :
                    fit[r] # "busy" /\ fit'[r] = "busy" => fit[r] = "none" /\ published[r] = None
  <1>1. IInv /\ [Next]_vars => [A]_vars
    <2> SUFFICES ASSUME IInv, Next, NEW r \in Recipes, fit[r] # "busy", fit'[r] = "busy"
                 PROVE  fit[r] = "none" /\ published[r] = None
      BY DEF vars
    <2>0. fit \in [Recipes -> FitStates]
      BY DEF IInv, TypeOK
    <2>1. CASE OptunaStep
      BY <2>0, <2>1 DEF OptunaStep, BeginAsk, RejectSuggestion, SetAttribute, EndAsk, AskFails
    <2>2. CASE AttemptStep
      <3>1. ASSUME NEW p \in Programs, NEW n \in Numbers, Reserve(p, n)
            PROVE  fit[r] = "none" /\ published[r] = None
        <4>1. /\ pc = AtTrial("reserve", p, n) /\ r = trials[p][n].recipe
              /\ attempt[r].status = "absent"
          BY <2>0, <3>1 DEF Reserve, IInv, PcInv
        <4> QED BY <4>1, PcFields DEF IInv, FitInv
      <3>2. ASSUME NEW s \in Recipes, Resume(s)
            PROVE  fit[r] = "none" /\ published[r] = None
        <4>1. r = s /\ published[r] = None /\ attempt[r].status = "reserved" /\ pc.at = "dispatch"
          BY <2>0, <3>2 DEF Resume
        <4> QED BY <4>1, PcFields DEF IInv, FitInv
      <3>3. ASSUME NEW s \in Recipes,
                   MarkRunning(s) \/ FailFold(s) \/ FitEnds(s) \/ Complete(s)
            PROVE  FALSE
        BY <2>0, <3>3 DEF MarkRunning, FailFold, FitEnds, Complete
      <3> QED BY <2>2, <3>1, <3>2, <3>3 DEF AttemptStep
    <2>3. CASE RecoveryStep
      BY <2>0, <2>3 DEF RecoveryStep, Start, RecoverRunning, TellsDone, TellsBlocked, Drain,
         OrphansDone, EndIteration, Crash, RecoverRow, Tell, MarkTold, RecoverOrphan
    <2> QED BY <2>1, <2>2, <2>3 DEF Next
  <1> QED BY <1>1, TrialInvariantHolds, PTL DEF Spec, FitsStartOnce

(* Recovery never reopens an outcome, in the ledger or in the journal.     *)
THEOREM FinalOutcomes == Spec => OutcomesAreFinal
  <1> DEFINE A == /\ \A r \in Recipes :
                       /\ attempt[r].status \in Terminal =>
                            attempt'[r] = [attempt[r] EXCEPT !.told = attempt'[r].told]
                       /\ attempt[r].told => attempt'[r].told
                  /\ \A p \in Programs, n \in Numbers :
                       trials[p][n].state \in {"complete", "fail", "pruned"} =>
                           trials'[p][n] = trials[p][n]
  <1>1. IInv /\ [Next]_vars => [A]_vars
    <2> SUFFICES ASSUME IInv, Next PROVE A
      BY DEF vars
    <2>1. trials \in Journal /\ attempt \in Table
      BY TypeParts DEF IInv
    <2>2. ASSUME NEW r \in Recipes, attempt'[r] = attempt[r]
          PROVE  /\ attempt'[r] = [attempt[r] EXCEPT !.told = attempt'[r].told]
                 /\ attempt[r].told => attempt'[r].told
      BY <2>1, <2>2 DEF Table, Row
    <2>3. UNCHANGED attempt =>
            \A r \in Recipes :
              /\ attempt[r].status \in Terminal =>
                   attempt'[r] = [attempt[r] EXCEPT !.told = attempt'[r].told]
              /\ attempt[r].told => attempt'[r].told
      BY <2>2
    <2>4. \A r \in Recipes : attempt[r].told => attempt[r].status \in Terminal
      BY DEF IInv, RowInv, RowOK
    <2>5. CASE OptunaStep
      <3>1. UNCHANGED attempt
        BY <2>5 DEF OptunaStep, BeginAsk, RejectSuggestion, SetAttribute, EndAsk, AskFails
      <3>2. ASSUME NEW p \in Programs, NEW n \in Numbers,
                   trials[p][n].state \in {"complete", "fail", "pruned"}
            PROVE  trials'[p][n] = trials[p][n]
        <4>1. ASSUME NEW q \in Programs, BeginAsk(q) PROVE trials'[p][n] = trials[p][n]
          BY <2>1, <3>2, <4>1 DEF BeginAsk, Journal
        <4>2. ASSUME NEW q \in Programs, NEW m \in Numbers,
                     RejectSuggestion(q, m) \/ SetAttribute(q, m) \/ EndAsk(q, m)
              PROVE  trials'[p][n] = trials[p][n]
          <5>1. trials[q][m].state = "running"
            BY <4>2 DEF IInv, PcInv, RejectSuggestion, SetAttribute, EndAsk, Asking
          <5>2. <<p, n>> # <<q, m>>
            BY <3>2, <5>1
          <5>3. \/ trials' = trials
                \/ \E t : trials' = [trials EXCEPT ![q][m] = t]
            BY <4>2 DEF RejectSuggestion, SetAttribute, EndAsk
          <5> QED BY <2>1, <5>2, <5>3 DEF Journal
        <4>3. ASSUME NEW q \in Programs, NEW m \in Numbers, AskFails(q, m)
              PROVE  trials'[p][n] = trials[p][n]
          BY <3>2, <4>3 DEF AskFails, RetireIncomplete, Running
        <4> QED BY <2>5, <4>1, <4>2, <4>3 DEF OptunaStep
      <3> QED BY <2>3, <3>1, <3>2
    <2>6. CASE AttemptStep
      <3>1. UNCHANGED trials
        BY <2>6 DEF AttemptStep, Reserve, MarkRunning, Resume, FailFold, FitEnds, Complete
      <3>2. ASSUME NEW r \in Recipes, attempt[r].status \in Terminal
            PROVE  attempt'[r] = attempt[r]
        <4>1. ASSUME NEW p \in Programs, NEW n \in Numbers, Reserve(p, n)
              PROVE  attempt'[r] = attempt[r]
          <5>1. /\ trials[p][n].recipe \in Recipes
                /\ attempt[trials[p][n].recipe].status = "absent"
            BY <4>1 DEF Reserve, IInv, PcInv, TrialInv, TrialOK
          <5> QED BY <2>1, <3>2, <4>1, <5>1 DEF Reserve, Reserved, Table, Terminal
        <4>2. ASSUME NEW s \in Recipes, MarkRunning(s) PROVE attempt'[r] = attempt[r]
          BY <2>1, <3>2, <4>2 DEF MarkRunning, Table, Row, Terminal, IInv, PcInv
        <4>3. ASSUME NEW s \in Recipes, Resume(s) \/ FailFold(s) PROVE attempt'[r] = attempt[r]
          BY <2>1, <3>2, <4>3 DEF Resume, FailFold, Completed, Table, Terminal
        <4>4. ASSUME NEW s \in Recipes, Complete(s) PROVE attempt'[r] = attempt[r]
          <5>1. attempt[s].status = "running"
            BY <4>4, PcFields DEF Complete, IInv, FitInv
          <5> QED BY <2>1, <3>2, <4>4, <5>1 DEF Complete, Completed, Deferred, Table, Terminal
        <4>5. ASSUME NEW s \in Recipes, FitEnds(s) PROVE attempt'[r] = attempt[r]
          BY <4>5 DEF FitEnds
        <4> QED BY <2>6, <4>1, <4>2, <4>3, <4>4, <4>5 DEF AttemptStep
      <3> QED BY <2>2, <2>4, <3>1, <3>2
    <2>7. CASE RecoveryStep
      <3>1. ASSUME NEW r \in Recipes, attempt[r].status \in Terminal
            PROVE  /\ attempt'[r] = [attempt[r] EXCEPT !.told = attempt'[r].told]
                   /\ attempt[r].told => attempt'[r].told
        <4>1. ASSUME NEW s \in Recipes, RecoverRow(s) PROVE attempt'[r] = attempt[r]
          BY <2>1, <3>1, <4>1 DEF RecoverRow, Completed, Deferred, Table, Terminal
        <4>2. ASSUME NEW s \in Recipes, MarkTold(s), s = r
              PROVE  attempt'[r] = [attempt[r] EXCEPT !.told = TRUE] /\ attempt'[r].told
          BY <2>1, <4>2 DEF MarkTold, Table, Row
        <4>3. ASSUME NEW s \in Recipes, MarkTold(s), s # r PROVE attempt'[r] = attempt[r]
          BY <2>1, <4>3 DEF MarkTold, Table
        <4>4. ASSUME NEW p \in Programs, NEW n \in Numbers, RecoverOrphan(p, n)
              PROVE  attempt'[r] = attempt[r]
          <5>1. trials[p][n].recipe \in Recipes
            BY <4>4 DEF RecoverOrphan, Orphans, Whole, IInv, TrialInv, TrialOK
          <5> QED BY <2>1, <3>1, <4>4, <5>1 DEF RecoverOrphan, Reserved, Table, Terminal
        <4>5. RecoverRunning => attempt'[r] = attempt[r]
          BY <3>1 DEF RecoverRunning, Terminal
        <4>6. \/ Start \/ TellsDone \/ TellsBlocked \/ Drain \/ OrphansDone \/ EndIteration
              \/ Crash \/ \E s \in Recipes : Tell(s)
              => attempt'[r] = attempt[r]
          BY DEF Start, TellsDone, TellsBlocked, Drain, OrphansDone, EndIteration, Crash, Tell
        <4>7. \/ attempt'[r] = attempt[r]
              \/ attempt'[r] = [attempt[r] EXCEPT !.told = TRUE] /\ attempt'[r].told
          BY <2>7, <4>1, <4>2, <4>3, <4>4, <4>5, <4>6 DEF RecoveryStep
        <4> QED BY <2>1, <2>2, <4>7 DEF Table, Row
      <3>2. ASSUME NEW p \in Programs, NEW n \in Numbers,
                   trials[p][n].state \in {"complete", "fail", "pruned"}
            PROVE  trials'[p][n] = trials[p][n]
        <4>1. ASSUME NEW s \in Recipes, Tell(s) PROVE trials'[p][n] = trials[p][n]
          <5>1. attempt[s].owner \in Owners
            BY <4>1 DEF Tell, PendingTells, Terminal, IInv, RowInv, RowOK
          <5>2. attempt[s].owner[1] \in Programs /\ attempt[s].owner[2] \in Numbers
            BY <5>1 DEF Owners
          <5> QED BY <2>1, <3>2, <4>1, <5>2 DEF Tell, Running, Told, Journal
        <4>2. Start => trials'[p][n] = trials[p][n]
          BY <3>2 DEF Start, RetireIncomplete, Running
        <4>3. \/ RecoverRunning \/ TellsDone \/ TellsBlocked \/ Drain \/ OrphansDone
              \/ EndIteration \/ Crash \/ \E s \in Recipes : RecoverRow(s) \/ MarkTold(s)
              \/ \E q \in Programs, m \in Numbers : RecoverOrphan(q, m)
              => trials'[p][n] = trials[p][n]
          BY DEF RecoverRunning, TellsDone, TellsBlocked, Drain, OrphansDone, EndIteration,
             Crash, RecoverRow, MarkTold, RecoverOrphan
        <4> QED BY <2>7, <4>1, <4>2, <4>3 DEF RecoveryStep
      <3> QED BY <2>4, <3>1, <3>2
    <2> QED BY <2>5, <2>6, <2>7 DEF Next
  <1> QED BY <1>1, TrialInvariantHolds, PTL DEF Spec, OutcomesAreFinal

(* A step adds at most one budget-consuming trial to a study, and only     *)
(* while the study is below its budget.                                    *)
LEMMA UnprunedGrowth ==
  ASSUME IInv, [Next]_vars, NEW p \in Programs
  PROVE  \/ Unpruned(p)' \subseteq Unpruned(p)
         \/ /\ Cardinality(Unpruned(p)) < Budget
            /\ \E n \in Numbers : Unpruned(p)' \subseteq Unpruned(p) \cup {n}
  <1>1. trials \in Journal
    BY TypeParts DEF IInv
  <1>2. ASSUME NEW q \in Programs, BeginAsk(q), q = p
        PROVE  /\ Cardinality(Unpruned(p)) < Budget
               /\ \E n \in Numbers : Unpruned(p)' \subseteq Unpruned(p) \cup {n}
    BY <1>1, <1>2 DEF BeginAsk, Unpruned, Journal
  <1>3. ASSUME NEW q \in Programs, BeginAsk(q), q # p
        PROVE  Unpruned(p)' \subseteq Unpruned(p)
    BY <1>1, <1>3 DEF BeginAsk, Unpruned, Journal
  <1>4. ASSUME NEW q \in Programs, NEW m \in Numbers,
               RejectSuggestion(q, m) \/ SetAttribute(q, m) \/ EndAsk(q, m)
        PROVE  Unpruned(p)' \subseteq Unpruned(p)
    <2>1. trials[q][m].state = "running"
      BY <1>4 DEF IInv, PcInv, RejectSuggestion, SetAttribute, EndAsk, Asking
    <2>2. m \in Unpruned(q)
      BY <2>1 DEF Unpruned
    <2>3. \A k \in Numbers : <<q, m>> # <<p, k>> => trials'[p][k] = trials[p][k]
      <3>1. \/ trials' = trials
            \/ \E t : trials' = [trials EXCEPT ![q][m] = t]
        BY <1>4 DEF RejectSuggestion, SetAttribute, EndAsk
      <3> QED BY <1>1, <3>1 DEF Journal
    <2> QED BY <2>2, <2>3 DEF Unpruned
  <1>5. ASSUME trials' = RetireIncomplete
        PROVE  Unpruned(p)' \subseteq Unpruned(p)
    BY <1>1, <1>5 DEF RetireIncomplete, Running, Unpruned, Journal, Trial
  <1>6. ASSUME NEW r \in Recipes, Tell(r)
        PROVE  Unpruned(p)' \subseteq Unpruned(p)
    <2>1. attempt[r].owner \in Owners
      BY <1>6 DEF Tell, PendingTells, Terminal, IInv, RowInv, RowOK
    <2>2. attempt[r].owner[1] \in Programs /\ attempt[r].owner[2] \in Numbers
      BY <2>1 DEF Owners
    <2> QED BY <1>1, <1>6, <2>2 DEF Tell, Told, Running, Unpruned, Journal, Trial
  <1>7. UNCHANGED trials => Unpruned(p)' \subseteq Unpruned(p)
    BY DEF Unpruned
  <1>8. CASE OptunaStep
    BY <1>2, <1>3, <1>4, <1>5, <1>8 DEF OptunaStep, AskFails
  <1>9. CASE AttemptStep
    BY <1>7, <1>9 DEF AttemptStep, Reserve, MarkRunning, Resume, FailFold, FitEnds, Complete
  <1>10. CASE RecoveryStep
    BY <1>5, <1>6, <1>7, <1>10 DEF RecoveryStep, Start, RecoverRunning, TellsDone, TellsBlocked,
       Drain, OrphansDone, EndIteration, Crash, RecoverRow, MarkTold, RecoverOrphan
  <1>11. CASE UNCHANGED vars
    BY <1>7, <1>11 DEF vars
  <1> QED BY <1>8, <1>9, <1>10, <1>11 DEF Next

LEMMA UnprunedFinite ==
  ASSUME NEW p \in Programs
  PROVE  /\ IsFiniteSet(Unpruned(p)) /\ Cardinality(Unpruned(p)) \in Nat
         /\ \A n \in Numbers : /\ IsFiniteSet(Unpruned(p) \cup {n})
                             /\ Cardinality(Unpruned(p) \cup {n}) <= Cardinality(Unpruned(p)) + 1
  <1>1. IsFiniteSet(Numbers)
    BY FS_Interval, BoundsAssumption DEF Numbers
  <1>2. IsFiniteSet(Unpruned(p))
    BY <1>1, FS_Subset DEF Unpruned
  <1>3. ASSUME NEW n \in Numbers
        PROVE  /\ IsFiniteSet(Unpruned(p) \cup {n})
               /\ Cardinality(Unpruned(p) \cup {n}) <= Cardinality(Unpruned(p)) + 1
    <2>1. /\ IsFiniteSet(Unpruned(p) \cup {n})
          /\ \/ Cardinality(Unpruned(p) \cup {n}) = Cardinality(Unpruned(p))
             \/ Cardinality(Unpruned(p) \cup {n}) = Cardinality(Unpruned(p)) + 1
      BY <1>2, FS_AddElement
    <2>2. Cardinality(Unpruned(p)) \in Nat
      BY <1>2, FS_CardinalityType
    <2> QED BY <2>1, <2>2
  <1> QED BY <1>2, <1>3, FS_CardinalityType

(* Interrupted, retired, rejected and repeated asks together never take a  *)
(* program past max_trials.                                                *)
THEOREM BudgetRespected == Spec => []BudgetHeld
  <1>1. Init => BudgetHeld
    <2> SUFFICES ASSUME Init, NEW p \in Programs PROVE Cardinality(Unpruned(p)) <= Budget
      BY DEF BudgetHeld
    <2>1. Unpruned(p) = {}
      BY DEF Init, Unpruned, NoTrial
    <2> QED BY <2>1, FS_EmptySet, BoundsAssumption
  <1>2. IInv /\ BudgetHeld /\ [Next]_vars => BudgetHeld'
    <2> SUFFICES ASSUME IInv, BudgetHeld, [Next]_vars, NEW p \in Programs
                 PROVE  Cardinality(Unpruned(p)') <= Budget
      BY DEF BudgetHeld
    <2>1. IsFiniteSet(Unpruned(p)) /\ Cardinality(Unpruned(p)) \in Nat
      BY UnprunedFinite
    <2>2. Cardinality(Unpruned(p)) <= Budget
      BY DEF BudgetHeld
    <2>3. CASE Unpruned(p)' \subseteq Unpruned(p)
      <3>1. Cardinality(Unpruned(p)') \in Nat /\ Cardinality(Unpruned(p)') <= Cardinality(Unpruned(p))
        BY <2>1, <2>3, FS_Subset, FS_CardinalityType
      <3> QED BY <2>1, <2>2, <3>1, BoundsAssumption
    <2>4. ASSUME NEW n \in Numbers, Cardinality(Unpruned(p)) < Budget,
                 Unpruned(p)' \subseteq Unpruned(p) \cup {n}
          PROVE  Cardinality(Unpruned(p)') <= Budget
      <3> DEFINE S == Unpruned(p) \cup {n}
      <3>1. /\ IsFiniteSet(S) /\ Cardinality(S) \in Nat
            /\ Cardinality(S) <= Cardinality(Unpruned(p)) + 1
        BY UnprunedFinite, FS_CardinalityType
      <3>2. Unpruned(p)' \subseteq S
        BY <2>4
      <3> HIDE DEF S
      <3>3. Cardinality(Unpruned(p)') \in Nat /\ Cardinality(Unpruned(p)') <= Cardinality(S)
        BY <3>1, <3>2, FS_Subset, FS_CardinalityType
      <3> QED BY <2>1, <2>4, <3>1, <3>3, BoundsAssumption
    <2> QED BY <2>3, <2>4, UnprunedGrowth
  <1> QED BY <1>1, <1>2, TrialInvariantHolds, PTL DEF Spec
=============================================================================
