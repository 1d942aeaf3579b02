--------------------------- MODULE AttemptOutcome ----------------------------
(***************************************************************************)
(* What the ledger and the supervisor promise about one attempt: at most   *)
(* one result is ever accepted, an accepted result becomes the outcome,    *)
(* nothing else does, and the outcome is final.                            *)
(***************************************************************************)

VARIABLES
    outcome,   \* open, completed or failed
    accepted   \* a result has been published

OutcomeInit == outcome = "open" /\ accepted = FALSE

\* A result is published while the attempt is open.
Publish == outcome = "open" /\ ~accepted /\ accepted' = TRUE /\ UNCHANGED outcome

\* The published result is the outcome.
Succeed == outcome = "open" /\ accepted /\ outcome' = "completed" /\ UNCHANGED accepted

\* Only an attempt without a result fails.
Fail == outcome = "open" /\ ~accepted /\ outcome' = "failed" /\ UNCHANGED accepted

OutcomeSpec ==
    OutcomeInit /\ [][Publish \/ Succeed \/ Fail]_<<outcome, accepted>>
=============================================================================
