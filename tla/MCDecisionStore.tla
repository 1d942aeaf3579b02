--------------------------- MODULE MCDecisionStore ---------------------------
(* A small instance of DecisionStore: one signature, and the answers that   *)
(* meet in it.                                                              *)
EXTENDS DecisionStore

CONSTANT s

Decide(sig, ext, ret) == [signature |-> sig, extends |-> ext, retires |-> ret]

MCSignatures == {s}

MCAnswers ==
    {Decide(s, {}, {}),         \* a new program
     Decide(s, {0}, {}),        \* a new program and an extension
     Decide(None, {0}, {}),     \* an extension only
     Decide(None, {1}, {0})}    \* extend one program, retire another
=============================================================================
