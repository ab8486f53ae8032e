---------------------------- MODULE MCRunLedger ----------------------------
(***************************************************************************)
(* RunLedger for TLC: a bound on the instances an operator puts in the     *)
(* place of others.                                                        *)
(***************************************************************************)
EXTENDS RunLedger, FiniteSets

OneReplacement == Cardinality({v \in Visits : retry[v].kind # "none"}) <= 1
=============================================================================
