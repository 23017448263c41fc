---------------------------- MODULE MCStatement ----------------------------
(***************************************************************************)
(* Results of up to three rows, read in rowsets of one or two rows: a      *)
(* rowset may lie inside the result, across its end or behind it.          *)
(***************************************************************************)
EXTENDS Statement
=============================================================================
