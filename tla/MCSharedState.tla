--------------------------- MODULE MCSharedState ---------------------------
(***************************************************************************)
(* What the threads of an application share, for TLC: the AWS SDK of all   *)
(* connections and the cursor names of one of them.  Some threads allocate *)
(* and free connections while others name and drop the statements of a     *)
(* connection that stays.  Connections are interchangeable, and so are     *)
(* statements and good names.                                              *)
(***************************************************************************)
EXTENDS AwsSdkLifecycle, CursorNames, TLC

CONSTANTS c1, c2, c3, s1, s2, s3, n1, n2, bad

MCConns == {c1, c2, c3}
MCStmts == {s1, s2, s3}
MCNames == {n1, n2, bad}
MCBadNames == {bad}
Symmetry ==
  Permutations(MCConns) \cup Permutations(MCStmts) \cup Permutations({n1, n2})

SharedInit == Init /\ NamesInit
SharedNext ==
  \/ Next /\ UNCHANGED namesVars
  \/ NamesNext /\ UNCHANGED vars
SharedSpec == SharedInit /\ [][SharedNext]_<<vars, namesVars>>
=============================================================================
