----------------------------- MODULE MCHandles -----------------------------
(* Handles, fields and types for model checking ApiCalls.                   *)
EXTENDS ApiCalls, TLC

CONSTANTS s1, s2

MCFieldValues == {
  <<"DATA_PTR", NULL>>, <<"DATA_PTR", "buffer2">>, <<"COUNT", 1>>,
  <<"CONCISE_TYPE", "TYPE_DATE">>, <<"CONCISE_TYPE", "DATETIME">>,
  <<"TYPE", "CHAR">>, <<"TYPE", "INTERVAL">>,
  <<"DATETIME_INTERVAL_CODE", "CODE_YEAR_TO_MONTH">>, <<"LENGTH", 1>>}

\* Copies from and to the descriptors of the application
MCCopies == {p \in DescIds \X DescIds : p[1] \in Descs \/ p[2] \in Descs}

MCMaxCalls == 0 :> 2 @@ 1 :> 1 @@ 2 :> 1 @@ 3 :> 1

MCSymmetry == Permutations({s1, s2})
=============================================================================
