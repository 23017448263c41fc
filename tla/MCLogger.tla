------------------------------ MODULE MCLogger ------------------------------
(* Threads and directories for model checking Logger.                      *)
EXTENDS Logger

CONSTANTS t1, t2, home, other, readonly
=============================================================================
