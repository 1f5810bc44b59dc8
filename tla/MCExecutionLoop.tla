-------------------------- MODULE MCExecutionLoop --------------------------
(* Constants of the loop run: a new search, a search resumed near the      *)
(* limit, and the -1 of a file that could not be read.                     *)
EXTENDS ExecutionLoop

LoopStarts == {-1, 1, 3}
=============================================================================
