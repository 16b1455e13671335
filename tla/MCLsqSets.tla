------------------------------ MODULE MCLsqSets ------------------------------
(* Model-checking instance of LsqSets.  The pair at 1 is misaligned and     *)
(* touches both words; the second lies outside memory.                      *)
EXTENDS LsqSets

FaultAccesses == {<<0, 1>>, <<0, 2>>, <<1, 2>>}
=============================================================================
