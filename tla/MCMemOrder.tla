----------------------------- MODULE MCMemOrder -----------------------------
(* Model-checking instance of MemOrder.  MemBytes = 2: a single byte, and   *)
(* the pair that overlaps it.                                               *)
EXTENDS MemOrder

SmallAccesses == {<<0, 1>>, <<0, 2>>}
=============================================================================
