----------------------------- MODULE MCFrontEnd -----------------------------
(***************************************************************************)
(* A function is called or branched around, and returns inside the program *)
(* or outside memory.                                                      *)
(***************************************************************************)
EXTENDS FrontEnd

MCKind == [w \in 0 .. 5 |-> CASE w = 0 -> "cond" [] w = 1 -> "call"
                              [] w = 4 -> "jump" [] w = 5 -> "ret" [] OTHER -> "plain"]
MCTarget == [w \in 0 .. 5 |-> CASE w = 0 -> 4 [] w = 1 -> 5 [] OTHER -> 2]
MCReturns == {2, 6}

(* The jump gets another target, or becomes an instruction that does not    *)
(* branch.                                                                  *)
MCRetargeted == {[pc |-> 4, kind |-> "jump", target |-> 5]}
MCNoBranch   == {[pc |-> 4, kind |-> "plain", target |-> 2]}
=============================================================================
