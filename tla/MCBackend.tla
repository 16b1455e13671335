----------------------------- MODULE MCBackend ------------------------------
(* Model-checking instance of Backend: small programs, each built around    *)
(* one difficulty.                                                          *)
EXTENDS Backend, TLC

In(op, rd, rs1, rs2, imm) == [op |-> op, rd |-> rd, rs1 |-> rs1, rs2 |-> rs2, imm |-> imm]
Program(a, b, c, d) ==
  [pc \in Pcs |-> CASE pc = 0 -> a [] pc = 1 -> b [] pc = 2 -> c [] pc = 3 -> d
                    [] OTHER -> In("halt", 0, 0, 0, 0)]

(* A chain of dependences on one register across a branch whose wrong path  *)
(* renames it again.                                                        *)
Chain == Program(In("alu", 1, 1, 2, 1), In("branch", 0, 1, 0, 3),
                 In("alu", 1, 1, 1, 2), In("alu", 2, 1, 2, 0))

(* A store whose datum comes late, and a load of the same word.             *)
LateData == Program(In("load", 1, 2, 0, 1), In("store", 0, 2, 1, 0),
                    In("load", 2, 1, 0, 0), In("alu", 1, 1, 2, 0))

(* A store whose address comes late; the stale value of the load behind it  *)
(* is an address outside memory.                                            *)
LateAddress == Program(In("load", 1, 0, 0, 1), In("store", 0, 1, 1, 0),
                       In("load", 2, 0, 0, 0), In("load", 1, 2, 0, 0))

(* A store that the next syscall shows, for any input: it may lie outside   *)
(* memory, and so may the next store.                                       *)
Output == Program(In("sys", 0, 0, 0, 0), In("store", 0, 0, 1, 1),
                  In("show", 0, 0, 0, 0), In("store", 0, 1, 1, 1))

(* A jump through a register, linking into a register of the wrong path,    *)
(* and a syscall between two uses of its result.                            *)
JumpSys == Program(In("alu", 1, 0, 0, 2), In("jump", 2, 1, 0, 0),
                   In("sys", 0, 0, 0, 0), In("alu", 2, 1, 2, 0))

(* A loop that stores its counter to one word.                              *)
Loop == Program(In("alu", 1, 1, 0, 1), In("store", 0, 0, 1, 1),
                In("branch", 0, 1, 0, 0), In("load", 2, 0, 0, 1))

SmallPrograms == {Chain, LateData, LateAddress, Output, JumpSys, Loop}
SmallMem == 0 :> 2 @@ 1 :> 0
=============================================================================
