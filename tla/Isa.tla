--------------------------------- MODULE Isa ---------------------------------
(***************************************************************************)
(* The instruction set as the core's control sees it (isa/isa.h,           *)
(* isa/execute.cpp): which operands an instruction reads, what it writes,  *)
(* whether it may redirect.  Arithmetic is reduced to one operation, the   *)
(* sum of what an instruction names, over values modulo NVals: enough to   *)
(* tell a right operand from a wrong one.                                  *)
(***************************************************************************)
EXTENDS Integers

CONSTANTS NVals,    \* values are 0 .. NVals - 1
          LastPc,   \* instructions are at 0 .. LastPc
          MemSize,  \* memory is at addresses 0 .. MemSize - 1
          InitMem   \* what the loader put there

ASSUME IsaAssumption ==
  /\ NVals \in Nat \ {0} /\ LastPc \in Nat
  /\ MemSize \in Nat /\ MemSize <= NVals
  /\ InitMem \in [0 .. MemSize - 1 -> 0 .. NVals - 1]

Values == 0 .. NVals - 1
Pcs    == 0 .. LastPc
Addrs  == 0 .. MemSize - 1

(* jump stands for JAL and JALR, sys for ECALL that reads input (and       *)
(* FENCE), show for ECALL that presents memory, halt for EBREAK, ILLEGAL   *)
(* and ECALL that exits.                                                   *)
IsLoad(I)   == I.op = "load"
IsStore(I)  == I.op = "store"
IsMem(I)    == I.op \in {"load", "store"}
IsBranch(I) == I.op \in {"branch", "jump"}
IsSystem(I) == I.op \in {"sys", "show", "halt"}
WritesRd(I) == I.op \in {"alu", "load", "jump"}
UsesRs1(I)  == I.op \in {"alu", "load", "store", "branch", "jump"}
UsesRs2(I)  == I.op \in {"alu", "store", "branch"}

(* execute(): a result (an address, for a memory access) and the true      *)
(* direction.  A jump goes to its immediate plus its register, as JALR.    *)
Execute(I, pc, a, b) ==
  [value    |-> CASE I.op = "alu"  -> (a + b + I.imm) % NVals
                  [] IsMem(I)      -> (a + I.imm) % NVals
                  [] I.op = "jump" -> (pc + 1) % NVals
                  [] OTHER         -> 0,
   redirect |-> I.op = "jump" \/ (I.op = "branch" /\ a # b),
   target   |-> IF I.op = "jump" THEN (I.imm + a) % (LastPc + 1) ELSE I.imm]
=============================================================================
