------------------------------- MODULE InOrder -------------------------------
(***************************************************************************)
(* What the out-of-order core promises: the registers, memory and commit   *)
(* records of the functional model (core/refmodel.cpp), which executes one *)
(* instruction at a time.  The checker in sim/main.cpp compares the two,   *)
(* commit by commit and once more at the end.                              *)
(***************************************************************************)
EXTENDS Isa

CONSTANTS NArch,    \* architectural registers are 0 .. NArch - 1
          A0        \* the register a syscall returns its input in

VARIABLES code,     \* the program: pc -> instruction
          ipc,      \* RefModel::pc
          regs,     \* RefModel::regs
          imem,     \* RefModel::mem
          ended,    \* RefModel::halted_, or an access that ends the program
          rec       \* the last CommitRecord

ivars == <<code, ipc, regs, imem, ended, rec>>

NoRecord == [pc |-> -1, wrote |-> {}]

IInit ==
  /\ ipc = 0
  /\ regs = [r \in 0 .. NArch - 1 |-> 0]
  /\ imem = InitMem
  /\ ended = "no"
  /\ rec = NoRecord

Now == code[ipc]

Executed ==
  Execute(Now, ipc, IF UsesRs1(Now) THEN regs[Now.rs1] ELSE 0,
                    IF UsesRs2(Now) THEN regs[Now.rs2] ELSE 0)

(* The default case of RefModel::step.                                     *)
Plain ==
  LET x == Executed
      b == regs[Now.rs2]
      result == IF IsLoad(Now) THEN imem[x.value] ELSE x.value
      writes == WritesRd(Now) /\ Now.rd # 0
  IN  /\ ~IsSystem(Now)
      /\ IsMem(Now) => x.value \in Addrs
      /\ imem' = IF IsStore(Now) THEN [imem EXCEPT ![x.value] = b] ELSE imem
      /\ regs' = IF writes THEN [regs EXCEPT ![Now.rd] = result] ELSE regs
      /\ rec' = [pc |-> ipc,
                 wrote |-> IF writes THEN {<<"reg", Now.rd, result>>}
                           ELSE IF IsStore(Now) THEN {<<"mem", x.value, b>>} ELSE {}]
      /\ ipc' = IF x.redirect THEN x.target ELSE ipc + 1
      /\ UNCHANGED ended

(* An access outside memory, by a load, a store or a syscall.              *)
OutOfRange ==
  /\ \/ IsMem(Now) /\ Executed.value \notin Addrs
     \/ Now.op = "show" /\ regs[A0] \notin Addrs
  /\ ended' = "failed"
  /\ UNCHANGED <<ipc, regs, imem, rec>>

(* The input comes from outside (the functional model replays what the     *)
(* core was given).                                                        *)
Syscall ==
  \E input \in Values :
    /\ Now.op = "sys"
    /\ regs' = [regs EXCEPT ![A0] = input]
    /\ rec' = [pc |-> ipc, wrote |-> {<<"reg", A0, input>>}]
    /\ ipc' = ipc + 1
    /\ UNCHANGED <<imem, ended>>

(* A frame or a string shows what memory holds at this point.              *)
Show ==
  /\ Now.op = "show" /\ regs[A0] \in Addrs
  /\ rec' = [pc |-> ipc, wrote |-> {<<"out", regs[A0], imem[regs[A0]]>>}]
  /\ ipc' = ipc + 1
  /\ UNCHANGED <<regs, imem, ended>>

Halt ==
  /\ Now.op = "halt"
  /\ ended' = "halted"
  /\ rec' = [pc |-> ipc, wrote |-> {}]
  /\ UNCHANGED <<ipc, regs, imem>>

INext ==
  /\ ended = "no"
  /\ UNCHANGED code
  /\ Plain \/ OutOfRange \/ Syscall \/ Show \/ Halt

ISpec == IInit /\ [][INext]_ivars
=============================================================================
