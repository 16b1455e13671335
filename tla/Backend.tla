------------------------------- MODULE Backend -------------------------------
(***************************************************************************)
(* The out-of-order core: the reorder buffer, physical register file       *)
(* (core/rename.h), issue queue (core/iq.h), functional units (core/fu.h), *)
(* load/store queue and store buffer (core/lsq.h), and the stages of       *)
(* core/ooo.cpp over them: dispatch, issue, aguDrain, lsqOperate,          *)
(* writeback, commit and recover.  Renaming is module Rename, whose        *)
(* actions are conjuncts of the ones here.                                 *)
(*                                                                         *)
(* One action is one instruction's step through a stage.  Unit counts,     *)
(* latencies, port counts and widths are abstracted: any instruction whose *)
(* turn may come in some configuration can go next.                        *)
(*                                                                         *)
(* The predictor is arbitrary: a prediction is whatever direction and      *)
(* target, and only a branch can be predicted taken.  Fetch is reduced to  *)
(* the pc of the next instruction to dispatch.                             *)
(*                                                                         *)
(* Memory is Speculative mode, of which the other modes are the cases      *)
(* where loads happen to wait.  Module MemOrder has the engine in detail;  *)
(* here accesses are whole words, a load leaves the AGU when it reads      *)
(* memory, and a buffered store reaches memory as it leaves the buffer,    *)
(* for until then loads find it there.                                     *)
(***************************************************************************)
EXTENDS Rename, Isa, Sequences, FiniteSets

CONSTANTS IqSize,    \* SimConfig::iqSize
          LsqSize, SbSize,
          A0,        \* the register a syscall reads and writes (x10)
          Programs   \* the programs to run: functions from Pcs to instructions

Instructions == [op : {"alu", "load", "store", "branch", "jump", "sys", "show", "halt"},
                 rd : ArchRegs, rs1 : ArchRegs, rs2 : ArchRegs, imm : Int]

(* Branches stay within the program, and what lies behind it is illegal.   *)
ASSUME BackendAssumption ==
  /\ IqSize \in Nat \ {0} /\ LsqSize \in Nat \ {0} /\ SbSize \in Nat \ {0}
  /\ A0 \in ArchRegs \ {0}
  /\ \A P \in Programs :
       /\ P \in [Pcs -> Instructions] /\ P[LastPc].op = "halt"
       /\ \A pc \in Pcs : P[pc].op = "branch" => P[pc].imm \in Pcs

VARIABLES code,      \* the program
          fpc,       \* pc of the next instruction to dispatch
          ins,       \* RobEntry: pc, instruction, prediction and outcome
          done,      \* RobEntry::done
          lsq,       \* LsqEntry: address and, of a store, the datum, when known
          val,       \* PhysRegFile::val
          ready,     \* PhysRegFile::ready
          iq,        \* IssueQueue: the waiting entries
          ops,       \* FuOps in the units, and loads past the AGU
          sb,        \* StoreBuffer: committed stores, oldest first
          mem,       \* the memory system
          ended,     \* "halted" by the program, "failed" by a fault, or "no"
          rec        \* the last CommitRecord

prf == <<val, ready>>
memory == <<sb, mem>>
backVars == <<renameVars, code, fpc, ins, done, lsq, prf, iq, ops, memory,
              ended, rec>>

NoInstr == [op |-> "alu", rd |-> 0, rs1 |-> 0, rs2 |-> 0, imm |-> 0]
NotTaken == [taken |-> FALSE, target |-> 0]
NoIns   == [pc |-> 0, I |-> NoInstr, pred |-> NotTaken]
NoLsq   == [preg |-> NoReg, addrValid |-> FALSE, addr |-> 0, dataReady |-> FALSE, data |-> 0]

Slot(k) == IndexOf(RobSize, robHead, k)
Ages    == 0 .. robCount - 1
Ins(k)  == ins[Slot(k)]

BackInit ==
  /\ RenameInit
  /\ code \in Programs /\ fpc = 0
  /\ ins = [s \in Slots |-> NoIns]
  /\ done = [s \in Slots |-> FALSE]
  /\ lsq = [s \in Slots |-> NoLsq]
  /\ val = [p \in Pregs |-> 0] /\ ready = [p \in Pregs |-> TRUE]
  /\ iq = {} /\ ops = {}
  /\ sb = <<>> /\ mem = InitMem
  /\ ended = "no"
  /\ rec = [pc |-> -1, wrote |-> {}]
-----------------------------------------------------------------------------
(* dispatchStage, one instruction *)

Predictions(I) ==
  {NotTaken} \cup (IF IsBranch(I) THEN [taken : {TRUE}, target : Pcs] ELSE {})

NextPc(pc, outcome) == IF outcome.taken THEN outcome.target ELSE pc + 1

(* Sources renamed after the destination has displaced them.               *)
BugIqEntry(I) ==
  [seq |-> seqCtr, slot |-> Slot(robCount), ps1 |-> map'[I.rs1], ps2 |-> map'[I.rs2],
   blocked1 |-> UsesRs1(I) /\ ~ready[map'[I.rs1]],
   blocked2 |-> UsesRs2(I) /\ ~IsStore(I) /\ ~ready[map'[I.rs2]]]

(* Sources rename through the map as it was before the destination         *)
(* displaces anything.  A store's data does not gate its issue.            *)
IqEntry(I) ==
  [seq |-> seqCtr, slot |-> Slot(robCount), ps1 |-> map[I.rs1], ps2 |-> map[I.rs2],
   blocked1 |-> UsesRs1(I) /\ ~ready[map[I.rs1]],
   blocked2 |-> UsesRs2(I) /\ ~IsStore(I) /\ ~ready[map[I.rs2]]]

(* LSQ::setStoreSource.                                                    *)
StoreSource(p) == [NoLsq EXCEPT !.preg = p, !.dataReady = ready[p], !.data = val[p]]

(* A system instruction that does not wait for the store buffer.           *)
BugDrained == robCount = 0

Drained == robCount = 0 /\ sb = <<>>

(* A system instruction waits for an empty machine.  It is done at once,   *)
(* and commitStage runs before dispatchStage, so nothing is dispatched     *)
(* behind it.                                                              *)
MayDispatch(I) ==
  /\ \A k \in Ages : ~IsSystem(Ins(k).I)
  /\ IsSystem(I) => Drained
  /\ Cardinality(iq) < IqSize
  /\ IsMem(I) => Cardinality({k \in Ages : IsMem(Ins(k).I)}) < LsqSize

Dispatch ==
  LET I == code[fpc]
      s == Slot(robCount)
  IN  /\ MayDispatch(I)
      /\ RenameDispatch(IF WritesRd(I) THEN I.rd ELSE NoReg)
      /\ ready' = IF WritesRd(I) /\ I.rd # 0
                  THEN [ready EXCEPT ![map'[I.rd]] = FALSE] ELSE ready
      /\ done' = [done EXCEPT ![s] = IsSystem(I)]
      /\ lsq' = [lsq EXCEPT ![s] = IF IsStore(I) THEN StoreSource(map[I.rs2]) ELSE NoLsq]
      /\ iq' = IF IsSystem(I) THEN iq ELSE iq \cup {IqEntry(I)}
      /\ \E pred \in Predictions(I) :
           /\ ins' = [ins EXCEPT ![s] = [pc |-> fpc, I |-> I, pred |-> pred]]
           /\ fpc' = NextPc(fpc, pred)
      /\ UNCHANGED <<code, val, ops, memory, ended, rec>>
-----------------------------------------------------------------------------
(* recover() *)

(* A flush that spares the oldest instruction it should remove.            *)
BugOlder(S, seq) == {o \in S : o.seq <= seq + 1}

(* Everything younger than seq leaves the queue and the units.             *)
Older(S, seq) == {o \in S : o.seq <= seq}

(* issueStage, one instruction: any ready entry, for its unit may be the   *)
(* only one free.                                                          *)
Issue ==
  \E q \in iq :
    /\ ~q.blocked1 /\ ~q.blocked2
    /\ LET e == ins[q.slot]
           x == Execute(e.I, e.pc, val[q.ps1], val[q.ps2])
       IN  ops' = ops \cup
             {[seq |-> q.seq, slot |-> q.slot, pdst |-> rob[q.slot].pdst,
               unit |-> IF IsMem(e.I) THEN "agu" ELSE "unit", value |-> x.value,
               outcome |-> [taken |-> x.redirect, target |-> x.target]]}
    /\ iq' = iq \ {q}
    /\ UNCHANGED <<renameVars, code, fpc, ins, done, lsq, prf, memory, ended, rec>>
-----------------------------------------------------------------------------
(* aguDrain and lsqOperate, one operation *)

KnownStores(k, addr) ==
  {j \in 0 .. k - 1 : IsStore(Ins(j).I) /\ lsq[Slot(j)].addrValid /\ lsq[Slot(j)].addr = addr}
Youngest(S) == CHOOSE j \in S : \A i \in S : i <= j

Buffered(addr) == {i \in 1 .. Len(sb) : sb[i].addr = addr}

(* A load takes the datum of the nearest older store to its address whose  *)
(* address is known, else the newest committed one, else reads memory.  An *)
(* access outside memory yields a zero, for the path may be wrong.         *)
LoadValue(k, addr) ==
  IF addr \notin Addrs THEN 0
  ELSE IF KnownStores(k, addr) # {} THEN lsq[Slot(Youngest(KnownStores(k, addr)))].data
  ELSE IF Buffered(addr) # {} THEN sb[Youngest(Buffered(addr))].data
  ELSE mem[addr]

Blocked(k, addr) ==
  /\ addr \in Addrs /\ KnownStores(k, addr) # {}
  /\ ~lsq[Slot(Youngest(KnownStores(k, addr)))].dataReady

(* Stores of unknown address are passed; the datum is written back later.  *)
AccessLoad ==
  \E o \in ops, k \in Ages :
    /\ o.unit = "agu" /\ IsLoad(ins[o.slot].I) /\ o.slot = Slot(k)
    /\ ~Blocked(k, o.value)
    /\ lsq' = [lsq EXCEPT ![o.slot].addrValid = TRUE, ![o.slot].addr = o.value]
    /\ ops' = (ops \ {o}) \cup {[o EXCEPT !.unit = "load", !.value = LoadValue(k, o.value)]}
    /\ UNCHANGED <<renameVars, code, fpc, ins, done, prf, iq, memory, ended, rec>>

(* violationScan: younger loads that have read this address.               *)
Violated(k, addr) ==
  {j \in k + 1 .. robCount - 1 :
     IsLoad(Ins(j).I) /\ lsq[Slot(j)].addrValid /\ lsq[Slot(j)].addr = addr}

Oldest(S) == CHOOSE j \in S : \A i \in S : j <= i

(* A store's address, and the replay it may cause: flush from the oldest   *)
(* such load down and fetch it again.                                      *)
ResolveStore ==
  \E o \in ops, k \in Ages :
    /\ o.unit = "agu" /\ IsStore(ins[o.slot].I) /\ o.slot = Slot(k)
    /\ lsq' = [lsq EXCEPT ![o.slot].addrValid = TRUE, ![o.slot].addr = o.value]
    /\ done' = [done EXCEPT ![o.slot] = lsq[o.slot].dataReady]
    /\ IF o.value \in Addrs /\ Violated(k, o.value) # {}
       THEN LET load == Oldest(Violated(k, o.value)) IN
            /\ RenameRecover(Nth(load).seq - 1)
            /\ iq' = Older(iq, Nth(load).seq - 1)
            /\ ops' = Older(ops, Nth(load).seq - 1) \ {o}
            /\ fpc' = Ins(load).pc
       ELSE /\ ops' = ops \ {o}
            /\ UNCHANGED <<renameVars, fpc, iq>>
    /\ UNCHANGED <<code, ins, prf, memory, ended, rec>>

(* LSQ::captureStoreData.                                                  *)
CaptureStoreData ==
  \E k \in Ages :
    LET s == Slot(k) IN
      /\ IsStore(Ins(k).I) /\ ~lsq[s].dataReady /\ ready[lsq[s].preg]
      /\ lsq' = [lsq EXCEPT ![s].dataReady = TRUE, ![s].data = val[lsq[s].preg]]
      /\ done' = [done EXCEPT ![s] = lsq[s].addrValid]
      /\ UNCHANGED <<renameVars, code, fpc, ins, prf, iq, ops, memory, ended, rec>>

(* The oldest committed store is written and acknowledged.                 *)
DrainStore ==
  /\ sb # <<>>
  /\ mem' = [mem EXCEPT ![sb[1].addr] = sb[1].data]
  /\ sb' = Tail(sb)
  /\ UNCHANGED <<renameVars, code, fpc, ins, done, lsq, prf, iq, ops, ended, rec>>
-----------------------------------------------------------------------------
(* writebackStage, one result *)

(* A wakeup of the first source only.                                      *)
BugWake(q, p) == [q EXCEPT !.blocked1 = @ /\ q.ps1 # p]

(* IssueQueue::wakeup: the entries that wait on p stop waiting.            *)
Wake(q, p) == [q EXCEPT !.blocked1 = @ /\ q.ps1 # p, !.blocked2 = @ /\ q.ps2 # p]

(* RobEntry::mispredicted.                                                 *)
Mispredicted(e, outcome) ==
  /\ IsBranch(e.I)
  /\ \/ outcome.taken # e.pred.taken
     \/ outcome.taken /\ outcome.target # e.pred.target

(* The result reaches the register file and wakes its consumers.           *)
Deliver(o) ==
  /\ val' = IF o.pdst = NoReg THEN val ELSE [val EXCEPT ![o.pdst] = o.value]
  /\ ready' = IF o.pdst = NoReg THEN ready ELSE [ready EXCEPT ![o.pdst] = TRUE]
  /\ done' = [done EXCEPT ![o.slot] = TRUE]

Woken(o) == IF o.pdst = NoReg THEN iq ELSE {Wake(q, o.pdst) : q \in iq}

Writeback ==
  \E o \in ops :
    LET e == ins[o.slot] IN
      /\ o.unit # "agu"
      /\ Deliver(o)
      /\ IF Mispredicted(e, o.outcome)
         THEN /\ RenameRecover(o.seq)
              /\ iq' = Older(Woken(o), o.seq)
              /\ ops' = Older(ops, o.seq) \ {o}
              /\ fpc' = NextPc(e.pc, o.outcome)
         ELSE /\ iq' = Woken(o)
              /\ ops' = ops \ {o}
              /\ UNCHANGED <<renameVars, fpc>>
      /\ UNCHANGED <<code, ins, lsq, memory, ended, rec>>
-----------------------------------------------------------------------------
(* commitStage, one instruction *)

RobHead == Ins(0)

Faults == IsMem(RobHead.I) /\ lsq[robHead].addr \notin Addrs

CommitPlain ==
  /\ robCount > 0 /\ done[robHead]
  /\ ~IsSystem(RobHead.I) /\ ~Faults
  /\ IsStore(RobHead.I) => Len(sb) < SbSize
  /\ sb' = IF IsStore(RobHead.I)
           THEN Append(sb, [addr |-> lsq[robHead].addr, data |-> lsq[robHead].data]) ELSE sb
  /\ RenameCommit
  /\ rec' = [pc |-> RobHead.pc,
             wrote |-> IF Nth(0).pdst # NoReg
                       THEN {<<"reg", RobHead.I.rd, val[Nth(0).pdst]>>}
                       ELSE IF IsStore(RobHead.I)
                       THEN {<<"mem", lsq[robHead].addr, lsq[robHead].data>>} ELSE {}]
  /\ UNCHANGED <<code, fpc, ins, done, lsq, prf, iq, ops, mem, ended>>

(* A fault becomes real only here, on the committed path.                  *)
CommitFault ==
  /\ robCount > 0
  /\ \/ done[robHead] /\ Faults
     \/ RobHead.I.op = "show" /\ val[map[A0]] \notin Addrs
  /\ ended' = "failed"
  /\ UNCHANGED <<renameVars, code, fpc, ins, done, lsq, prf, iq, ops, memory, rec>>

(* ECALL writes its input straight into the register A0 is mapped to.      *)
CommitSyscall ==
  \E input \in Values :
    /\ robCount > 0 /\ RobHead.I.op = "sys"
    /\ RenameCommit
    /\ val' = [val EXCEPT ![map[A0]] = input]
    /\ rec' = [pc |-> RobHead.pc, wrote |-> {<<"reg", A0, input>>}]
    /\ UNCHANGED <<code, fpc, ins, done, lsq, ready, iq, ops, memory, ended>>

(* ECALL reads the memory system (peek8), not the store buffer.            *)
CommitShow ==
  LET addr == val[map[A0]] IN
  /\ robCount > 0 /\ RobHead.I.op = "show" /\ addr \in Addrs
  /\ RenameCommit
  /\ rec' = [pc |-> RobHead.pc, wrote |-> {<<"out", addr, mem[addr]>>}]
  /\ UNCHANGED <<code, fpc, ins, done, lsq, prf, iq, ops, memory, ended>>

CommitHalt ==
  /\ robCount > 0 /\ RobHead.I.op = "halt"
  /\ RenameCommit
  /\ ended' = "halted"
  /\ rec' = [pc |-> RobHead.pc, wrote |-> {}]
  /\ UNCHANGED <<code, fpc, ins, done, lsq, prf, iq, ops, memory>>

(* Everything but dispatch: what drains the machine.                       *)
BackStep ==
  /\ ended = "no"
  /\ \/ Issue \/ AccessLoad \/ ResolveStore \/ CaptureStoreData \/ DrainStore
     \/ Writeback
     \/ CommitPlain \/ CommitFault \/ CommitSyscall \/ CommitShow \/ CommitHalt

BackNext == (ended = "no" /\ Dispatch) \/ BackStep

BackSpec == BackInit /\ [][BackNext]_backVars

(* Every stage runs every cycle, and every unit finishes: while some       *)
(* instruction can take a step, one does.  Nothing is assumed of dispatch. *)
BackFairSpec == BackSpec /\ WF_backVars(BackStep)
-----------------------------------------------------------------------------
(* Properties *)

(* Type invariant: the shape of the state of core/rob.h, core/rename.h,    *)
(* core/iq.h and core/fu.h.                                                *)
BackTypeOK ==
  /\ RenameTypeOK
  /\ code \in Programs /\ fpc \in 0 .. LastPc + 1
  /\ \A s \in Slots : ins[s].pc \in Pcs /\ ins[s].pred.target \in Pcs
  /\ done \in [Slots -> BOOLEAN]
  /\ lsq \in [Slots -> [preg : Pregs \cup {NoReg}, addrValid : BOOLEAN, addr : Values,
                         dataReady : BOOLEAN, data : Values]]
  /\ val \in [Pregs -> Values] /\ ready \in [Pregs -> BOOLEAN]
  /\ \A q \in iq : q.slot \in Slots /\ q.ps1 \in Pregs /\ q.ps2 \in Pregs
  /\ Cardinality(iq) <= IqSize
  /\ Len(sb) <= SbSize /\ mem \in [Addrs -> Values]
  /\ \A i \in 1 .. Len(sb) : sb[i] \in [addr : Addrs, data : Values]
  /\ ended \in {"no", "halted", "failed"}
  /\ \A o \in ops : /\ o.unit \in {"unit", "agu", "load"} /\ o.value \in Values
                     /\ o.pdst \in Pregs \cup {NoReg}

(* Commit by commit, the core does what the functional model does: same    *)
(* pc, same register or memory write, same output, same end, whatever was  *)
(* predicted, squashed, forwarded and replayed, and in whatever order      *)
(* results came.  The architectural registers are what the map names once  *)
(* everything in flight is undone; memory is what the committed stores on  *)
(* their way make of it, and after the end just what is there              *)
(* (sim/main.cpp:191).                                                     *)
Settled == [addr \in Addrs |-> IF Buffered(addr) = {} THEN mem[addr]
                                 ELSE sb[Youngest(Buffered(addr))].data]

Reference == INSTANCE InOrder WITH
  ipc <- IF robCount > 0 THEN RobHead.pc ELSE IF ended = "halted" THEN fpc - 1 ELSE fpc,
  regs <- [r \in ArchRegs |-> val[Undo(0)[r]]],
  imem <- IF ended = "halted" THEN mem ELSE Settled
RefinesInOrder == Reference!ISpec

(* "Their results must never write back" (core/fu.h), "ROB slots cannot be *)
(* reused until their old op has retired" (core/iq.h): everything in the   *)
(* queue, a unit or the memory engine belongs to a live, unfinished entry, *)
(* which it names by slot and by sequence number, and each live unfinished *)
(* entry is in exactly one of those places.                                *)
Waiting(k) == {q \in iq : q.slot = Slot(k)}
InUnits(k) == {o \in ops : o.slot = Slot(k)}
WorkMatchesEntries ==
  /\ BackTypeOK
  /\ \A w \in iq \cup ops : \E k \in Ages : w.slot = Slot(k) /\ w.seq = Nth(k).seq
  /\ \A k \in Ages :
       LET n == Cardinality(Waiting(k)) + Cardinality(InUnits(k)) IN
         IF IsStore(Ins(k).I) /\ lsq[Slot(k)].addrValid
         THEN n = 0 /\ done[Slot(k)] = lsq[Slot(k)].dataReady
         ELSE n = IF done[Slot(k)] THEN 0 ELSE 1

(* No lost and no spurious wakeup, also after squashes and reuse of the    *)
(* registers: an entry is blocked on a source exactly while that register  *)
(* has no value, and the register is the one program order gives it.       *)
WakeupExact ==
  \A k \in Ages : \A q \in Waiting(k) :
    LET I == Ins(k).I IN
      /\ UsesRs1(I) => q.ps1 = Undo(k)[I.rs1] /\ (q.blocked1 <=> ~ready[q.ps1])
      /\ (UsesRs2(I) /\ ~IsStore(I))
           => q.ps2 = Undo(k)[I.rs2] /\ (q.blocked2 <=> ~ready[q.ps2])

(* Every register the machine may still read has its value, or has a live  *)
(* producer that has not written it: nobody waits for a squashed result.   *)
ProducersAlive ==
  \A p \in Mapped \cup Displaced :
    ready[p] \/ \E k \in Ages : Nth(k).pdst = p /\ ~done[Slot(k)]

(* An instruction waits for exactly the values it lacks, and each of them  *)
(* is on its way (core/iq.h:118, ooo.cpp:317).                             *)
WaitsAreSound == WakeupExact /\ ProducersAlive

(* "It is written exactly once while this store is live, so a late capture *)
(* is always safe" (core/lsq.h): a store still waiting watches the         *)
(* register program order gives it, and one that captured early holds what *)
(* that register holds still.                                              *)
LateCaptureSafe ==
  \A k \in Ages : IsStore(Ins(k).I) =>
    LET st == lsq[Slot(k)] IN
      /\ st.preg = Undo(k)[Ins(k).I.rs2]
      /\ st.dataReady => ready[st.preg] /\ st.data = val[st.preg]

(* A register with a value never changes while anything can name it.  The  *)
(* one exception is ECALL, which runs alone.                               *)
WrittenOnce ==
  [][\A p \in Mapped \cup Displaced :
       ready[p] /\ val'[p] # val[p] =>
         robCount = 1 /\ RobHead.I.op = "sys" /\ iq = {} /\ ops = {}]_backVars

(* Nothing in the core waits forever: every instruction dispatched is  *)
(* committed or squashed, however the queue, the units and the writeback   *)
(* ports are shared, unless a fault ends the program.                      *)
EverythingLeaves == robCount > 0 ~> robCount = 0 \/ ended = "failed"
=============================================================================
