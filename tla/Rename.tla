------------------------------- MODULE Rename -------------------------------
(***************************************************************************)
(* Register renaming: the rename map and free list of core/rename.h, the   *)
(* fields of a reorder-buffer entry that renaming uses (core/rob.h), and   *)
(* the parts of core/ooo.cpp that operate on them: the renaming half of    *)
(* dispatchStage, the freeing half of commitStage, and the undo walk of    *)
(* recover().                                                              *)
(*                                                                         *)
(* One action is one instruction's worth of a stage.  A stage handles up   *)
(* to `width' instructions per cycle; letting the actions interleave in    *)
(* any order covers every width and every timing.                          *)
(*                                                                         *)
(* The free list is a FIFO in the code.  Which free register is handed     *)
(* out is data no property depends on, so it is a set here.                *)
(***************************************************************************)
EXTENDS Integers, Ring

CONSTANTS NArch,     \* number of architectural registers (32 in the code)
          PhysRegs,  \* SimConfig::physRegs
          RobSize,   \* SimConfig::robSize
          MaxSeq     \* bound on dispatched instructions

(* validateConfig: at least one spare register, and ids fit below kNoReg.  *)
ASSUME RenameAssumption ==
  /\ NArch \in Nat /\ NArch >= 1
  /\ PhysRegs \in Nat /\ PhysRegs >= NArch + 1 /\ PhysRegs <= 255
  /\ RobSize \in Nat /\ RobSize >= 1
  /\ MaxSeq \in Nat

ArchRegs == 0 .. NArch - 1
Pregs    == 0 .. PhysRegs - 1
NoReg    == 255                 \* kNoReg
Slots    == 0 .. RobSize - 1

VARIABLES map,       \* RenameMap: architectural -> physical
          freeList,  \* physical registers holding no live value
          rob,       \* slot -> entry: seq, rd, pdst, prevPhys
          robHead,   \* Ring::headIdx
          robCount,  \* Ring::n
          seqCtr     \* next program-order sequence number

renameVars == <<map, freeList, rob, robHead, robCount, seqCtr>>

(* An entry that writes no register, or one that renamed rd (never x0).    *)
Entry == [seq : Nat, rd : {0, NoReg}, pdst : {NoReg}, prevPhys : {NoReg}]
         \cup [seq : Nat, rd : ArchRegs \ {0}, pdst : Pregs, prevPhys : Pregs]

(* A slot as Ring's constructor leaves it.                                 *)
NoEntry == [seq |-> 0, rd |-> NoReg, pdst |-> NoReg, prevPhys |-> NoReg]

(* rob.nth(k): the k-th oldest entry, 0 at the head.                       *)
Nth(k) == rob[IndexOf(RobSize, robHead, k)]

(* writesRd(op) && rd != 0.  rd = NoReg stands for an op that writes none. *)
HasDest(rd) == rd # NoReg /\ rd # 0

(* Entry k displaced the mapping of r.                                     *)
Writes(k, r) == Nth(k).pdst # NoReg /\ Nth(k).rd = r

(* As it would be with the undo walk going from the oldest entry to the    *)
(* youngest: the YOUNGEST writer has the last word.                        *)
BugYoungestWriter(k, r) ==
  CHOOSE j \in k .. robCount - 1 :
    Writes(j, r) /\ \A i \in j + 1 .. robCount - 1 : ~Writes(i, r)

(* The oldest entry from k on that renamed r.                              *)
OldestWriter(k, r) ==
  CHOOSE j \in k .. robCount - 1 :
    Writes(j, r) /\ \A i \in k .. j - 1 : ~Writes(i, r)

(* The rename map just before entry k was dispatched: what the walk of     *)
(* recover() rebuilds.  It visits entries from the youngest back to k, and *)
(* each puts back the mapping it displaced, so for a register renamed      *)
(* several times the OLDEST of them has the last word.                     *)
Undo(k) ==
  [r \in ArchRegs |-> IF \E j \in k .. robCount - 1 : Writes(j, r)
                      THEN Nth(OldestWriter(k, r)).prevPhys
                      ELSE map[r]]

RenameInit ==
  /\ map = [r \in ArchRegs |-> r]
  /\ freeList = NArch .. PhysRegs - 1
  /\ rob = [s \in Slots |-> NoEntry]
  /\ robHead = 0
  /\ robCount = 0
  /\ seqCtr = 0

(* Give the next entry its ring slot, and its destination (if any) the     *)
(* free register p.                                                        *)
Alloc(rd, p) ==
  /\ rob' = [rob EXCEPT ![IndexOf(RobSize, robHead, robCount)] =
               [seq |-> seqCtr, rd |-> rd, pdst |-> p,
                prevPhys |-> IF HasDest(rd) THEN map[rd] ELSE NoReg]]
  /\ map' = IF HasDest(rd) THEN [map EXCEPT ![rd] = p] ELSE map
  /\ freeList' = freeList \ {p}
  /\ robCount' = robCount + 1
  /\ seqCtr' = seqCtr + 1
  /\ UNCHANGED robHead

(* dispatchStage, one instruction: stalls when the ROB is full or a        *)
(* destination finds no free register.                                     *)
RenameDispatch(rd) ==
  /\ seqCtr < MaxSeq
  /\ robCount < RobSize
  /\ \E p \in (IF HasDest(rd) THEN freeList ELSE {NoReg}) : Alloc(rd, p)

(* The wrong one of the two registers is freed.                            *)
BugFreesNewMapping == IF Nth(0).pdst # NoReg THEN {Nth(0).pdst} ELSE {}

(* What a commit frees: in-order commit leaves no older reader of the      *)
(* displaced register.                                                     *)
FreedByCommit == IF Nth(0).pdst # NoReg THEN {Nth(0).prevPhys} ELSE {}

(* commitStage, one instruction.                                           *)
RenameCommit ==
  /\ robCount > 0
  /\ freeList' = freeList \cup FreedByCommit
  /\ robHead' = IndexOf(RobSize, robHead, 1)
  /\ robCount' = robCount - 1
  /\ UNCHANGED <<map, rob, seqCtr>>

(* The tail pops stop at the first entry that is not younger than seq.     *)
Survivors(seq, keep) ==
  /\ \A k \in keep .. robCount - 1 : Nth(k).seq > seq
  /\ keep > 0 => Nth(keep - 1).seq <= seq

(* The live entries from k on that hold a destination register.            *)
WritersFrom(k) == {j \in k .. robCount - 1 : Nth(j).pdst # NoReg}

(* What a squash frees: the registers it had allocated.                    *)
FreedBySquash(keep) == {Nth(k).pdst : k \in WritersFrom(keep)}

(* recover(seq): pop every younger entry, undo its renaming, and return    *)
(* its register.                                                           *)
RenameRecover(seq) ==
  \E keep \in 0 .. robCount :
    /\ Survivors(seq, keep)
    /\ map' = Undo(keep)
    /\ freeList' = freeList \cup FreedBySquash(keep)
    /\ robCount' = keep
    /\ UNCHANGED <<rob, robHead, seqCtr>>

(* A mispredicted branch survives its own flush; a replayed load does not, *)
(* and an older store is always in flight ahead of it.                     *)
RenameMispredict == \E k \in 0 .. robCount - 1 : RenameRecover(Nth(k).seq)
RenameReplay == \E k \in 1 .. robCount - 1 : RenameRecover(Nth(k).seq - 1)

RenameNext ==
  \/ \E rd \in ArchRegs \cup {NoReg} : RenameDispatch(rd)
  \/ RenameCommit
  \/ RenameMispredict
  \/ RenameReplay

RenameSpec == RenameInit /\ [][RenameNext]_renameVars
-----------------------------------------------------------------------------
(* Properties *)

(* Type invariant: the shape of the renaming state of core/rename.h and    *)
(* core/rob.h.                                                             *)
RenameTypeOK ==
  /\ map \in [ArchRegs -> Pregs]
  /\ freeList \subseteq Pregs
  /\ rob \in [Slots -> Entry]
  /\ robHead \in Slots
  /\ robCount \in 0 .. RobSize
  /\ seqCtr \in Nat

(* The registers a squash or an older reader may still need: those the     *)
(* current map names and those live entries would put back.                *)
Mapped == {map[r] : r \in ArchRegs}
Displaced == {Nth(k).prevPhys : k \in WritersFrom(0)}

(* "The part that grows bugs" (core/rename.h): a free register is named by *)
(* neither the map nor any displaced mapping, so dispatch cannot hand out  *)
(* a register whose value is still wanted, whatever mix of commits and     *)
(* squashes came before.                                                   *)
FreeRegistersUnnamed == freeList \cap (Mapped \cup Displaced) = {}

(* No register leaks: what is neither mapped nor displaced is free again,  *)
(* after commits (which free the displaced register) and squashes (which   *)
(* free the allocated one) in any order.                                   *)
NoRegisterLeaks == Pregs = freeList \cup Mapped \cup Displaced

(* No register speaks for two things at once: two architectural registers, *)
(* two displaced mappings, or one of each.                                 *)
NamedOnce ==
  /\ \A r, s \in ArchRegs : map[r] = map[s] => r = s
  /\ \A k \in WritersFrom(0) :
       /\ Nth(k).prevPhys \notin Mapped
       /\ \A j \in WritersFrom(0) : Nth(j).prevPhys = Nth(k).prevPhys => j = k

(* Every physical register is free, mapped or displaced, and only one of   *)
(* the three, after any mix of commits and squashes (core/rename.h).       *)
RegistersConserved == FreeRegistersUnnamed /\ NoRegisterLeaks /\ NamedOnce

(* Renamings of one register form a chain: the mapping an entry displaced  *)
(* is the register the previous one allocated, and the youngest one's      *)
(* register is the current mapping.  The undo walk relies on it.           *)
MappingChain ==
  \A r \in ArchRegs, k \in 0 .. robCount - 1 : Writes(k, r) =>
    /\ \A j \in k + 1 .. robCount - 1 :
         (Writes(j, r) /\ \A i \in k + 1 .. j - 1 : ~Writes(i, r))
           => Nth(j).prevPhys = Nth(k).pdst
    /\ (\A i \in k + 1 .. robCount - 1 : ~Writes(i, r)) => map[r] = Nth(k).pdst

(* Renaming with a free list and an undo walk implements renaming with a   *)
(* full copy of the map per instruction: in particular every squash        *)
(* restores the map exactly as it was.                                     *)
CheckpointOf == INSTANCE Checkpoints WITH
  cmap <- map, snaps <- [k \in 1 .. robCount |-> Undo(k - 1)]
RefinesCheckpoints == CheckpointOf!CSpec
=============================================================================
