---------------------------- MODULE BackendProofs ----------------------------
(***************************************************************************)
(* Proofs about Rename, then about Backend, for every program, every size  *)
(* of the reorder buffer, the queues and the register file, and every      *)
(* schedule.                                                               *)
(*                                                                         *)
(* The inductive invariant of renaming is RenameInv.  A squash puts        *)
(* registers back on the free list and old mappings back in the map; that  *)
(* the two stay disjoint rests on MappingChain, which says whose register  *)
(* each displaced mapping is.                                              *)
(*                                                                         *)
(* In the part about Backend an entry is named by its ring slot, not by    *)
(* its age: a slot keeps its entry while others commit, so most of the     *)
(* state of an entry stays where it is until the entry is gone.  Order is  *)
(* order of sequence numbers.                                              *)
(***************************************************************************)
EXTENDS Backend, RingProofs, SequenceTheorems, FiniteSetTheorems

RenameInv ==
  /\ RenameTypeOK
  /\ FreeRegistersUnnamed
  /\ NoRegisterLeaks
  /\ NamedOnce
  /\ MappingChain

(* Lemmas about single entries. *)

(* The entries a live offset names are entries, and writers among them     *)
(* have real registers.                                                    *)
LEMMA NthType ==
  RenameTypeOK =>
    \A k \in 0 .. robCount - 1 :
      /\ Nth(k) \in Entry
      /\ Nth(k).pdst # NoReg =>
           /\ Nth(k).rd \in ArchRegs \ {0}
           /\ Nth(k).pdst \in Pregs
           /\ Nth(k).prevPhys \in Pregs
      /\ Nth(k).seq \in Nat
<1> SUFFICES ASSUME RenameTypeOK, NEW k \in 0 .. robCount - 1
             PROVE  /\ Nth(k) \in Entry
                    /\ Nth(k).pdst # NoReg =>
                         /\ Nth(k).rd \in ArchRegs \ {0}
                         /\ Nth(k).pdst \in Pregs
                         /\ Nth(k).prevPhys \in Pregs
                    /\ Nth(k).seq \in Nat
  OBVIOUS
<1>1. IndexOf(RobSize, robHead, k) \in Slots
  BY RenameAssumption, IndexInRange DEF RenameTypeOK, Slots
<1>2. Nth(k) \in Entry
  BY <1>1 DEF RenameTypeOK, Nth
<1> QED
  BY <1>2 DEF Entry

(* Undo(k), read off without CHOOSE: a register no entry from k on renamed *)
(* keeps its mapping; otherwise the oldest such entry decides.             *)
UndoIs ==
  \A k \in 0 .. robCount, r \in ArchRegs :
    /\ (\A j \in k .. robCount - 1 : ~Writes(j, r)) => Undo(k)[r] = map[r]
    /\ \A j \in k .. robCount - 1 :
         (Writes(j, r) /\ \A i \in k .. j - 1 : ~Writes(i, r))
           => Undo(k)[r] = Nth(j).prevPhys
    /\ (\E j \in k .. robCount - 1 : Writes(j, r)) =>
         \E j \in k .. robCount - 1 :
           /\ Writes(j, r)
           /\ \A i \in k .. j - 1 : ~Writes(i, r)

LEMMA UndoFacts == RenameTypeOK => UndoIs
<1> SUFFICES ASSUME RenameTypeOK, NEW k \in 0 .. robCount, NEW r \in ArchRegs
             PROVE
    /\ (\A j \in k .. robCount - 1 : ~Writes(j, r)) => Undo(k)[r] = map[r]
    /\ \A j \in k .. robCount - 1 :
         (Writes(j, r) /\ \A i \in k .. j - 1 : ~Writes(i, r))
           => Undo(k)[r] = Nth(j).prevPhys
    /\ (\E j \in k .. robCount - 1 : Writes(j, r)) =>
         \E j \in k .. robCount - 1 :
           /\ Writes(j, r)
           /\ \A i \in k .. j - 1 : ~Writes(i, r)
  BY DEF UndoIs
<1>0. robCount \in Nat /\ k \in Nat
  BY RenameAssumption DEF RenameTypeOK
<1>1. (\A j \in k .. robCount - 1 : ~Writes(j, r)) => Undo(k)[r] = map[r]
  BY DEF Undo
<1>2. ASSUME NEW j \in k .. robCount - 1, Writes(j, r),
             \A i \in k .. j - 1 : ~Writes(i, r)
      PROVE  Undo(k)[r] = Nth(j).prevPhys
  <2>1. OldestWriter(k, r) \in k .. robCount - 1 /\
        Writes(OldestWriter(k, r), r) /\
        \A i \in k .. OldestWriter(k, r) - 1 : ~Writes(i, r)
    BY <1>2 DEF OldestWriter
  <2>2. OldestWriter(k, r) = j
    BY <1>0, <1>2, <2>1
  <2> QED
    BY <1>2, <2>2 DEF Undo
<1>3. ASSUME NEW w \in k .. robCount - 1, Writes(w, r)
      PROVE  \E j \in k .. robCount - 1 :
               Writes(j, r) /\ \A i \in k .. j - 1 : ~Writes(i, r)
  <2> DEFINE S == {j \in k .. robCount - 1 : Writes(j, r)}
  <2>1. S \subseteq Nat /\ S # {}
    BY <1>0, <1>3
  <2>2. PICK m \in S : \A x \in S : m <= x
    BY <2>1, MinExists
  <2>3. ASSUME NEW i \in k .. m - 1 PROVE ~Writes(i, r)
    BY <1>0, <2>2
  <2> QED
    BY <2>2, <2>3
<1> QED
  BY <1>1, <1>2, <1>3

(* The same facts about the next state.                                    *)
LEMMA UndoFactsNext == RenameTypeOK' => UndoIs'
BY UndoFacts, PTL
-----------------------------------------------------------------------------
(* What each action does to the entries, by age. *)

(* Dispatch puts its entry after the youngest and touches no live one.     *)
LEMMA AllocNth ==
  ASSUME RenameTypeOK, NEW rd, NEW p, NEW n, n = robCount, n < RobSize,
         Alloc(rd, p)
  PROVE  /\ \A k \in 0 .. n - 1 : Nth(k)' = Nth(k)
         /\ Nth(n)' = [seq |-> seqCtr, rd |-> rd, pdst |-> p,
                       prevPhys |-> IF HasDest(rd) THEN map[rd] ELSE NoReg]
<1> USE RenameAssumption DEF RenameTypeOK, Slots
<1> DEFINE at(k) == IndexOf(RobSize, robHead, k)
<1>1. at(n) \in Slots
  BY IndexInRange
<1>2. ASSUME NEW k \in 0 .. n - 1 PROVE at(k) \in Slots /\ at(k) # at(n)
  BY IndexInRange, IndexInjective
<1>3. robHead' = robHead
  BY DEF Alloc
<1> HIDE DEF at
<1>4. rob' = [rob EXCEPT ![at(n)] =
               [seq |-> seqCtr, rd |-> rd, pdst |-> p,
                prevPhys |-> IF HasDest(rd) THEN map[rd] ELSE NoReg]]
  BY DEF Alloc, at
<1>5. ASSUME NEW k PROVE Nth(k) = rob[at(k)] /\ Nth(k)' = rob'[at(k)]
  BY <1>3 DEF Nth, at
<1> QED BY <1>1, <1>2, <1>4, <1>5

(* Commit makes every remaining entry one older.                           *)
LEMMA CommitNth ==
  ASSUME RenameTypeOK, RenameCommit
  PROVE  \A k \in 0 .. robCount - 2 : Nth(k)' = Nth(k + 1)
<1>1. ASSUME NEW k \in 0 .. robCount - 2
      PROVE  IndexOf(RobSize, robHead', k) = IndexOf(RobSize, robHead, k + 1)
  BY RenameAssumption, IndexShift DEF RenameTypeOK, Slots, RenameCommit
<1> QED BY <1>1 DEF Nth, RenameCommit

(* A squash leaves its survivors alone.                                    *)
LEMMA SquashNth ==
  ASSUME UNCHANGED <<rob, robHead>>
  PROVE  \A k : Nth(k)' = Nth(k)
BY DEF Nth
-----------------------------------------------------------------------------
(* Type correctness. *)

(* The undo walk yields a map.                                             *)
LEMMA UndoType ==
  ASSUME RenameTypeOK, NEW k \in 0 .. robCount
  PROVE  Undo(k) \in [ArchRegs -> Pregs]
<1>1. ASSUME NEW r \in ArchRegs PROVE Undo(k)[r] \in Pregs
  <2>1. CASE \A j \in k .. robCount - 1 : ~Writes(j, r)
    BY <2>1, UndoFacts DEF UndoIs, RenameTypeOK
  <2>2. CASE \E j \in k .. robCount - 1 : Writes(j, r)
    <3>1. PICK j \in k .. robCount - 1 : Undo(k)[r] = Nth(j).prevPhys /\ Writes(j, r)
      BY <2>2, UndoFacts DEF UndoIs
    <3>2. j \in 0 .. robCount - 1
      BY RenameAssumption DEF RenameTypeOK
    <3> QED BY <3>1, <3>2, NthType DEF Writes
  <2> QED BY <2>1, <2>2
<1>2. Undo(k) = [r \in ArchRegs |-> Undo(k)[r]]
  BY DEF Undo
<1> QED BY <1>1, <1>2

LEMMA InitType == RenameInit => RenameTypeOK
BY RenameAssumption DEF RenameInit, RenameTypeOK, ArchRegs, Pregs, Slots,
   NoEntry, Entry, NoReg

LEMMA NextType ==
  ASSUME RenameTypeOK, [RenameNext]_renameVars
  PROVE  RenameTypeOK'
<1> USE RenameAssumption
<1>1. ASSUME NEW rd \in ArchRegs \cup {NoReg}, RenameDispatch(rd)
      PROVE  RenameTypeOK'
  <2>1. PICK p \in (IF HasDest(rd) THEN freeList ELSE {NoReg}) : Alloc(rd, p)
    BY <1>1 DEF RenameDispatch
  <2>2. IndexOf(RobSize, robHead, robCount) \in Slots
    BY <1>1, IndexInRange DEF RenameTypeOK, Slots, RenameDispatch
  <2>3. [seq |-> seqCtr, rd |-> rd, pdst |-> p,
         prevPhys |-> IF HasDest(rd) THEN map[rd] ELSE NoReg] \in Entry
    BY <2>1 DEF Entry, HasDest, RenameTypeOK
  <2>4. map' \in [ArchRegs -> Pregs]
    BY <2>1 DEF Alloc, RenameTypeOK, HasDest
  <2>5. robCount' \in 0 .. RobSize
    BY <1>1, <2>1 DEF Alloc, RenameTypeOK, RenameDispatch
  <2> QED
    BY <2>1, <2>2, <2>3, <2>4, <2>5 DEF Alloc, RenameTypeOK
<1>2. CASE RenameCommit
  <2>1. FreedByCommit \subseteq Pregs
    BY <1>2, NthType DEF FreedByCommit, RenameCommit, RenameTypeOK
  <2>2. robHead' \in Slots
    BY <1>2, IndexInRange DEF RenameCommit, RenameTypeOK, Slots
  <2> QED
    BY <1>2, <2>1, <2>2 DEF RenameCommit, RenameTypeOK
<1>3. ASSUME NEW seq, RenameRecover(seq) PROVE RenameTypeOK'
  <2>1. PICK keep \in 0 .. robCount :
          /\ map' = Undo(keep)
          /\ freeList' = freeList \cup FreedBySquash(keep)
          /\ robCount' = keep
          /\ UNCHANGED <<rob, robHead, seqCtr>>
    BY <1>3 DEF RenameRecover
  <2>2. FreedBySquash(keep) \subseteq Pregs
    BY NthType DEF FreedBySquash, WritersFrom, RenameTypeOK
  <2>3. map' \in [ArchRegs -> Pregs]
    BY <2>1, UndoType
  <2> QED
    BY <2>1, <2>2, <2>3 DEF RenameTypeOK
<1>4. CASE UNCHANGED renameVars
  BY <1>4 DEF renameVars, RenameTypeOK
<1> QED
  BY <1>1, <1>2, <1>3, <1>4 DEF RenameNext, RenameMispredict, RenameReplay

(* The renaming state keeps its shape: in particular only real registers   *)
(* ever enter the free list, and every entry with a destination knows the  *)
(* mapping it displaced.                                                   *)
THEOREM TypeCorrect == RenameSpec => []RenameTypeOK
BY InitType, NextType, PTL DEF RenameSpec
-----------------------------------------------------------------------------
(* Safety: initially. *)

LEMMA InitInv == RenameInit => RenameInv
<1> SUFFICES ASSUME RenameInit PROVE RenameInv
  OBVIOUS
<1>1. RenameTypeOK
  BY InitType
<1>2. WritersFrom(0) = {}
  BY DEF WritersFrom, RenameInit
<1>3. Mapped = ArchRegs /\ Displaced = {}
  BY <1>2 DEF Mapped, Displaced, RenameInit
<1>4. freeList \cap ArchRegs = {} /\ Pregs = freeList \cup ArchRegs
  BY RenameAssumption DEF RenameInit, ArchRegs, Pregs
<1>5. NamedOnce
  BY <1>2 DEF NamedOnce, RenameInit
<1>6. MappingChain
  BY DEF MappingChain, RenameInit
<1> QED
  BY <1>1, <1>3, <1>4, <1>5, <1>6
     DEF RenameInv, FreeRegistersUnnamed, NoRegisterLeaks
-----------------------------------------------------------------------------
(* Safety: dispatch. *)

(* An instruction without a destination disturbs nothing.                  *)
LEMMA DispatchNone ==
  ASSUME RenameInv, NEW n, n = robCount, n < RobSize, NEW rd, ~HasDest(rd),
         Alloc(rd, NoReg)
  PROVE  /\ FreeRegistersUnnamed'
         /\ NoRegisterLeaks'
         /\ NamedOnce'
         /\ MappingChain'
<1>0. n \in Nat
  BY RenameAssumption DEF RenameInv, RenameTypeOK
<1>1. /\ \A k \in 0 .. n - 1 : Nth(k)' = Nth(k)
      /\ Nth(n)'.pdst = NoReg
  BY AllocNth DEF RenameInv
<1>2. robCount' = n + 1 /\ map' = map
  BY DEF Alloc
<1>3. freeList' = freeList
  BY RenameAssumption DEF Alloc, RenameInv, RenameTypeOK, Pregs, NoReg
<1>4. \A r : \A k \in 0 .. n : Writes(k, r)' <=> k < n /\ Writes(k, r)
  BY <1>0, <1>1 DEF Writes
<1>5. WritersFrom(0)' = WritersFrom(0)
  BY <1>0, <1>1, <1>2 DEF WritersFrom
<1>6. \A k \in WritersFrom(0) : Nth(k)' = Nth(k)
  BY <1>0, <1>1 DEF WritersFrom
<1>7. Mapped' = Mapped /\ Displaced' = Displaced
  BY <1>2, <1>5, <1>6 DEF Mapped, Displaced
<1>8. FreeRegistersUnnamed' /\ NoRegisterLeaks'
  BY <1>3, <1>7 DEF RenameInv, FreeRegistersUnnamed, NoRegisterLeaks
<1>9. NamedOnce'
  BY <1>2, <1>5, <1>6, <1>7 DEF RenameInv, NamedOnce
<1>10. MappingChain'
  <2> SUFFICES ASSUME NEW r \in ArchRegs, NEW k \in 0 .. n, Writes(k, r)'
               PROVE
       /\ \A j \in k + 1 .. n :
            (Writes(j, r)' /\ \A i \in k + 1 .. j - 1 : ~Writes(i, r)')
              => Nth(j)'.prevPhys = Nth(k)'.pdst
       /\ (\A i \in k + 1 .. n : ~Writes(i, r)') => map'[r] = Nth(k)'.pdst
    BY <1>0, <1>2 DEF MappingChain
  <2>1. k \in 0 .. n - 1 /\ Writes(k, r)
    BY <1>0, <1>4
  <2>2. ASSUME NEW j \in k + 1 .. n, Writes(j, r)',
               \A i \in k + 1 .. j - 1 : ~Writes(i, r)'
        PROVE  Nth(j)'.prevPhys = Nth(k)'.pdst
    <3>1. j \in k + 1 .. n - 1 /\ Writes(j, r)
      BY <1>0, <1>4, <2>2
    <3>2. \A i \in k + 1 .. j - 1 : ~Writes(i, r)
      BY <1>0, <1>4, <2>2
    <3> QED
      BY <1>0, <1>1, <2>1, <3>1, <3>2 DEF RenameInv, MappingChain
  <2>3. ASSUME \A i \in k + 1 .. n : ~Writes(i, r)'
        PROVE  map'[r] = Nth(k)'.pdst
    <3>1. \A i \in k + 1 .. n - 1 : ~Writes(i, r)
      BY <1>0, <1>4, <2>3
    <3> QED
      BY <1>0, <1>1, <1>2, <2>1, <3>1 DEF RenameInv, MappingChain
  <2> QED BY <2>2, <2>3
<1> QED BY <1>8, <1>9, <1>10

(* An instruction with a destination moves one register from the free list *)
(* into the map, and the mapping it displaces into the ROB.                *)
LEMMA DispatchDest ==
  ASSUME RenameInv, NEW n, n = robCount, n < RobSize,
         NEW rd \in ArchRegs, HasDest(rd), NEW p \in freeList, Alloc(rd, p)
  PROVE  /\ FreeRegistersUnnamed'
         /\ NoRegisterLeaks'
         /\ NamedOnce'
         /\ MappingChain'
<1>0. n \in Nat /\ p \in Pregs /\ p # NoReg /\ map \in [ArchRegs -> Pregs]
  BY RenameAssumption DEF RenameInv, RenameTypeOK, Pregs, NoReg
<1>1. /\ \A k \in 0 .. n - 1 : Nth(k)' = Nth(k)
      /\ Nth(n)'.pdst = p /\ Nth(n)'.rd = rd /\ Nth(n)'.prevPhys = map[rd]
  BY AllocNth DEF RenameInv
<1>2. /\ robCount' = n + 1
      /\ map' = [map EXCEPT ![rd] = p]
      /\ freeList' = freeList \ {p}
  BY DEF Alloc
<1>3. p \notin Mapped /\ p \notin Displaced
  BY DEF RenameInv, FreeRegistersUnnamed
<1>4. \A r : \A k \in 0 .. n : Writes(k, r)' <=>
        (k < n /\ Writes(k, r)) \/ (k = n /\ r = rd)
  BY <1>0, <1>1 DEF Writes
<1>5. WritersFrom(0)' = WritersFrom(0) \cup {n}
  BY <1>0, <1>1, <1>2 DEF WritersFrom
<1>6. \A k \in WritersFrom(0) : Nth(k)' = Nth(k) /\ k # n
  BY <1>0, <1>1 DEF WritersFrom
<1>7. Displaced' = Displaced \cup {map[rd]}
  BY <1>1, <1>5, <1>6 DEF Displaced
<1>8. Mapped' = (Mapped \ {map[rd]}) \cup {p}
  <2>1. \A r \in ArchRegs : r # rd => map[r] # map[rd]
    BY DEF RenameInv, NamedOnce
  <2>2. map'[rd] = p /\ \A r \in ArchRegs : r # rd => map'[r] = map[r]
    BY <1>0, <1>2
  <2> QED
    BY <2>1, <2>2 DEF Mapped
<1>9. map[rd] \in Mapped /\ map[rd] \notin Displaced /\ map[rd] \notin freeList
  BY DEF Mapped, Displaced, RenameInv, NamedOnce, FreeRegistersUnnamed
<1>10. FreeRegistersUnnamed'
  BY <1>2, <1>3, <1>7, <1>8, <1>9 DEF RenameInv, FreeRegistersUnnamed
<1>11. NoRegisterLeaks'
  BY <1>0, <1>2, <1>7, <1>8, <1>9 DEF RenameInv, NoRegisterLeaks
<1>12. NamedOnce'
  <2>1. ASSUME NEW r \in ArchRegs, NEW s \in ArchRegs, map'[r] = map'[s]
        PROVE  r = s
    BY <1>0, <1>2, <1>3, <2>1 DEF RenameInv, NamedOnce, Mapped
  <2>2. ASSUME NEW k \in WritersFrom(0)'
        PROVE  Nth(k)'.prevPhys \notin Mapped'
    <3>1. CASE k = n
      BY <1>1, <1>3, <1>8, <1>9, <3>1
    <3>2. CASE k \in WritersFrom(0)
      BY <1>3, <1>6, <1>8, <3>2 DEF RenameInv, NamedOnce, Displaced
    <3> QED BY <1>5, <3>1, <3>2
  <2>3. ASSUME NEW k \in WritersFrom(0)', NEW j \in WritersFrom(0)',
               Nth(j)'.prevPhys = Nth(k)'.prevPhys
        PROVE  j = k
    <3>1. \A w \in WritersFrom(0) : Nth(w).prevPhys # map[rd]
      BY <1>9 DEF Displaced
    <3> QED
      BY <1>1, <1>5, <1>6, <2>3, <3>1 DEF RenameInv, NamedOnce
  <2> QED BY <2>1, <2>2, <2>3 DEF NamedOnce
<1>13. MappingChain'
  <2> SUFFICES ASSUME NEW r \in ArchRegs, NEW k \in 0 .. n, Writes(k, r)'
               PROVE
       /\ \A j \in k + 1 .. n :
            (Writes(j, r)' /\ \A i \in k + 1 .. j - 1 : ~Writes(i, r)')
              => Nth(j)'.prevPhys = Nth(k)'.pdst
       /\ (\A i \in k + 1 .. n : ~Writes(i, r)') => map'[r] = Nth(k)'.pdst
    BY <1>0, <1>2 DEF MappingChain
  <2>1. ASSUME NEW j \in k + 1 .. n, Writes(j, r)',
               \A i \in k + 1 .. j - 1 : ~Writes(i, r)'
        PROVE  Nth(j)'.prevPhys = Nth(k)'.pdst
    <3>1. k \in 0 .. n - 1 /\ Writes(k, r)
      BY <1>0, <1>4
    <3>2. \A i \in k + 1 .. j - 1 : ~Writes(i, r)
      BY <1>0, <1>4, <2>1
    <3>3. CASE j = n
      <4>1. r = rd
        BY <1>0, <1>4, <2>1, <3>3
      <4>2. map[r] = Nth(k).pdst
        BY <3>1, <3>2, <3>3 DEF RenameInv, MappingChain
      <4> QED BY <1>1, <3>1, <3>3, <4>1, <4>2
    <3>4. CASE j < n
      <4>1. j \in k + 1 .. n - 1 /\ Writes(j, r)
        BY <1>0, <1>4, <2>1, <3>4
      <4> QED
        BY <1>0, <1>1, <3>1, <3>2, <4>1 DEF RenameInv, MappingChain
    <3> QED BY <1>0, <3>3, <3>4
  <2>2. ASSUME \A i \in k + 1 .. n : ~Writes(i, r)'
        PROVE  map'[r] = Nth(k)'.pdst
    <3>1. CASE k = n
      BY <1>0, <1>1, <1>2, <1>4, <3>1
    <3>2. CASE k < n
      <4>1. r # rd
        BY <1>0, <1>4, <2>2, <3>2
      <4>2. \A i \in k + 1 .. n - 1 : ~Writes(i, r)
        BY <1>0, <1>4, <2>2
      <4>3. k \in 0 .. n - 1 /\ Writes(k, r)
        BY <1>0, <1>4, <3>2
      <4>4. map[r] = Nth(k).pdst
        BY <4>2, <4>3 DEF RenameInv, MappingChain
      <4> QED BY <1>0, <1>1, <1>2, <4>1, <4>3, <4>4
    <3> QED BY <1>0, <3>1, <3>2
  <2> QED BY <2>1, <2>2
<1> QED BY <1>10, <1>11, <1>12, <1>13
-----------------------------------------------------------------------------
(* Safety: commit. *)

(* The displaced register of the oldest entry becomes free, and is the     *)
(* only one that stops being needed.                                       *)
LEMMA CommitKeeps ==
  ASSUME RenameInv, RenameCommit
  PROVE  /\ FreeRegistersUnnamed'
         /\ NoRegisterLeaks'
         /\ NamedOnce'
         /\ MappingChain'
<1> SUFFICES ASSUME NEW n, n = robCount
             PROVE  /\ FreeRegistersUnnamed'
                    /\ NoRegisterLeaks'
                    /\ NamedOnce'
                    /\ MappingChain'
  OBVIOUS
<1>0. n \in Nat /\ n > 0
  BY RenameAssumption DEF RenameInv, RenameTypeOK, RenameCommit
<1>1. \A k \in 0 .. n - 2 : Nth(k)' = Nth(k + 1)
  BY CommitNth DEF RenameInv
<1>2. /\ robCount' = n - 1 /\ map' = map
      /\ freeList' = freeList \cup FreedByCommit
  BY DEF RenameCommit
<1>3. \A r : \A k \in 0 .. n - 2 : Writes(k, r)' <=> Writes(k + 1, r)
  BY <1>1 DEF Writes
<1>4. WritersFrom(0)' = {k \in 0 .. n - 2 : k + 1 \in WritersFrom(0)}
  BY <1>0, <1>1, <1>2 DEF WritersFrom
<1>5. \A k \in WritersFrom(0)' : k + 1 \in WritersFrom(0) /\ Nth(k)' = Nth(k + 1)
  BY <1>1, <1>4
<1>6. \A k \in WritersFrom(0) : k # 0 => k - 1 \in WritersFrom(0)' /\ Nth(k - 1)' = Nth(k)
  BY <1>0, <1>1, <1>4 DEF WritersFrom
<1>7. Mapped' = Mapped
  BY <1>2 DEF Mapped
<1>8. Displaced = Displaced' \cup FreedByCommit
  <2>1. Displaced' \subseteq Displaced
    BY <1>5 DEF Displaced
  <2>2. FreedByCommit \subseteq Displaced
    BY <1>0 DEF FreedByCommit, Displaced, WritersFrom
  <2>3. ASSUME NEW k \in WritersFrom(0)
        PROVE  Nth(k).prevPhys \in Displaced' \cup FreedByCommit
    <3>1. CASE k = 0
      BY <3>1 DEF FreedByCommit, WritersFrom
    <3>2. CASE k # 0
      BY <1>6, <3>2 DEF Displaced
    <3> QED BY <3>1, <3>2
  <2>4. Displaced \subseteq Displaced' \cup FreedByCommit
    BY <2>3 DEF Displaced
  <2> QED BY <2>1, <2>2, <2>4
<1>9. Displaced' \cap FreedByCommit = {}
  <2>1. ASSUME NEW k \in WritersFrom(0)', Nth(k)'.prevPhys \in FreedByCommit
        PROVE  FALSE
    <3>1. 0 \in WritersFrom(0) /\ Nth(k)'.prevPhys = Nth(0).prevPhys
      BY <1>0, <2>1 DEF FreedByCommit, WritersFrom
    <3>2. k + 1 \in WritersFrom(0) /\ Nth(k + 1).prevPhys = Nth(0).prevPhys
      BY <1>5, <3>1
    <3>3. k + 1 = 0
      BY <3>1, <3>2 DEF RenameInv, NamedOnce
    <3> QED BY <1>0, <1>4, <3>3
  <2> QED BY <2>1 DEF Displaced
<1>10. FreedByCommit \cap Mapped = {}
  BY <1>0 DEF FreedByCommit, RenameInv, NamedOnce, WritersFrom
<1>11. FreeRegistersUnnamed'
  BY <1>2, <1>7, <1>8, <1>9, <1>10 DEF RenameInv, FreeRegistersUnnamed
<1>12. NoRegisterLeaks'
  BY <1>2, <1>7, <1>8 DEF RenameInv, NoRegisterLeaks
<1>13. NamedOnce'
  <2>1. ASSUME NEW k \in WritersFrom(0)', NEW j \in WritersFrom(0)',
               Nth(j)'.prevPhys = Nth(k)'.prevPhys
        PROVE  j = k
    <3>1. j + 1 = k + 1
      BY <1>5, <2>1 DEF RenameInv, NamedOnce
    <3> QED BY <1>0, <1>4, <3>1
  <2>2. \A k \in WritersFrom(0)' : Nth(k)'.prevPhys \notin Mapped'
    BY <1>5, <1>7 DEF RenameInv, NamedOnce
  <2> QED BY <1>2, <2>1, <2>2 DEF RenameInv, NamedOnce
<1>14. MappingChain'
  <2> SUFFICES ASSUME NEW r \in ArchRegs, NEW k \in 0 .. n - 2, Writes(k, r)'
               PROVE
       /\ \A j \in k + 1 .. n - 2 :
            (Writes(j, r)' /\ \A i \in k + 1 .. j - 1 : ~Writes(i, r)')
              => Nth(j)'.prevPhys = Nth(k)'.pdst
       /\ (\A i \in k + 1 .. n - 2 : ~Writes(i, r)') => map'[r] = Nth(k)'.pdst
    BY <1>0, <1>2 DEF MappingChain
  <2>1. k + 1 \in 0 .. n - 1 /\ Writes(k + 1, r)
    BY <1>0, <1>3
  <2>2. ASSUME NEW m \in k + 1 .. n - 1, \A i \in k + 1 .. m - 1 : ~Writes(i, r)'
        PROVE  \A i \in (k + 1) + 1 .. m : ~Writes(i, r)
    <3>1. ASSUME NEW i \in (k + 1) + 1 .. m PROVE ~Writes(i, r)
      <4>1. i - 1 \in k + 1 .. m - 1 /\ i - 1 \in 0 .. n - 2 /\ (i - 1) + 1 = i
        BY <1>0
      <4> QED BY <1>3, <2>2, <4>1
    <3> QED BY <3>1
  <2>3. ASSUME NEW j \in k + 1 .. n - 2, Writes(j, r)',
               \A i \in k + 1 .. j - 1 : ~Writes(i, r)'
        PROVE  Nth(j)'.prevPhys = Nth(k)'.pdst
    <3>1. j + 1 \in (k + 1) + 1 .. n - 1 /\ Writes(j + 1, r)
      BY <1>0, <1>3, <2>3
    <3>2. \A i \in (k + 1) + 1 .. (j + 1) - 1 : ~Writes(i, r)
      <4>1. j \in k + 1 .. n - 1 /\ (j + 1) - 1 = j
        BY <1>0
      <4> QED BY <2>2, <2>3, <4>1
    <3>3. Nth(j + 1).prevPhys = Nth(k + 1).pdst
      BY <2>1, <3>1, <3>2 DEF RenameInv, MappingChain
    <3> QED BY <1>0, <1>1, <3>3
  <2>4. ASSUME \A i \in k + 1 .. n - 2 : ~Writes(i, r)'
        PROVE  map'[r] = Nth(k)'.pdst
    <3>1. \A i \in (k + 1) + 1 .. n - 1 : ~Writes(i, r)
      <4>1. n - 1 \in k + 1 .. n - 1 /\ (n - 1) - 1 = n - 2
        BY <1>0
      <4> QED BY <2>2, <2>4, <4>1
    <3>2. map[r] = Nth(k + 1).pdst
      BY <2>1, <3>1 DEF RenameInv, MappingChain
    <3> QED BY <1>0, <1>1, <1>2, <3>2
  <2> QED BY <2>3, <2>4
<1> QED BY <1>11, <1>12, <1>13, <1>14
-----------------------------------------------------------------------------
(* Safety: squash. *)

(* Where the register of a live writer has gone: into the map, or into the *)
(* displaced mapping of the next entry that renamed the same register.     *)
LEMMA NextHolder ==
  ASSUME RenameInv, NEW k \in 0 .. robCount - 1, NEW r \in ArchRegs, Writes(k, r)
  PROVE  \/ map[r] = Nth(k).pdst /\ \A i \in k + 1 .. robCount - 1 : ~Writes(i, r)
         \/ \E j \in k + 1 .. robCount - 1 :
              Writes(j, r) /\ Nth(j).prevPhys = Nth(k).pdst
<1>0. robCount \in Nat
  BY RenameAssumption DEF RenameInv, RenameTypeOK
<1>1. CASE \A i \in k + 1 .. robCount - 1 : ~Writes(i, r)
  BY <1>1 DEF RenameInv, MappingChain
<1>2. CASE \E i \in k + 1 .. robCount - 1 : Writes(i, r)
  <2>1. PICK j \in k + 1 .. robCount - 1 :
          Writes(j, r) /\ \A i \in k + 1 .. j - 1 : ~Writes(i, r)
    <3>1. k + 1 \in 0 .. robCount
      BY <1>0
    <3> QED BY <1>2, <3>1, UndoFacts DEF UndoIs, RenameInv
  <2>2. Nth(j).prevPhys = Nth(k).pdst
    BY <2>1 DEF RenameInv, MappingChain
  <2> QED BY <2>1, <2>2
<1> QED BY <1>1, <1>2

(* The mapping a displaced register came from: before the first writer of  *)
(* r from `from' on it was what the undo walk puts back, and otherwise it  *)
(* is the register of the previous writer.                                 *)
LEMMA PreviousHolder ==
  ASSUME RenameInv, NEW from \in 0 .. robCount, NEW r \in ArchRegs,
         NEW j \in from .. robCount, NEW p,
         \/ j < robCount /\ Writes(j, r) /\ p = Nth(j).prevPhys
         \/ j = robCount /\ p = map[r]
  PROVE  \/ p = Undo(from)[r]
         \/ \E k \in from .. j - 1 : Writes(k, r) /\ p = Nth(k).pdst
<1>0. robCount \in Nat
  BY RenameAssumption DEF RenameInv, RenameTypeOK
<1>1. CASE \A k \in from .. j - 1 : ~Writes(k, r)
  <2>1. CASE j < robCount /\ Writes(j, r) /\ p = Nth(j).prevPhys
    BY <1>0, <1>1, <2>1, UndoFacts DEF UndoIs, RenameInv
  <2>2. CASE j = robCount /\ p = map[r]
    BY <1>0, <1>1, <2>2, UndoFacts DEF UndoIs, RenameInv
  <2> QED BY <2>1, <2>2
<1>2. CASE \E k \in from .. j - 1 : Writes(k, r)
  <2> DEFINE S == {k \in from .. j - 1 : Writes(k, r)}
  <2>1. S \subseteq 0 .. robCount /\ S # {}
    BY <1>0, <1>2
  <2>2. PICK k \in S : \A x \in S : x <= k
    BY <1>0, <2>1, MaxExists
  <2>3. k \in 0 .. robCount - 1 /\ Writes(k, r) /\ k < j
    BY <1>0, <2>2
  <2>4. \A i \in k + 1 .. j - 1 : ~Writes(i, r)
    BY <1>0, <2>2
  <2>5. p = Nth(k).pdst
    <3>1. CASE j < robCount /\ Writes(j, r) /\ p = Nth(j).prevPhys
      <4>1. j \in k + 1 .. robCount - 1
        BY <1>0, <2>3, <3>1
      <4> QED BY <2>3, <2>4, <3>1, <4>1 DEF RenameInv, MappingChain
    <3>2. CASE j = robCount /\ p = map[r]
      BY <2>3, <2>4, <3>2 DEF RenameInv, MappingChain
    <3> QED BY <3>1, <3>2
  <2> QED BY <2>2, <2>5
<1> QED BY <1>1, <1>2

(* The undo walk gives back exactly the registers the squashed entries     *)
(* held, and exactly the mappings they displaced.                          *)
LEMMA SquashKeeps ==
  ASSUME RenameInv, NEW keep \in 0 .. robCount,
         map' = Undo(keep),
         freeList' = freeList \cup FreedBySquash(keep),
         robCount' = keep,
         UNCHANGED <<rob, robHead>>
  PROVE  /\ FreeRegistersUnnamed'
         /\ NoRegisterLeaks'
         /\ NamedOnce'
         /\ MappingChain'
<1> SUFFICES ASSUME NEW n, n = robCount
             PROVE  /\ FreeRegistersUnnamed'
                    /\ NoRegisterLeaks'
                    /\ NamedOnce'
                    /\ MappingChain'
  OBVIOUS
<1>0. n \in Nat /\ keep \in Nat /\ keep <= n
  BY RenameAssumption DEF RenameInv, RenameTypeOK
<1>1. \A k : Nth(k)' = Nth(k)
  BY SquashNth
<1>2. \A k, r : Writes(k, r)' <=> Writes(k, r)
  BY <1>1 DEF Writes
<1>3. WritersFrom(0)' = {k \in WritersFrom(0) : k < keep}
  BY <1>0, <1>1 DEF WritersFrom
<1>4. \A k \in WritersFrom(0) : Nth(k).rd \in ArchRegs /\ Writes(k, Nth(k).rd)
  BY NthType DEF RenameInv, WritersFrom, Writes
<1>5. WritersFrom(keep) = {k \in WritersFrom(0) : k >= keep}
  BY <1>0 DEF WritersFrom
<1>6. ASSUME NEW r \in ArchRegs
      PROVE  \/ /\ map'[r] = map[r]
                /\ \A i \in keep .. n - 1 : ~Writes(i, r)
             \/ \E o \in keep .. n - 1 :
                  /\ Writes(o, r) /\ map'[r] = Nth(o).prevPhys
                  /\ \A i \in keep .. o - 1 : ~Writes(i, r)
  BY UndoFacts DEF UndoIs, RenameInv
<1>7. \A r : \A o \in keep .. n - 1 : Writes(o, r) => o \in WritersFrom(0) /\ r = Nth(o).rd
  BY <1>0 DEF WritersFrom, Writes
<1>8. Mapped' \subseteq Mapped \cup Displaced
  <2>1. ASSUME NEW r \in ArchRegs PROVE map'[r] \in Mapped \cup Displaced
    BY <1>6, <1>7 DEF Mapped, Displaced
  <2> QED BY <2>1 DEF Mapped
<1>9. Displaced' = {Nth(k).prevPhys : k \in {i \in WritersFrom(0) : i < keep}}
  BY <1>1, <1>3 DEF Displaced
<1>10. ASSUME NEW k \in WritersFrom(keep)
       PROVE  Nth(k).pdst \notin Displaced' /\ Nth(k).pdst \notin Mapped'
  <2> DEFINE r == Nth(k).rd
  <2>1. k \in 0 .. n - 1 /\ keep <= k /\ r \in ArchRegs /\ Writes(k, r)
    BY <1>0, <1>4, <1>5 DEF WritersFrom
  <2>2. CASE map[r] = Nth(k).pdst
    <3>1. Nth(k).pdst \notin Displaced'
      BY <1>9, <2>1, <2>2 DEF RenameInv, NamedOnce, Mapped
    <3>2. ASSUME NEW s \in ArchRegs, map'[s] = map[r] PROVE FALSE
      <4>1. CASE map'[s] = map[s] /\ \A i \in keep .. n - 1 : ~Writes(i, s)
        <5>1. map[s] = map[r]
          BY <3>2, <4>1
        <5>2. s = r
          BY <2>1, <5>1 DEF RenameInv, NamedOnce
        <5>3. k \in keep .. n - 1
          BY <1>0, <2>1
        <5> QED BY <2>1, <4>1, <5>2, <5>3
      <4>2. CASE \E o \in keep .. n - 1 : Writes(o, s) /\ map'[s] = Nth(o).prevPhys
        <5>1. PICK o \in keep .. n - 1 : Writes(o, s) /\ map'[s] = Nth(o).prevPhys
          BY <4>2
        <5>2. o \in WritersFrom(0)
          BY <1>7, <5>1
        <5>3. Nth(o).prevPhys \notin Mapped
          BY <5>2 DEF RenameInv, NamedOnce
        <5>4. map[r] \in Mapped
          BY <2>1 DEF Mapped
        <5> QED BY <3>2, <5>1, <5>3, <5>4
      <4> QED BY <1>6, <4>1, <4>2
    <3> QED BY <2>2, <3>1, <3>2 DEF Mapped
  <2>3. CASE \E j \in k + 1 .. n - 1 : Writes(j, r) /\ Nth(j).prevPhys = Nth(k).pdst
    <3>1. PICK j \in k + 1 .. n - 1 : Writes(j, r) /\ Nth(j).prevPhys = Nth(k).pdst
      BY <2>3
    <3>2. j \in WritersFrom(0) /\ r = Nth(j).rd /\ keep < j /\ keep <= k /\ k < j
      BY <1>0, <1>7, <2>1, <3>1
    <3>3. Nth(k).pdst \notin Displaced'
      BY <1>0, <1>9, <3>1, <3>2 DEF RenameInv, NamedOnce
    <3>4. ASSUME NEW s \in ArchRegs, map'[s] = Nth(j).prevPhys PROVE FALSE
      <4>1. CASE map'[s] = map[s]
        BY <3>2, <3>4, <4>1 DEF RenameInv, NamedOnce, Mapped
      <4>2. CASE \E o \in keep .. n - 1 :
                   /\ Writes(o, s) /\ map'[s] = Nth(o).prevPhys
                   /\ \A i \in keep .. o - 1 : ~Writes(i, s)
        <5>1. PICK o \in keep .. n - 1 :
                   /\ Writes(o, s) /\ map'[s] = Nth(o).prevPhys
                   /\ \A i \in keep .. o - 1 : ~Writes(i, s)
          BY <4>2
        <5>2. o = j /\ s = r
          BY <1>7, <3>2, <3>4, <5>1 DEF RenameInv, NamedOnce
        <5>3. k \in keep .. o - 1
          BY <1>0, <2>1, <3>2, <5>2
        <5> QED BY <2>1, <5>1, <5>2, <5>3
      <4> QED BY <1>6, <4>1, <4>2
    <3> QED BY <3>1, <3>3, <3>4 DEF Mapped
  <2>4. \/ map[r] = Nth(k).pdst
        \/ \E j \in k + 1 .. n - 1 : Writes(j, r) /\ Nth(j).prevPhys = Nth(k).pdst
    BY <2>1, NextHolder
  <2> QED BY <2>2, <2>3, <2>4
<1>11. FreeRegistersUnnamed'
  <2>1. Displaced' \subseteq Displaced
    BY <1>9 DEF Displaced
  <2>2. FreedBySquash(keep) \cap (Mapped' \cup Displaced') = {}
    BY <1>10 DEF FreedBySquash
  <2> QED BY <1>8, <2>1, <2>2 DEF RenameInv, FreeRegistersUnnamed
<1>12. NoRegisterLeaks'
  <2>1. ASSUME NEW r \in ArchRegs, NEW j \in keep .. n, NEW p,
               \/ j < n /\ Writes(j, r) /\ p = Nth(j).prevPhys
               \/ j = n /\ p = map[r]
        PROVE  p \in Mapped' \cup FreedBySquash(keep)
    <3>1. CASE p = Undo(keep)[r]
      BY <3>1 DEF Mapped
    <3>2. CASE \E k \in keep .. j - 1 : Writes(k, r) /\ p = Nth(k).pdst
      <4>1. PICK k \in keep .. j - 1 : Writes(k, r) /\ p = Nth(k).pdst
        BY <3>2
      <4>2. k \in WritersFrom(keep)
        BY <1>0, <4>1 DEF WritersFrom, Writes
      <4> QED BY <4>1, <4>2 DEF FreedBySquash
    <3> QED BY <2>1, <3>1, <3>2, PreviousHolder
  <2>2. Mapped \subseteq Mapped' \cup FreedBySquash(keep)
    BY <1>0, <2>1 DEF Mapped
  <2>3. ASSUME NEW j \in WritersFrom(0)
        PROVE  Nth(j).prevPhys \in Displaced' \cup Mapped' \cup FreedBySquash(keep)
    <3>1. CASE j < keep
      BY <1>9, <3>1
    <3>2. CASE ~(j < keep)
      <4>1. j \in keep .. n /\ j < n /\ Nth(j).rd \in ArchRegs /\ Writes(j, Nth(j).rd)
        BY <1>0, <1>4, <3>2 DEF WritersFrom
      <4> QED BY <2>1, <4>1
    <3> QED BY <3>1, <3>2
  <2>4. Displaced \subseteq Displaced' \cup Mapped' \cup FreedBySquash(keep)
    BY <2>3 DEF Displaced
  <2>5. FreedBySquash(keep) \subseteq Pregs
    BY <1>5, NthType DEF FreedBySquash, RenameInv, WritersFrom
  <2>6. Mapped' \subseteq Pregs /\ Displaced' \subseteq Pregs
    BY <1>8, <1>9 DEF RenameInv, NoRegisterLeaks, Displaced
  <2> QED BY <2>2, <2>4, <2>5, <2>6 DEF RenameInv, NoRegisterLeaks
<1>13. NamedOnce'
  <2>1. ASSUME NEW r \in ArchRegs, NEW s \in ArchRegs, map'[r] = map'[s]
        PROVE  r = s
    <3>1. CASE map'[r] = map[r] /\ map'[s] = map[s]
      BY <2>1, <3>1 DEF RenameInv, NamedOnce
    <3>2. ASSUME NEW x \in ArchRegs, NEW o \in keep .. n - 1, NEW y,
                 Writes(o, y), Nth(o).prevPhys = map[x]
          PROVE  FALSE
      BY <1>7, <3>2 DEF RenameInv, NamedOnce, Mapped
    <3>3. ASSUME NEW o \in keep .. n - 1, Writes(o, r), map'[r] = Nth(o).prevPhys,
                 NEW q \in keep .. n - 1, Writes(q, s), map'[s] = Nth(q).prevPhys
          PROVE  r = s
      <4>1. /\ o \in WritersFrom(0) /\ r = Nth(o).rd
            /\ q \in WritersFrom(0) /\ s = Nth(q).rd
        BY <1>7, <3>3
      <4>2. o = q
        BY <2>1, <3>3, <4>1 DEF RenameInv, NamedOnce
      <4> QED BY <4>1, <4>2
    <3> QED BY <1>6, <2>1, <3>1, <3>2, <3>3
  <2>2. ASSUME NEW k \in WritersFrom(0), k < keep, NEW r \in ArchRegs
        PROVE  Nth(k).prevPhys # map'[r]
    <3>1. CASE map'[r] = map[r]
      BY <3>1 DEF RenameInv, NamedOnce, Mapped
    <3>2. CASE \E o \in keep .. n - 1 : Writes(o, r) /\ map'[r] = Nth(o).prevPhys
      BY <1>0, <1>7, <2>2, <3>2 DEF RenameInv, NamedOnce
    <3> QED BY <1>6, <3>1, <3>2
  <2>3. \A k \in WritersFrom(0)' : Nth(k)'.prevPhys \notin Mapped'
    BY <1>1, <1>3, <2>2 DEF Mapped
  <2>4. \A k, j \in WritersFrom(0)' : Nth(j)'.prevPhys = Nth(k)'.prevPhys => j = k
    BY <1>1, <1>3 DEF RenameInv, NamedOnce
  <2> QED BY <2>1, <2>3, <2>4 DEF NamedOnce
<1>14. MappingChain'
  <2> SUFFICES ASSUME NEW r \in ArchRegs, NEW k \in 0 .. keep - 1, Writes(k, r)
               PROVE
       /\ \A j \in k + 1 .. keep - 1 :
            (Writes(j, r) /\ \A i \in k + 1 .. j - 1 : ~Writes(i, r))
              => Nth(j).prevPhys = Nth(k).pdst
       /\ (\A i \in k + 1 .. keep - 1 : ~Writes(i, r)) => map'[r] = Nth(k).pdst
    BY <1>1, <1>2 DEF MappingChain
  <2>1. k \in 0 .. n - 1
    BY <1>0
  <2>2. ASSUME NEW j \in k + 1 .. keep - 1, Writes(j, r),
               \A i \in k + 1 .. j - 1 : ~Writes(i, r)
        PROVE  Nth(j).prevPhys = Nth(k).pdst
    <3>1. j \in k + 1 .. n - 1
      BY <1>0
    <3> QED BY <2>1, <2>2, <3>1 DEF RenameInv, MappingChain
  <2>3. ASSUME \A i \in k + 1 .. keep - 1 : ~Writes(i, r)
        PROVE  map'[r] = Nth(k).pdst
    <3>1. CASE map'[r] = map[r] /\ \A i \in keep .. n - 1 : ~Writes(i, r)
      <4>1. \A i \in k + 1 .. n - 1 : ~Writes(i, r)
        BY <1>0, <2>3, <3>1
      <4> QED BY <2>1, <3>1, <4>1 DEF RenameInv, MappingChain
    <3>2. CASE \E o \in keep .. n - 1 :
                 /\ Writes(o, r) /\ map'[r] = Nth(o).prevPhys
                 /\ \A i \in keep .. o - 1 : ~Writes(i, r)
      <4>1. PICK o \in keep .. n - 1 :
                 /\ Writes(o, r) /\ map'[r] = Nth(o).prevPhys
                 /\ \A i \in keep .. o - 1 : ~Writes(i, r)
        BY <3>2
      <4>2. o \in k + 1 .. n - 1 /\ \A i \in k + 1 .. o - 1 : ~Writes(i, r)
        BY <1>0, <2>3, <4>1
      <4> QED BY <2>1, <4>1, <4>2 DEF RenameInv, MappingChain
    <3> QED BY <1>6, <3>1, <3>2
  <2> QED BY <2>2, <2>3
<1> QED BY <1>11, <1>12, <1>13, <1>14
-----------------------------------------------------------------------------
(* Safety: the invariant. *)

LEMMA RecoverInv ==
  ASSUME RenameInv, NEW seq, RenameRecover(seq)
  PROVE  /\ FreeRegistersUnnamed'
         /\ NoRegisterLeaks'
         /\ NamedOnce'
         /\ MappingChain'
<1>1. PICK keep \in 0 .. robCount :
        /\ map' = Undo(keep)
        /\ freeList' = freeList \cup FreedBySquash(keep)
        /\ robCount' = keep
        /\ UNCHANGED <<rob, robHead>>
  BY DEF RenameRecover
<1> QED BY <1>1, SquashKeeps

LEMMA NextInv == RenameInv /\ [RenameNext]_renameVars => RenameInv'
<1> SUFFICES ASSUME RenameInv, [RenameNext]_renameVars PROVE RenameInv'
  OBVIOUS
<1>1. RenameTypeOK'
  BY NextType DEF RenameInv
<1>2. ASSUME NEW rd \in ArchRegs \cup {NoReg}, RenameDispatch(rd)
      PROVE  RenameInv'
  <2>1. PICK p \in (IF HasDest(rd) THEN freeList ELSE {NoReg}) : Alloc(rd, p)
    BY <1>2 DEF RenameDispatch
  <2>2. robCount < RobSize
    BY <1>2 DEF RenameDispatch
  <2>3. CASE HasDest(rd)
    BY <1>1, <2>1, <2>2, <2>3, DispatchDest DEF RenameInv, HasDest
  <2>4. CASE ~HasDest(rd)
    BY <1>1, <2>1, <2>2, <2>4, DispatchNone DEF RenameInv
  <2> QED BY <2>3, <2>4
<1>3. CASE RenameCommit
  BY <1>1, <1>3, CommitKeeps DEF RenameInv
<1>4. ASSUME NEW seq, RenameRecover(seq) PROVE RenameInv'
  BY <1>1, <1>4, RecoverInv DEF RenameInv
<1>5. CASE UNCHANGED renameVars
  BY <1>1, <1>5 DEF RenameInv, renameVars, FreeRegistersUnnamed, NoRegisterLeaks,
     NamedOnce, MappingChain, Mapped, Displaced, WritersFrom, Writes, Nth
<1> QED
  BY <1>2, <1>3, <1>4, <1>5 DEF RenameNext, RenameMispredict, RenameReplay

LEMMA Invariant == RenameSpec => []RenameInv
BY InitInv, NextInv, PTL DEF RenameSpec

(* Dispatch never hands out a register that the map or a live entry still  *)
(* names, for every ROB size and register count.                           *)
THEOREM FreeListSafe == RenameSpec => []FreeRegistersUnnamed
<1>1. RenameInv => FreeRegistersUnnamed
  BY DEF RenameInv
<1> QED BY <1>1, Invariant, PTL

(* Commits and squashes together return every register that is no longer   *)
(* needed.                                                                 *)
THEOREM FreeListComplete == RenameSpec => []NoRegisterLeaks
<1>1. RenameInv => NoRegisterLeaks
  BY DEF RenameInv
<1> QED BY <1>1, Invariant, PTL

(* No physical register speaks for two architectural values.               *)
THEOREM NoAliasing == RenameSpec => []NamedOnce
<1>1. RenameInv => NamedOnce
  BY DEF RenameInv
<1> QED BY <1>1, Invariant, PTL

(* So a physical register is always exactly one of free, mapped and        *)
(* displaced.                                                              *)
THEOREM RegistersNeverLost == RenameSpec => []RegistersConserved
<1>1. RenameInv => RegistersConserved
  BY DEF RenameInv, RegistersConserved
<1> QED BY <1>1, Invariant, PTL

(* The undo walk finds, entry by entry, the mappings in the order they     *)
(* were made.                                                              *)
THEOREM ChainHolds == RenameSpec => []MappingChain
<1>1. RenameInv => MappingChain
  BY DEF RenameInv
<1> QED BY <1>1, Invariant, PTL
-----------------------------------------------------------------------------
(* Refinement: what each action does to the undo maps. *)

LEMMA AllocUndo ==
  ASSUME RenameTypeOK, RenameTypeOK', NEW n, n = robCount, n < RobSize,
         NEW rd, NEW p, HasDest(rd) => rd \in ArchRegs,
         p = NoReg <=> ~HasDest(rd), Alloc(rd, p),
         NEW k \in 0 .. n
  PROVE  Undo(k)' = Undo(k)
<1>0. n \in Nat /\ robCount' = n + 1
  BY RenameAssumption DEF RenameTypeOK, Alloc
<1>1. /\ \A j \in 0 .. n - 1 : Nth(j)' = Nth(j)
      /\ Nth(n)'.pdst = p /\ Nth(n)'.rd = rd
      /\ HasDest(rd) => Nth(n)'.prevPhys = map[rd]
  BY AllocNth
<1>2. \A r : \A j \in 0 .. n - 1 : Writes(j, r)' <=> Writes(j, r)
  BY <1>1 DEF Writes
<1>3. \A r : Writes(n, r)' <=> HasDest(rd) /\ r = rd
  BY <1>1 DEF Writes
<1>4. \A r \in ArchRegs : ~(HasDest(rd) /\ r = rd) => map'[r] = map[r]
  BY DEF Alloc, RenameTypeOK
<1>5. UndoIs /\ UndoIs'
  BY UndoFacts, UndoFactsNext
<1>6. ASSUME NEW r \in ArchRegs PROVE Undo(k)'[r] = Undo(k)[r]
  <2>1. CASE \A j \in k .. n - 1 : ~Writes(j, r)
    <3>1. Undo(k)[r] = map[r]
      BY <1>5, <2>1 DEF UndoIs
    <3>2. \A j \in k .. n - 1 : ~Writes(j, r)'
      BY <1>0, <1>2, <2>1
    <3>3. CASE HasDest(rd) /\ r = rd
      <4>1. n \in k .. robCount' - 1 /\ Writes(n, r)'
        BY <1>0, <1>3, <3>3
      <4>2. Undo(k)'[r] = Nth(n)'.prevPhys
        <5>1. k \in 0 .. robCount'
          BY <1>0
        <5> QED BY <1>5, <3>2, <4>1, <5>1 DEF UndoIs
      <4> QED BY <1>1, <3>1, <3>3, <4>2
    <3>4. CASE ~(HasDest(rd) /\ r = rd)
      <4>1. \A j \in k .. robCount' - 1 : ~Writes(j, r)'
        BY <1>0, <1>3, <3>2, <3>4
      <4>2. Undo(k)'[r] = map'[r]
        BY <1>0, <1>5, <4>1 DEF UndoIs
      <4> QED BY <1>4, <3>1, <3>4, <4>2
    <3> QED BY <3>3, <3>4
  <2>2. CASE \E j \in k .. n - 1 : Writes(j, r)
    <3>1. PICK j \in k .. n - 1 : Writes(j, r) /\ \A i \in k .. j - 1 : ~Writes(i, r)
      BY <1>5, <2>2 DEF UndoIs
    <3>2. Undo(k)[r] = Nth(j).prevPhys
      BY <1>5, <3>1 DEF UndoIs
    <3>3. /\ j \in k .. robCount' - 1 /\ Writes(j, r)'
          /\ \A i \in k .. j - 1 : ~Writes(i, r)'
      BY <1>0, <1>2, <3>1
    <3>4. Undo(k)'[r] = Nth(j)'.prevPhys
      BY <1>0, <1>5, <3>3 DEF UndoIs
    <3> QED BY <1>0, <1>1, <3>1, <3>2, <3>4
  <2> QED BY <2>1, <2>2
<1> QED BY <1>6 DEF Undo

LEMMA CommitUndo ==
  ASSUME RenameTypeOK, RenameTypeOK', NEW n, n = robCount, RenameCommit,
         NEW k \in 0 .. n - 1
  PROVE  Undo(k)' = Undo(k + 1)
<1>0. n \in Nat /\ robCount' = n - 1 /\ map' = map
  BY RenameAssumption DEF RenameTypeOK, RenameCommit
<1>1. \A j \in 0 .. n - 2 : Nth(j)' = Nth(j + 1)
  BY CommitNth
<1>2. \A r : \A j \in 0 .. n - 2 : Writes(j, r)' <=> Writes(j + 1, r)
  BY <1>1 DEF Writes
<1>3. UndoIs /\ UndoIs'
  BY UndoFacts, UndoFactsNext
<1>4. ASSUME NEW r \in ArchRegs PROVE Undo(k)'[r] = Undo(k + 1)[r]
  <2>0. k + 1 \in 0 .. robCount /\ k \in 0 .. robCount'
    BY <1>0
  <2>1. CASE \A j \in k .. n - 2 : ~Writes(j, r)'
    <3>1. \A j \in k + 1 .. n - 1 : ~Writes(j, r)
      <4>1. ASSUME NEW j \in k + 1 .. n - 1 PROVE ~Writes(j, r)
        <5>1. j - 1 \in k .. n - 2 /\ j - 1 \in 0 .. n - 2 /\ (j - 1) + 1 = j
          BY <1>0
        <5> QED BY <1>2, <2>1, <5>1
      <4> QED BY <4>1
    <3>2. Undo(k)'[r] = map'[r]
      BY <1>0, <1>3, <2>0, <2>1 DEF UndoIs
    <3>3. Undo(k + 1)[r] = map[r]
      BY <1>0, <1>3, <2>0, <3>1 DEF UndoIs
    <3> QED BY <1>0, <3>2, <3>3
  <2>2. CASE \E j \in k .. n - 2 : Writes(j, r)'
    <3>1. PICK j \in k .. n - 2 :
            Writes(j, r)' /\ \A i \in k .. j - 1 : ~Writes(i, r)'
      <4>1. n - 2 = robCount' - 1
        BY <1>0
      <4>2. \E j \in k .. robCount' - 1 : Writes(j, r)'
        BY <2>2, <4>1
      <4>3. \E j \in k .. robCount' - 1 :
              Writes(j, r)' /\ \A i \in k .. j - 1 : ~Writes(i, r)'
        BY <1>3, <2>0, <4>2 DEF UndoIs
      <4> QED BY <4>1, <4>3
    <3>2. Undo(k)'[r] = Nth(j)'.prevPhys
      BY <1>0, <1>3, <2>0, <3>1 DEF UndoIs
    <3>3. j + 1 \in k + 1 .. n - 1 /\ Writes(j + 1, r)
      BY <1>0, <1>2, <3>1
    <3>4. \A i \in k + 1 .. (j + 1) - 1 : ~Writes(i, r)
      <4>1. ASSUME NEW i \in k + 1 .. (j + 1) - 1 PROVE ~Writes(i, r)
        <5>1. i - 1 \in k .. j - 1 /\ i - 1 \in 0 .. n - 2 /\ (i - 1) + 1 = i
          BY <1>0
        <5> QED BY <1>2, <3>1, <5>1
      <4> QED BY <4>1
    <3>5. Undo(k + 1)[r] = Nth(j + 1).prevPhys
      BY <1>3, <2>0, <3>3, <3>4 DEF UndoIs
    <3> QED BY <1>0, <1>1, <3>1, <3>2, <3>5
  <2> QED BY <2>1, <2>2
<1> QED BY <1>4 DEF Undo

LEMMA SquashUndo ==
  ASSUME RenameTypeOK, RenameTypeOK', NEW keep \in 0 .. robCount,
         map' = Undo(keep), robCount' = keep, UNCHANGED <<rob, robHead>>,
         NEW k \in 0 .. keep
  PROVE  Undo(k)' = Undo(k)
<1> SUFFICES ASSUME NEW n, n = robCount
             PROVE  Undo(k)' = Undo(k)
  OBVIOUS
<1>0. n \in Nat /\ keep \in Nat /\ keep <= n /\ k \in 0 .. n /\ k \in 0 .. robCount'
  BY RenameAssumption DEF RenameTypeOK
<1>1. \A j : Nth(j)' = Nth(j)
  BY SquashNth
<1>2. \A j, r : Writes(j, r)' <=> Writes(j, r)
  BY <1>1 DEF Writes
<1>3. UndoIs /\ UndoIs'
  BY UndoFacts, UndoFactsNext
<1>4. ASSUME NEW r \in ArchRegs PROVE Undo(k)'[r] = Undo(k)[r]
  <2>1. CASE \A j \in k .. keep - 1 : ~Writes(j, r)
    <3>1. Undo(k)'[r] = Undo(keep)[r]
      BY <1>0, <1>2, <1>3, <2>1 DEF UndoIs
    <3>2. CASE \A j \in keep .. n - 1 : ~Writes(j, r)
      <4>1. \A j \in k .. n - 1 : ~Writes(j, r)
        BY <1>0, <2>1, <3>2
      <4>2. Undo(k)[r] = map[r] /\ Undo(keep)[r] = map[r]
        BY <1>0, <1>3, <3>2, <4>1 DEF UndoIs
      <4> QED BY <3>1, <4>2
    <3>3. CASE \E j \in keep .. n - 1 : Writes(j, r)
      <4>1. PICK j \in keep .. n - 1 :
              Writes(j, r) /\ \A i \in keep .. j - 1 : ~Writes(i, r)
        BY <1>0, <1>3, <3>3 DEF UndoIs
      <4>2. j \in k .. n - 1 /\ \A i \in k .. j - 1 : ~Writes(i, r)
        BY <1>0, <2>1, <4>1
      <4>3. Undo(k)[r] = Nth(j).prevPhys /\ Undo(keep)[r] = Nth(j).prevPhys
        BY <1>0, <1>3, <4>1, <4>2 DEF UndoIs
      <4> QED BY <3>1, <4>3
    <3> QED BY <3>2, <3>3
  <2>2. CASE \E j \in k .. keep - 1 : Writes(j, r)
    <3>1. \E j \in k .. robCount' - 1 : Writes(j, r)'
      BY <1>2, <2>2
    <3>2. PICK j \in k .. keep - 1 :
            Writes(j, r) /\ \A i \in k .. j - 1 : ~Writes(i, r)
      BY <1>0, <1>2, <1>3, <3>1 DEF UndoIs
    <3>3. Undo(k)'[r] = Nth(j).prevPhys
      BY <1>0, <1>1, <1>2, <1>3, <3>2 DEF UndoIs
    <3>4. j \in k .. n - 1
      BY <1>0
    <3>5. Undo(k)[r] = Nth(j).prevPhys
      BY <1>0, <1>3, <3>2, <3>4 DEF UndoIs
    <3> QED BY <3>3, <3>5
  <2> QED BY <2>1, <2>2
<1> QED BY <1>4 DEF Undo
-----------------------------------------------------------------------------
(* Refinement: the steps of Checkpoints. *)

(* The copies of the map kept for the entries in flight.                   *)
Snaps == [k \in 1 .. robCount |-> Undo(k - 1)]

Maps == [ArchRegs -> Pregs]

SnapsAre ==
  /\ Snaps \in Seq(Maps)
  /\ Len(Snaps) = robCount
  /\ \A k \in 1 .. robCount : Snaps[k] = Undo(k - 1)

LEMMA SnapsFacts == RenameTypeOK => SnapsAre
<1> SUFFICES ASSUME RenameTypeOK PROVE SnapsAre
  OBVIOUS
<1>0. robCount \in Nat
  BY RenameAssumption DEF RenameTypeOK
<1>1. ASSUME NEW k \in 1 .. robCount PROVE Undo(k - 1) \in Maps
  BY <1>0, UndoType DEF Maps
<1>2. Snaps \in Seq(Maps) /\ Len(Snaps) = robCount
  BY <1>0, <1>1 DEF Snaps
<1> QED BY <1>2 DEF Snaps, SnapsAre

LEMMA SnapsFactsNext == RenameTypeOK' => SnapsAre'
BY SnapsFacts, PTL

(* Nothing a kept copy names is free.                                      *)
LEMMA FreeNotNamed ==
  ASSUME RenameInv, NEW p \in freeList
  PROVE  ~CheckpointOf!Named(p)
<1>0. robCount \in Nat
  BY RenameAssumption DEF RenameInv, RenameTypeOK
<1>1. ASSUME NEW r \in ArchRegs PROVE map[r] # p
  BY DEF RenameInv, FreeRegistersUnnamed, Mapped
<1>2. ASSUME NEW k \in 0 .. robCount - 1, NEW r \in ArchRegs
      PROVE  Undo(k)[r] # p
  <2>1. CASE \A j \in k .. robCount - 1 : ~Writes(j, r)
    BY <1>0, <1>1, <2>1, UndoFacts DEF UndoIs, RenameInv
  <2>2. CASE \E j \in k .. robCount - 1 : Writes(j, r)
    <3>1. PICK j \in k .. robCount - 1 :
            Writes(j, r) /\ Undo(k)[r] = Nth(j).prevPhys
      BY <1>0, <2>2, UndoFacts DEF UndoIs, RenameInv
    <3>2. Nth(j).prevPhys \in Displaced
      BY <1>0, <3>1 DEF Displaced, WritersFrom, Writes
    <3> QED BY <3>1, <3>2 DEF RenameInv, FreeRegistersUnnamed
  <2> QED BY <2>1, <2>2
<1>3. Len(Snaps) = robCount /\ \A k \in 1 .. robCount : Snaps[k] = Undo(k - 1)
  BY SnapsFacts DEF SnapsAre, RenameInv
<1>4. \A k \in 1 .. Len(Snaps), r \in ArchRegs : Snaps[k][r] # p
  <2>1. ASSUME NEW k \in 1 .. Len(Snaps), NEW r \in ArchRegs
        PROVE  Snaps[k][r] # p
    <3>1. k - 1 \in 0 .. robCount - 1
      BY <1>0, <1>3
    <3> QED BY <1>2, <1>3, <3>1
  <2> QED BY <2>1
<1> QED
  BY <1>1, <1>4 DEF CheckpointOf!Named, Snaps, ArchRegs

(* A dispatch appends the current map to the kept copies.                  *)
LEMMA SnapsAlloc ==
  ASSUME RenameTypeOK, RenameTypeOK', robCount < RobSize,
         NEW rd, NEW p, HasDest(rd) => rd \in ArchRegs,
         p = NoReg <=> ~HasDest(rd), Alloc(rd, p)
  PROVE  Snaps' = Append(Snaps, map)
<1> SUFFICES ASSUME NEW n, n = robCount PROVE Snaps' = Append(Snaps, map)
  OBVIOUS
<1>0. n \in Nat /\ robCount' = n + 1 /\ map \in Maps
  BY RenameAssumption DEF RenameTypeOK, Alloc, Maps
<1>1. SnapsAre /\ SnapsAre'
  BY SnapsFacts, SnapsFactsNext
<1>2. \A k \in 0 .. n : Undo(k)' = Undo(k)
  BY AllocUndo
<1>3. Undo(n) = map
  <2>1. ASSUME NEW r \in ArchRegs PROVE Undo(n)[r] = map[r]
    BY <1>0, UndoFacts DEF UndoIs
  <2> QED BY <2>1 DEF Undo, RenameTypeOK
<1>4. /\ Append(Snaps, map) \in Seq(Maps)
      /\ Len(Append(Snaps, map)) = n + 1
      /\ \A k \in 1 .. n : Append(Snaps, map)[k] = Undo(k - 1)
      /\ Append(Snaps, map)[n + 1] = map
  <2>1. /\ Snaps \in Seq(Maps) /\ Len(Snaps) = n
        /\ \A k \in 1 .. n : Snaps[k] = Undo(k - 1)
    BY <1>1 DEF SnapsAre
  <2>2. /\ Append(Snaps, map) \in Seq(Maps)
        /\ Len(Append(Snaps, map)) = n + 1
        /\ \A k \in 1 .. n : Append(Snaps, map)[k] = Snaps[k]
        /\ Append(Snaps, map)[n + 1] = map
    BY <1>0, <2>1, AppendProperties
  <2> QED BY <2>1, <2>2
<1>5. ASSUME NEW k \in 1 .. n + 1 PROVE Snaps'[k] = Append(Snaps, map)[k]
  <2>1. k - 1 \in 0 .. n /\ Snaps'[k] = Undo(k - 1)'
    BY <1>0, <1>1 DEF SnapsAre
  <2>2. Snaps'[k] = Undo(k - 1)
    BY <1>2, <2>1
  <2>3. CASE k = n + 1
    <3>1. k - 1 = n
      BY <1>0, <2>3
    <3>2. Snaps'[k] = map
      BY <1>3, <2>2, <3>1
    <3> QED BY <1>4, <2>3, <3>2
  <2>4. CASE k \in 1 .. n
    BY <1>4, <2>2, <2>4
  <2>5. k = n + 1 \/ k \in 1 .. n
    BY <1>0
  <2> QED BY <2>3, <2>4, <2>5
<1>6. Snaps' \in Seq(Maps) /\ Len(Snaps') = n + 1
  BY <1>0, <1>1 DEF SnapsAre
<1> QED BY <1>4, <1>5, <1>6, SeqEqual

(* A commit drops the oldest copy.                                         *)
LEMMA SnapsCommit ==
  ASSUME RenameTypeOK, RenameTypeOK', RenameCommit
  PROVE  Snaps # <<>> /\ Snaps' = Tail(Snaps)
<1> SUFFICES ASSUME NEW n, n = robCount
             PROVE  Snaps # <<>> /\ Snaps' = Tail(Snaps)
  OBVIOUS
<1>0. n \in Nat /\ n > 0 /\ robCount' = n - 1
  BY RenameAssumption DEF RenameTypeOK, RenameCommit
<1>1. SnapsAre /\ SnapsAre'
  BY SnapsFacts, SnapsFactsNext
<1>2. Snaps # <<>>
  BY <1>0, <1>1 DEF SnapsAre
<1>3. /\ Tail(Snaps) \in Seq(Maps) /\ Len(Tail(Snaps)) = n - 1
      /\ \A k \in 1 .. n - 1 : Tail(Snaps)[k] = Snaps[k + 1]
  BY <1>0, <1>1, <1>2, HeadTailProperties DEF SnapsAre
<1>4. ASSUME NEW k \in 1 .. n - 1 PROVE Snaps'[k] = Tail(Snaps)[k]
  <2>1. Snaps'[k] = Undo(k - 1)' /\ k - 1 \in 0 .. n - 1
    BY <1>0, <1>1 DEF SnapsAre
  <2>2. Undo(k - 1)' = Undo((k - 1) + 1)
    BY <2>1, CommitUndo
  <2>3. k + 1 \in 1 .. robCount /\ (k + 1) - 1 = k /\ (k - 1) + 1 = k
    BY <1>0
  <2>4. Snaps[k + 1] = Undo(k)
    BY <1>1, <2>3 DEF SnapsAre
  <2> QED BY <1>3, <2>1, <2>2, <2>3, <2>4
<1>5. Snaps' \in Seq(Maps) /\ Len(Snaps') = n - 1
  BY <1>0, <1>1 DEF SnapsAre
<1> QED BY <1>2, <1>3, <1>4, <1>5, SeqEqual

(* A squash that leaves keep entries takes the copy of the oldest entry it *)
(* removes for the map, and keeps the copies of the survivors.             *)
LEMMA SnapsSquash ==
  ASSUME RenameTypeOK, RenameTypeOK', NEW keep \in 0 .. robCount,
         map' = Undo(keep), robCount' = keep, UNCHANGED <<rob, robHead>>
  PROVE  \/ map' = map /\ Snaps' = Snaps
         \/ /\ keep + 1 \in 1 .. Len(Snaps)
            /\ map' = Snaps[keep + 1]
            /\ Snaps' = SubSeq(Snaps, 1, (keep + 1) - 1)
<1> SUFFICES ASSUME NEW n, n = robCount
             PROVE  \/ map' = map /\ Snaps' = Snaps
                    \/ /\ keep + 1 \in 1 .. Len(Snaps)
                       /\ map' = Snaps[keep + 1]
                       /\ Snaps' = SubSeq(Snaps, 1, (keep + 1) - 1)
  OBVIOUS
<1>0. n \in Nat /\ keep \in Nat /\ keep <= n
  BY RenameAssumption DEF RenameTypeOK
<1>1. SnapsAre /\ SnapsAre'
  BY SnapsFacts, SnapsFactsNext
<1>2. ASSUME NEW k \in 1 .. keep PROVE Snaps'[k] = Snaps[k]
  <2>1. k - 1 \in 0 .. keep /\ k \in 1 .. n /\ k \in 1 .. robCount'
    BY <1>0
  <2>2. Undo(k - 1)' = Undo(k - 1)
    BY <2>1, SquashUndo
  <2> QED BY <1>1, <2>1, <2>2 DEF SnapsAre
<1>3. Snaps' \in Seq(Maps) /\ Len(Snaps') = keep
  BY <1>1 DEF SnapsAre
<1>4. CASE keep = n
  <2>1. ASSUME NEW r \in ArchRegs PROVE Undo(keep)[r] = map[r]
    BY <1>0, <1>4, UndoFacts DEF UndoIs
  <2>2. map' = map
    BY <2>1 DEF Undo, RenameTypeOK
  <2>3. Snaps' = Snaps
    BY <1>1, <1>2, <1>3, <1>4, SeqEqual DEF SnapsAre
  <2> QED BY <2>2, <2>3
<1>5. CASE keep < n
  <2>1. keep + 1 \in 1 .. Len(Snaps) /\ map' = Snaps[keep + 1]
    BY <1>0, <1>1, <1>5 DEF SnapsAre
  <2>2. /\ SubSeq(Snaps, 1, keep) \in Seq(Maps)
        /\ Len(SubSeq(Snaps, 1, keep)) = keep
        /\ \A k \in 1 .. keep : SubSeq(Snaps, 1, keep)[k] = Snaps[k]
    <3>1. \A k \in 1 .. keep : Snaps[k] \in Maps
      BY <1>0, <1>1 DEF SnapsAre
    <3>2. /\ SubSeq(Snaps, 1, keep) \in Seq(Maps)
          /\ Len(SubSeq(Snaps, 1, keep)) = IF 1 <= keep THEN keep - 1 + 1 ELSE 0
          /\ \A k \in 1 .. keep - 1 + 1 :
               SubSeq(Snaps, 1, keep)[k] = Snaps[1 + k - 1]
      BY <1>0, <3>1, SubSeqProperties
    <3> QED BY <1>0, <3>2
  <2>3. Snaps' = SubSeq(Snaps, 1, keep)
    BY <1>2, <1>3, <2>2, SeqEqual
  <2>4. (keep + 1) - 1 = keep
    BY <1>0
  <2> QED BY <2>1, <2>3, <2>4
<1> QED BY <1>0, <1>4, <1>5

LEMMA RefinesStep ==
  RenameInv /\ RenameInv' /\ [RenameNext]_renameVars
    => [CheckpointOf!CNext]_(CheckpointOf!cvars)
<1> SUFFICES ASSUME RenameInv, RenameInv', [RenameNext]_renameVars
             PROVE  [CheckpointOf!CNext]_(CheckpointOf!cvars)
  OBVIOUS
<1>0. RenameTypeOK /\ RenameTypeOK'
  BY DEF RenameInv
<1>1. ASSUME NEW rd \in ArchRegs \cup {NoReg}, RenameDispatch(rd)
      PROVE  CheckpointOf!CNext
  <2>1. PICK p \in (IF HasDest(rd) THEN freeList ELSE {NoReg}) : Alloc(rd, p)
    BY <1>1 DEF RenameDispatch
  <2>2. robCount < RobSize
    BY <1>1 DEF RenameDispatch
  <2>3. p = NoReg <=> ~HasDest(rd)
    BY RenameAssumption, <1>0, <2>1 DEF RenameTypeOK, Pregs, NoReg
  <2>4. Snaps' = Append(Snaps, map)
    BY <1>0, <2>1, <2>2, <2>3, SnapsAlloc DEF HasDest
  <2>5. CASE HasDest(rd)
    <3>1. rd \in 1 .. NArch - 1
      BY RenameAssumption, <2>5 DEF HasDest, ArchRegs
    <3>2. p \in freeList /\ p \in 0 .. PhysRegs - 1 /\ map' = [map EXCEPT ![rd] = p]
      BY <1>0, <2>1, <2>5 DEF Alloc, RenameTypeOK, Pregs
    <3>3. ~CheckpointOf!Named(p)
      BY <3>2, FreeNotNamed
    <3> QED BY <2>4, <3>1, <3>2, <3>3
            DEF CheckpointOf!CNext, CheckpointOf!Rename, Snaps
  <2>6. CASE ~HasDest(rd)
    <3>1. map' = map
      BY <2>1, <2>6 DEF Alloc
    <3> QED BY <2>4, <3>1 DEF CheckpointOf!CNext, CheckpointOf!Keep, Snaps
  <2> QED BY <2>5, <2>6
<1>2. CASE RenameCommit
  <2>1. Snaps # <<>> /\ Snaps' = Tail(Snaps) /\ map' = map
    BY <1>0, <1>2, SnapsCommit DEF RenameCommit
  <2> QED BY <2>1 DEF CheckpointOf!CNext, CheckpointOf!Retire, Snaps
<1>3. ASSUME NEW seq, RenameRecover(seq)
      PROVE  CheckpointOf!CNext \/ UNCHANGED CheckpointOf!cvars
  <2>1. PICK keep \in 0 .. robCount :
          map' = Undo(keep) /\ robCount' = keep /\ UNCHANGED <<rob, robHead>>
    BY <1>3 DEF RenameRecover
  <2>2. CASE map' = map /\ Snaps' = Snaps
    BY <2>2 DEF CheckpointOf!cvars, Snaps
  <2>3. CASE /\ keep + 1 \in 1 .. Len(Snaps)
             /\ map' = Snaps[keep + 1]
             /\ Snaps' = SubSeq(Snaps, 1, (keep + 1) - 1)
    <3>1. CheckpointOf!Squash(keep + 1)
      BY <2>3 DEF CheckpointOf!Squash, Snaps
    <3> QED BY <2>3, <3>1 DEF CheckpointOf!CNext, Snaps
  <2> QED BY <1>0, <2>1, <2>2, <2>3, SnapsSquash
<1>4. CASE UNCHANGED renameVars
  <2>1. map' = map /\ Snaps' = Snaps
    BY <1>4 DEF renameVars, Snaps, Undo, OldestWriter, Writes, Nth
  <2> QED BY <2>1 DEF CheckpointOf!cvars, Snaps
<1> QED
  BY <1>1, <1>2, <1>3, <1>4 DEF RenameNext, RenameMispredict, RenameReplay

LEMMA RefinesInit == RenameInit => CheckpointOf!CInit
BY DEF RenameInit, CheckpointOf!CInit, ArchRegs

(* The free list and the undo walk of the code give every instruction and  *)
(* every squash exactly the map a full checkpoint per instruction would.   *)
THEOREM UndoIsCheckpoint == RenameSpec => RefinesCheckpoints
<1>1. RenameSpec => []RenameInv
  BY Invariant
<1> QED
  BY <1>1, RefinesInit, RefinesStep, PTL
     DEF RenameSpec, RefinesCheckpoints, CheckpointOf!CSpec
-----------------------------------------------------------------------------
(* The slots of the live entries, and the rename map just before the entry *)
(* in a slot was dispatched.                                               *)
LiveSlots == {Slot(k) : k \in Ages}
Before(s) == Undo(CHOOSE k \in Ages : Slot(k) = s)

(* Ages and slots correspond one to one.                                   *)
SlotsAre ==
  /\ robCount \in Nat
  /\ \A k \in Ages : /\ Slot(k) \in Slots
                     /\ Nth(k) = rob[Slot(k)]
                     /\ Before(Slot(k)) = Undo(k)
  /\ \A j, k \in Ages : Slot(j) = Slot(k) => j = k
  /\ Slot(0) = robHead
  /\ LiveSlots \subseteq Slots

LEMMA SlotFacts == RenameTypeOK => SlotsAre
<1> SUFFICES ASSUME RenameTypeOK PROVE SlotsAre
  OBVIOUS
<1> USE RenameAssumption DEF RenameTypeOK, Slots
<1>1. robCount \in Nat
  OBVIOUS
<1>2. \A k \in Ages : Slot(k) \in Slots /\ Nth(k) = rob[Slot(k)]
  BY IndexInRange DEF Ages, Slot, Nth
<1>3. \A j, k \in Ages : Slot(j) = Slot(k) => j = k
  BY IndexInjective DEF Ages, Slot
<1>4. \A k \in Ages : Before(Slot(k)) = Undo(k)
  <2>1. ASSUME NEW k \in Ages PROVE (CHOOSE j \in Ages : Slot(j) = Slot(k)) = k
    BY <1>3
  <2> QED BY <2>1 DEF Before
<1>5. Slot(0) = robHead
  BY DEF Slot, IndexOf
<1> QED BY <1>1, <1>2, <1>3, <1>4, <1>5 DEF SlotsAre, LiveSlots

LEMMA SlotFactsNext == RenameTypeOK' => SlotsAre'
BY SlotFacts, PTL

(* Program order is the order of sequence numbers.                         *)
SeqOrder ==
  \A k \in Ages : /\ Nth(k).seq < seqCtr
                  /\ \A j \in 0 .. k - 1 : Nth(j).seq < Nth(k).seq

(* The same by slot: a sequence number names one entry, and the head is    *)
(* the oldest.                                                             *)
LEMMA SeqBySlot ==
  ASSUME RenameTypeOK, SeqOrder
  PROVE  /\ \A s \in LiveSlots : rob[s].seq \in Nat /\ rob[s].seq < seqCtr
         /\ \A s, t \in LiveSlots : rob[s].seq = rob[t].seq => s = t
         /\ robCount > 0 => robHead \in LiveSlots
         /\ \A s \in LiveSlots : s # robHead => rob[robHead].seq < rob[s].seq
<1>1. SlotsAre
  BY SlotFacts
<1>2. \A k \in Ages : Nth(k).seq \in Nat
  BY NthType DEF Ages
<1>3. \A s \in LiveSlots : rob[s].seq \in Nat /\ rob[s].seq < seqCtr
  BY <1>1, <1>2 DEF LiveSlots, SlotsAre, SeqOrder
<1>4. \A j, k \in Ages : Nth(j).seq = Nth(k).seq => j = k
  <2>1. ASSUME NEW j \in Ages, NEW k \in Ages, j < k PROVE Nth(j).seq < Nth(k).seq
    BY <1>1, <2>1 DEF SlotsAre, SeqOrder, Ages
  <2> QED BY <1>1, <1>2, <2>1 DEF SlotsAre, Ages
<1>5. \A s, t \in LiveSlots : rob[s].seq = rob[t].seq => s = t
  BY <1>1, <1>4 DEF LiveSlots, SlotsAre
<1>6. robCount > 0 => 0 \in Ages
  BY <1>1 DEF SlotsAre, Ages
<1>7. robCount > 0 => robHead \in LiveSlots
  BY <1>1, <1>6 DEF SlotsAre, LiveSlots
<1>8. ASSUME NEW s \in LiveSlots, s # robHead PROVE rob[robHead].seq < rob[s].seq
  <2>1. PICK k \in Ages : s = Slot(k)
    BY DEF LiveSlots
  <2>2. k # 0 /\ 0 \in 0 .. k - 1 /\ 0 \in Ages
    BY <1>1, <1>8, <2>1 DEF SlotsAre, Ages
  <2>3. Nth(0).seq < Nth(k).seq
    BY <2>2 DEF SeqOrder
  <2> QED BY <1>1, <2>1, <2>2, <2>3 DEF SlotsAre
<1> QED BY <1>3, <1>5, <1>7, <1>8
-----------------------------------------------------------------------------
(* Registers named by entries. *)

Named == Mapped \cup Displaced

(* What an instruction's sources can name is not free.                     *)
LEMMA BeforeNamed ==
  ASSUME RenameInv, NEW s \in LiveSlots, NEW r \in ArchRegs
  PROVE  Before(s)[r] \in Named /\ Before(s)[r] \in Pregs
<1>1. SlotsAre
  BY SlotFacts DEF RenameInv
<1>2. PICK k \in Ages : s = Slot(k)
  BY DEF LiveSlots
<1>3. Before(s) = Undo(k)
  BY <1>1, <1>2 DEF SlotsAre
<1>4. k \in 0 .. robCount
  BY <1>1 DEF SlotsAre, Ages
<1>5. Undo(k)[r] \in Pregs
  BY <1>4, UndoType DEF RenameInv
<1>6. CASE \A j \in k .. robCount - 1 : ~Writes(j, r)
  <2>1. Undo(k)[r] = map[r]
    BY <1>4, <1>6, UndoFacts DEF UndoIs, RenameInv
  <2>2. map[r] \in Mapped
    BY DEF Mapped
  <2> QED BY <1>3, <1>5, <2>1, <2>2 DEF Named
<1>7. CASE \E j \in k .. robCount - 1 : Writes(j, r)
  <2>1. PICK j \in k .. robCount - 1 :
          Writes(j, r) /\ Undo(k)[r] = Nth(j).prevPhys
    BY <1>4, <1>7, UndoFacts DEF UndoIs, RenameInv
  <2>2. Nth(j).prevPhys \in Displaced
    BY <1>1, <1>4, <2>1 DEF SlotsAre, Displaced, WritersFrom, Writes
  <2> QED BY <1>3, <1>5, <2>1, <2>2 DEF Named
<1> QED BY <1>6, <1>7

(* The register an entry allocated is the current mapping, or a younger    *)
(* entry has displaced it.                                                 *)
LEMMA PdstNamed ==
  ASSUME RenameInv, NEW k \in Ages, Nth(k).pdst # NoReg
  PROVE  \/ /\ \A i \in k + 1 .. robCount - 1 : ~Writes(i, Nth(k).rd)
            /\ Nth(k).rd \in ArchRegs
            /\ map[Nth(k).rd] = Nth(k).pdst
         \/ \E j \in k + 1 .. robCount - 1 :
              /\ Writes(j, Nth(k).rd)
              /\ \A i \in k + 1 .. j - 1 : ~Writes(i, Nth(k).rd)
              /\ Nth(j).prevPhys = Nth(k).pdst
<1> DEFINE r == Nth(k).rd
<1>0. k \in 0 .. robCount /\ k \in 0 .. robCount - 1 /\ robCount \in Nat
  BY RenameAssumption DEF RenameInv, RenameTypeOK, Ages
<1>1. r \in ArchRegs /\ Writes(k, r)
  BY <1>0, NthType DEF RenameInv, Writes
<1>2. CASE \A i \in k + 1 .. robCount - 1 : ~Writes(i, r)
  BY <1>0, <1>1, <1>2 DEF RenameInv, MappingChain
<1>3. CASE \E i \in k + 1 .. robCount - 1 : Writes(i, r)
  <2>0. k + 1 \in 0 .. robCount
    BY <1>0
  <2>1. PICK j \in k + 1 .. robCount - 1 :
          Writes(j, r) /\ \A i \in k + 1 .. j - 1 : ~Writes(i, r)
    BY <1>1, <1>3, <2>0, UndoFacts DEF UndoIs, RenameInv
  <2>2. Nth(j).prevPhys = Nth(k).pdst
    BY <1>0, <1>1, <2>1 DEF RenameInv, MappingChain
  <2> QED BY <2>1, <2>2
<1> QED BY <1>2, <1>3

(* Live entries have registers of their own, all in use.                   *)
LEMMA PdstFacts ==
  ASSUME RenameInv
  PROVE  /\ \A s \in LiveSlots : rob[s].pdst # NoReg =>
              rob[s].pdst \in Named /\ rob[s].pdst \in Pregs
         /\ \A s, t \in LiveSlots :
              rob[s].pdst # NoReg /\ rob[s].pdst = rob[t].pdst => s = t
<1>0. SlotsAre /\ robCount \in Nat
  BY SlotFacts DEF RenameInv, SlotsAre
<1>1. ASSUME NEW k \in Ages, Nth(k).pdst # NoReg
      PROVE  Nth(k).pdst \in Named /\ Nth(k).pdst \in Pregs
  <2>1. Nth(k).pdst \in Pregs
    BY <1>1, NthType DEF RenameInv, Ages
  <2>2. CASE Nth(k).rd \in ArchRegs /\ map[Nth(k).rd] = Nth(k).pdst
    <3>1. map[Nth(k).rd] \in Mapped
      BY <2>2 DEF Mapped
    <3> QED BY <2>1, <2>2, <3>1 DEF Named
  <2>3. CASE \E j \in k + 1 .. robCount - 1 :
               Writes(j, Nth(k).rd) /\ Nth(j).prevPhys = Nth(k).pdst
    <3>1. PICK j \in k + 1 .. robCount - 1 :
               Writes(j, Nth(k).rd) /\ Nth(j).prevPhys = Nth(k).pdst
      BY <2>3
    <3>2. j \in WritersFrom(0)
      BY <1>0, <3>1 DEF WritersFrom, Writes, Ages
    <3> QED BY <2>1, <3>1, <3>2 DEF Named, Displaced
  <2> QED BY <1>1, <2>1, <2>2, <2>3, PdstNamed
<1>2. ASSUME NEW j \in Ages, NEW k \in Ages, Nth(j).pdst # NoReg,
             Nth(j).pdst = Nth(k).pdst
      PROVE  ~(j < k)
  <2> SUFFICES ASSUME j < k PROVE FALSE
    OBVIOUS
  <2> DEFINE r == Nth(j).rd
             u == Nth(k).rd
  <2>0. j \in Nat /\ k \in Nat /\ k \in j + 1 .. robCount - 1
    BY <1>0 DEF Ages
  <2>1. Writes(j, r) /\ Writes(k, u)
    BY <1>2 DEF Writes
  <2>2. CASE map[r] = Nth(j).pdst /\ r \in ArchRegs /\
             \A i \in j + 1 .. robCount - 1 : ~Writes(i, r)
    <3>1. CASE map[u] = Nth(k).pdst /\ u \in ArchRegs
      <4>1. r = u
        BY <1>2, <2>2, <3>1 DEF RenameInv, NamedOnce
      <4> QED BY <2>0, <2>1, <2>2, <4>1
    <3>2. CASE \E m \in k + 1 .. robCount - 1 :
                 Writes(m, u) /\ Nth(m).prevPhys = Nth(k).pdst
      <4>1. PICK m \in k + 1 .. robCount - 1 :
                 Writes(m, u) /\ Nth(m).prevPhys = Nth(k).pdst
        BY <3>2
      <4>2. m \in WritersFrom(0)
        BY <2>0, <4>1 DEF WritersFrom, Writes
      <4>3. Nth(m).prevPhys \in Mapped
        BY <1>2, <2>2, <4>1 DEF Mapped
      <4> QED BY <4>2, <4>3 DEF RenameInv, NamedOnce
    <3> QED BY <1>2, <3>1, <3>2, PdstNamed
  <2>3. CASE \E m \in j + 1 .. robCount - 1 :
               /\ Writes(m, r)
               /\ \A i \in j + 1 .. m - 1 : ~Writes(i, r)
               /\ Nth(m).prevPhys = Nth(j).pdst
    <3>1. PICK m \in j + 1 .. robCount - 1 :
               /\ Writes(m, r)
               /\ \A i \in j + 1 .. m - 1 : ~Writes(i, r)
               /\ Nth(m).prevPhys = Nth(j).pdst
      BY <2>3
    <3>2. m \in WritersFrom(0)
      BY <2>0, <3>1 DEF WritersFrom, Writes
    <3>3. CASE map[u] = Nth(k).pdst /\ u \in ArchRegs
      <4>1. Nth(m).prevPhys \in Mapped
        BY <1>2, <3>1, <3>3 DEF Mapped
      <4> QED BY <3>2, <4>1 DEF RenameInv, NamedOnce
    <3>4. CASE \E i \in k + 1 .. robCount - 1 :
                 Writes(i, u) /\ Nth(i).prevPhys = Nth(k).pdst
      <4>1. PICK i \in k + 1 .. robCount - 1 :
                 Writes(i, u) /\ Nth(i).prevPhys = Nth(k).pdst
        BY <3>4
      <4>2. i \in WritersFrom(0)
        BY <2>0, <4>1 DEF WritersFrom, Writes
      <4>3. i = m
        BY <1>2, <3>1, <3>2, <4>1, <4>2 DEF RenameInv, NamedOnce
      <4>4. u = r
        BY <3>1, <4>1, <4>3 DEF Writes
      <4>5. k \in j + 1 .. m - 1
        BY <2>0, <4>3
      <4> QED BY <2>1, <3>1, <4>4, <4>5
    <3> QED BY <1>2, <3>3, <3>4, PdstNamed
  <2> QED BY <1>2, <2>2, <2>3, PdstNamed
<1>3. \A j, k \in Ages : Nth(j).pdst # NoReg /\ Nth(j).pdst = Nth(k).pdst => j = k
  BY <1>0, <1>2 DEF Ages
<1> QED BY <1>0, <1>1, <1>3 DEF SlotsAre, LiveSlots
-----------------------------------------------------------------------------
(* What each kind of step does to the live entries. *)

(* The entries that stay keep their contents and their map.                *)
Kept == \A s \in LiveSlots \cap LiveSlots' :
          rob'[s] = rob[s] /\ Before(s)' = Before(s)

(* A dispatch adds one entry, younger than all others.                     *)
LEMMA Grow ==
  ASSUME RenameInv, RenameInv', SeqOrder,
         NEW rd \in ArchRegs \cup {NoReg}, RenameDispatch(rd),
         NEW n, n = robCount, NEW new, new = Slot(n)
  PROVE  /\ new \in Slots \ LiveSlots /\ LiveSlots' = LiveSlots \cup {new}
         /\ robCount' = robCount + 1 /\ \A k : Slot(k)' = Slot(k)
         /\ Kept /\ Before(new)' = map
         /\ rob'[new].seq = seqCtr
         /\ HasDest(rd) => /\ rob'[new].pdst = map'[rd] /\ rob'[new].rd = rd
                           /\ map'[rd] \in freeList
                           /\ freeList' = freeList \ {map'[rd]}
         /\ ~HasDest(rd) => rob'[new].pdst = NoReg /\ freeList' = freeList
         /\ SeqOrder'
<1>0. SlotsAre /\ SlotsAre' /\ n \in Nat /\ RenameTypeOK /\ RenameTypeOK'
  BY SlotFacts, SlotFactsNext DEF RenameInv, SlotsAre
<1>1. PICK p \in (IF HasDest(rd) THEN freeList ELSE {NoReg}) : Alloc(rd, p)
  BY DEF RenameDispatch
<1>2. n < RobSize /\ robCount' = n + 1 /\ robHead' = robHead
      /\ seqCtr' = seqCtr + 1
  BY <1>1 DEF RenameDispatch, Alloc
<1>3. \A k : Slot(k)' = Slot(k)
  BY <1>2 DEF Slot
<1>4. Ages' = Ages \cup {n}
  BY <1>0, <1>2 DEF Ages
<1>5. LiveSlots' = LiveSlots \cup {new}
  BY <1>3, <1>4 DEF LiveSlots
<1>6. new \in Slots /\ new \notin LiveSlots
  <2>1. n \in Ages' /\ \A k \in Ages : k \in Ages' /\ k # n
    BY <1>0, <1>4 DEF Ages
  <2>2. new \in Slots /\ \A k \in Ages : Slot(k) # new
    BY <1>0, <1>3, <2>1 DEF SlotsAre
  <2> QED BY <2>2 DEF LiveSlots
<1>7. /\ HasDest(rd) => /\ rd \in ArchRegs /\ p \in freeList
                         /\ p \in Pregs /\ p # NoReg
      /\ ~HasDest(rd) => p = NoReg
  <2>1. ~HasDest(rd) => p = NoReg
    BY <1>1
  <2>2. ASSUME HasDest(rd)
        PROVE  rd \in ArchRegs /\ p \in freeList /\ p \in Pregs
    BY <1>0, <1>1, <2>2 DEF HasDest, RenameTypeOK
  <2>3. \A x \in Pregs : x # NoReg
    BY RenameAssumption DEF Pregs, NoReg
  <2> QED BY <2>1, <2>2, <2>3
<1>8. /\ \A k \in 0 .. n - 1 : Nth(k)' = Nth(k)
      /\ Nth(n)' = [seq |-> seqCtr, rd |-> rd, pdst |-> p,
                           prevPhys |-> IF HasDest(rd) THEN map[rd] ELSE NoReg]
  BY <1>0, <1>1, <1>2, AllocNth
<1>9. rob'[new] = Nth(n)'
  BY <1>0, <1>3, <1>4 DEF SlotsAre
<1>10. \A k \in 0 .. n : Undo(k)' = Undo(k)
  <2>1. p = NoReg <=> ~HasDest(rd)
    BY <1>1, <1>7 DEF HasDest
  <2> QED BY <1>0, <1>1, <1>2, <1>7, <2>1, AllocUndo DEF HasDest
<1>11. Kept
  <2>1. ASSUME NEW s \in LiveSlots
        PROVE  rob'[s] = rob[s] /\ Before(s)' = Before(s)
    <3>1. PICK k \in Ages : s = Slot(k)
      BY DEF LiveSlots
    <3>2. k \in 0 .. n - 1 /\ k \in 0 .. n /\ k \in Ages'
      BY <1>0, <1>4 DEF Ages
    <3>3. Nth(k) = rob[s] /\ Before(s) = Undo(k)
      BY <1>0, <3>1 DEF SlotsAre
    <3>4. Nth(k)' = rob'[s] /\ Before(s)' = Undo(k)'
      BY <1>0, <1>3, <3>1, <3>2 DEF SlotsAre
    <3> QED BY <1>8, <1>10, <3>2, <3>3, <3>4
  <2> QED BY <2>1 DEF Kept
<1>12. Before(new)' = map
  <2>1. Before(new)' = Undo(n)'
    BY <1>0, <1>3, <1>4 DEF SlotsAre
  <2>2. Undo(n) = map
    <3>1. ASSUME NEW r \in ArchRegs PROVE Undo(n)[r] = map[r]
      BY <1>0, UndoFacts DEF UndoIs
    <3> QED BY <1>0, <3>1 DEF Undo, RenameTypeOK
  <2> QED BY <1>0, <1>10, <2>1, <2>2
<1>13. HasDest(rd) => /\ rob'[new].pdst = map'[rd] /\ rob'[new].rd = rd
                      /\ map'[rd] \in freeList
                      /\ freeList' = freeList \ {map'[rd]}
  <2> SUFFICES ASSUME HasDest(rd) PROVE /\ rob'[new].pdst = map'[rd]
                      /\ rob'[new].rd = rd
                      /\ map'[rd] \in freeList
                      /\ freeList' = freeList \ {map'[rd]}
    OBVIOUS
  <2>1. map'[rd] = p
    BY <1>0, <1>1, <1>7 DEF Alloc, RenameTypeOK
  <2> QED BY <1>1, <1>7, <1>8, <1>9, <2>1 DEF Alloc
<1>14. ~HasDest(rd) => rob'[new].pdst = NoReg /\ freeList' = freeList
  <2>1. NoReg \notin freeList
    BY <1>0, RenameAssumption DEF RenameTypeOK, Pregs, NoReg
  <2> QED BY <1>1, <1>7, <1>8, <1>9, <2>1 DEF Alloc
<1>15. SeqOrder'
  <2> SUFFICES ASSUME NEW k \in Ages'
               PROVE  /\ Nth(k)'.seq < seqCtr'
                      /\ \A j \in 0 .. k - 1 : Nth(j)'.seq < Nth(k)'.seq
    BY DEF SeqOrder
  <2>0. seqCtr \in Nat /\ \A j \in 0 .. n - 1 : Nth(j).seq \in Nat
    BY <1>0, NthType DEF RenameTypeOK
  <2>1. CASE k \in Ages
    <3>1. \A j \in 0 .. k : j \in 0 .. n - 1
      BY <1>0, <2>1 DEF Ages
    <3>2. k \in 0 .. k /\ \A j \in 0 .. k - 1 : j \in 0 .. k
      BY <1>0, <2>1 DEF Ages
    <3> QED BY <1>2, <1>8, <2>0, <2>1, <3>1, <3>2 DEF SeqOrder
  <2>2. CASE k = n
    <3>1. Nth(k)'.seq = seqCtr
      BY <1>8, <2>2
    <3>2. \A j \in 0 .. k - 1 : Nth(j)'.seq < seqCtr
      BY <1>8, <2>2 DEF SeqOrder, Ages
    <3> QED BY <1>2, <2>0, <3>1, <3>2
  <2> QED BY <1>4, <2>1, <2>2
<1> QED BY <1>2, <1>3, <1>5, <1>6, <1>8, <1>9, <1>11, <1>12, <1>13, <1>14, <1>15

(* A commit takes the oldest entry away.                                   *)
LEMMA Retire ==
  ASSUME RenameInv, RenameInv', SeqOrder, RenameCommit
  PROVE  /\ robHead \in LiveSlots /\ LiveSlots' = LiveSlots \ {robHead}
         /\ robCount > 0 /\ robCount' = robCount - 1
         /\ \A k \in 0 .. robCount - 1 : Slot(k)' = Slot(k + 1)
         /\ Kept
         /\ freeList \subseteq freeList'
         /\ SeqOrder'
<1>0. SlotsAre /\ SlotsAre' /\ robCount \in Nat /\ RenameTypeOK /\ RenameTypeOK'
  BY SlotFacts, SlotFactsNext DEF RenameInv, SlotsAre
<1>1. robCount > 0 /\ robCount' = robCount - 1 /\ rob' = rob
      /\ freeList \subseteq freeList' /\ seqCtr' = seqCtr
  BY DEF RenameCommit
<1>2. \A k \in 0 .. robCount - 1 : Slot(k)' = Slot(k + 1)
  <2>1. ASSUME NEW k \in 0 .. robCount - 1 PROVE Slot(k)' = Slot(k + 1)
    <3>1. IndexOf(RobSize, robHead', k) = IndexOf(RobSize, robHead, k + 1)
      BY <1>0, RenameAssumption, IndexShift DEF RenameTypeOK, Slots, RenameCommit
    <3> QED BY <3>1 DEF Slot
  <2> QED BY <2>1
<1>3. LiveSlots' \subseteq LiveSlots \ {robHead}
  <2>1. ASSUME NEW k \in Ages' PROVE Slot(k)' \in LiveSlots \ {robHead}
    <3>1. k + 1 \in Ages /\ 0 \in Ages /\ k + 1 # 0 /\ k \in 0 .. robCount - 1
      BY <1>0, <1>1 DEF Ages
    <3>2. Slot(k + 1) # Slot(0)
      BY <1>0, <3>1 DEF SlotsAre
    <3> QED BY <1>0, <1>2, <3>1, <3>2 DEF SlotsAre, LiveSlots
  <2> QED BY <2>1 DEF LiveSlots
<1>4. LiveSlots \ {robHead} \subseteq LiveSlots'
  <2>1. ASSUME NEW k \in Ages, Slot(k) # robHead PROVE Slot(k) \in LiveSlots'
    <3>1. k # 0
      BY <1>0, <2>1 DEF SlotsAre
    <3>2. k - 1 \in Ages' /\ k - 1 \in 0 .. robCount - 1 /\ (k - 1) + 1 = k
      BY <1>0, <1>1, <3>1 DEF Ages
    <3>3. Slot(k - 1)' = Slot(k)
      BY <1>2, <3>2
    <3> QED BY <3>2, <3>3 DEF LiveSlots
  <2> QED BY <2>1 DEF LiveSlots
<1>5. Kept
  <2>1. ASSUME NEW s \in LiveSlots'
        PROVE  rob'[s] = rob[s] /\ Before(s)' = Before(s)
    <3>1. PICK k \in Ages' : s = Slot(k)'
      BY DEF LiveSlots
    <3>2. k + 1 \in Ages /\ k \in 0 .. robCount - 1 /\ k \in 0 .. robCount - 2
      BY <1>0, <1>1 DEF Ages
    <3>3. s = Slot(k + 1)
      BY <1>2, <3>1, <3>2
    <3>4. Before(s) = Undo(k + 1)
      BY <1>0, <3>2, <3>3 DEF SlotsAre
    <3>5. Before(s)' = Undo(k)'
      BY <1>0, <3>1 DEF SlotsAre
    <3>6. Undo(k)' = Undo(k + 1)
      BY <1>0, <3>2, CommitUndo
    <3> QED BY <1>1, <3>4, <3>5, <3>6
  <2> QED BY <2>1 DEF Kept
<1>6. SeqOrder'
  <2> SUFFICES ASSUME NEW k \in Ages'
               PROVE  /\ Nth(k)'.seq < seqCtr'
                      /\ \A j \in 0 .. k - 1 : Nth(j)'.seq < Nth(k)'.seq
    BY DEF SeqOrder
  <2>1. \A j \in 0 .. robCount - 2 : Nth(j)' = Nth(j + 1)
    BY <1>0, CommitNth
  <2>2. k \in 0 .. robCount - 2 /\ k + 1 \in Ages
        /\ \A j \in 0 .. k - 1 : j + 1 \in 0 .. (k + 1) - 1 /\ j \in 0 .. robCount - 2
    BY <1>0, <1>1 DEF Ages
  <2> QED BY <1>1, <2>1, <2>2 DEF SeqOrder
<1>7. robHead \in LiveSlots
  BY <1>0, <1>1, SeqBySlot
<1> QED BY <1>1, <1>2, <1>3, <1>4, <1>5, <1>6, <1>7

(* A squash takes away everything younger than seq.                        *)
LEMMA Cut ==
  ASSUME RenameInv, RenameInv', SeqOrder, NEW seq \in Int, RenameRecover(seq)
  PROVE  /\ LiveSlots' = {s \in LiveSlots : rob[s].seq <= seq}
         /\ robCount' <= robCount /\ robHead' = robHead
         /\ \A k : Slot(k)' = Slot(k)
         /\ Kept
         /\ freeList \subseteq freeList'
         /\ \A s \in LiveSlots \ LiveSlots' :
              rob[s].pdst # NoReg => rob[s].pdst \in freeList'
         /\ SeqOrder'
<1>0. SlotsAre /\ SlotsAre' /\ robCount \in Nat /\ RenameTypeOK /\ RenameTypeOK'
  BY SlotFacts, SlotFactsNext DEF RenameInv, SlotsAre
<1>1. PICK keep \in 0 .. robCount :
        /\ Survivors(seq, keep)
        /\ map' = Undo(keep)
        /\ freeList' = freeList \cup FreedBySquash(keep)
        /\ robCount' = keep
        /\ UNCHANGED <<rob, robHead, seqCtr>>
  BY DEF RenameRecover
<1>2. \A k : Slot(k)' = Slot(k) /\ Nth(k)' = Nth(k)
  BY <1>1 DEF Slot, Nth
<1>3. Ages' = 0 .. keep - 1 /\ Ages' \subseteq Ages /\ keep \in Nat
  BY <1>0, <1>1 DEF Ages
<1>4. ASSUME NEW k \in Ages PROVE k \in Ages' <=> Nth(k).seq <= seq
  <2>0. Nth(k).seq \in Nat
    BY <1>0, NthType DEF Ages
  <2>1. CASE k \in Ages'
    <3>1. keep - 1 \in 0 .. robCount - 1 /\ keep > 0
      BY <1>0, <1>1, <1>3, <2>1
    <3>2. Nth(keep - 1).seq <= seq /\ Nth(keep - 1).seq \in Nat
      BY <1>0, <1>1, <3>1, NthType DEF Survivors
    <3>3. k = keep - 1 \/ Nth(k).seq < Nth(keep - 1).seq
      <4>1. k = keep - 1 \/ k \in 0 .. (keep - 1) - 1
        BY <1>0, <1>3, <2>1
      <4> QED BY <3>1, <4>1 DEF SeqOrder, Ages
    <3> QED BY <2>0, <2>1, <3>2, <3>3
  <2>2. CASE k \notin Ages'
    <3>1. k \in keep .. robCount - 1
      BY <1>0, <1>1, <2>2 DEF Ages
    <3>2. Nth(k).seq > seq
      BY <1>1, <3>1 DEF Survivors
    <3> QED BY <2>0, <2>2, <3>2
  <2> QED BY <2>1, <2>2
<1>5. LiveSlots' = {s \in LiveSlots : rob[s].seq <= seq}
  <2>1. LiveSlots' = {Slot(k) : k \in Ages'}
    BY <1>2 DEF LiveSlots
  <2>2. \A k \in Ages : Nth(k) = rob[Slot(k)]
    BY <1>0 DEF SlotsAre
  <2> QED BY <1>3, <1>4, <2>1, <2>2 DEF LiveSlots
<1>6. Kept
  <2>1. ASSUME NEW s \in LiveSlots'
        PROVE  rob'[s] = rob[s] /\ Before(s)' = Before(s)
    <3>1. PICK k \in Ages' : s = Slot(k)
      BY <1>2 DEF LiveSlots
    <3>2. Before(s) = Undo(k) /\ Before(s)' = Undo(k)'
      BY <1>0, <1>2, <1>3, <3>1 DEF SlotsAre
    <3>3. k \in 0 .. keep
      BY <1>3
    <3>4. Undo(k)' = Undo(k)
      BY <1>0, <1>1, <3>3, SquashUndo
    <3> QED BY <1>1, <3>2, <3>4
  <2> QED BY <2>1 DEF Kept
<1>7. ASSUME NEW s \in LiveSlots \ LiveSlots', rob[s].pdst # NoReg
      PROVE  rob[s].pdst \in freeList'
  <2>1. PICK k \in Ages : s = Slot(k)
    BY DEF LiveSlots
  <2>2. k \notin Ages'
    BY <1>2, <1>7, <2>1 DEF LiveSlots
  <2>3. k \in WritersFrom(keep) /\ Nth(k) = rob[s]
    BY <1>0, <1>3, <1>7, <2>1, <2>2 DEF SlotsAre, WritersFrom, Ages
  <2> QED BY <1>1, <2>3 DEF FreedBySquash
<1>8. SeqOrder'
  BY <1>1, <1>2, <1>3 DEF SeqOrder
<1> QED BY <1>1, <1>2, <1>5, <1>6, <1>7, <1>8
-----------------------------------------------------------------------------
(* The inductive invariant, in layers. *)

Outcomes == {x \in [taken : BOOLEAN, target : Int] : x.taken => x.target \in Pcs}

QueueEntry == [seq : Nat, slot : Slots, ps1 : Pregs, ps2 : Pregs,
               blocked1 : BOOLEAN, blocked2 : BOOLEAN]

LsqEntry == [preg : Pregs \cup {NoReg}, addrValid : BOOLEAN, addr : Values,
             dataReady : BOOLEAN, data : Values]

(* The shape of the state, and where instructions come from.  Nothing is   *)
(* fetched from behind the program: its last instruction ends it.          *)
Shape ==
  /\ code \in Programs /\ fpc \in 0 .. LastPc + 1
  /\ ins \in [Slots -> [pc : Pcs, I : Instructions, pred : [taken : BOOLEAN, target : Pcs]]]
  /\ done \in [Slots -> BOOLEAN]
  /\ lsq \in [Slots -> LsqEntry]
  /\ val \in [Pregs -> Values] /\ ready \in [Pregs -> BOOLEAN]
  /\ iq \subseteq QueueEntry
  /\ ops \subseteq [seq : Nat, slot : Slots, pdst : Pregs \cup {NoReg},
                    unit : {"unit", "agu", "load"}, value : Values, outcome : Outcomes]
  /\ IsFiniteSet(iq) /\ Cardinality(iq) <= IqSize
  /\ sb \in Seq([addr : Addrs, data : Values]) /\ Len(sb) <= SbSize
  /\ mem \in [Addrs -> Values]
  /\ ended \in {"no", "halted", "failed"}
  /\ \A s \in LiveSlots : ins[s].I = code[ins[s].pc]
  /\ fpc = LastPc + 1 => ended = "halted" \/ \E s \in LiveSlots : ins[s].I.op = "halt"

(* Not finished.  A store is finished with its address, and done when it   *)
(* also has its datum.                                                     *)
Busy(s) == IF IsStore(ins[s].I) THEN ~lsq[s].addrValid ELSE ~done[s]

(* Whatever waits or runs belongs to a live, busy entry, each of which is  *)
(* in one place.                                                           *)
Matched ==
  /\ \A q \in iq :
       /\ q.slot \in LiveSlots /\ q.seq = rob[q.slot].seq /\ Busy(q.slot)
       /\ IsLoad(ins[q.slot].I) => ~lsq[q.slot].addrValid
  /\ \A o \in ops :
       /\ o.slot \in LiveSlots /\ o.seq = rob[o.slot].seq /\ Busy(o.slot)
       /\ o.pdst = rob[o.slot].pdst
       /\ o.unit = "unit" <=> ~IsMem(ins[o.slot].I)
       /\ o.unit = "load" => IsLoad(ins[o.slot].I)
       /\ IsLoad(ins[o.slot].I) => (lsq[o.slot].addrValid <=> o.unit = "load")
  /\ \A q, x \in iq : q.slot = x.slot => q = x
  /\ \A o, x \in ops : o.slot = x.slot => o = x
  /\ \A q \in iq, o \in ops : q.slot # o.slot
  /\ \A s \in LiveSlots :
       Busy(s) => (\E q \in iq : q.slot = s) \/ (\E o \in ops : o.slot = s)

(* What done means, by kind of instruction.                                *)
DoneMeans ==
  \A s \in LiveSlots :
    /\ IsStore(ins[s].I) => (done[s] <=> lsq[s].addrValid /\ lsq[s].dataReady)
    /\ IsLoad(ins[s].I) /\ done[s] => lsq[s].addrValid
    /\ IsSystem(ins[s].I) => done[s]

(* A destination register goes with an instruction that writes one.        *)
Dests ==
  \A s \in LiveSlots :
    /\ rob[s].pdst # NoReg <=> WritesRd(ins[s].I) /\ ins[s].I.rd # 0
    /\ rob[s].pdst # NoReg => rob[s].rd = ins[s].I.rd

(* A system instruction runs alone.                                        *)
SystemsAlone ==
  \A s \in LiveSlots : IsSystem(ins[s].I) => sb = <<>> /\ \A t \in LiveSlots : t = s

(* A destination has its value when its entry is done; all other registers *)
(* in use have theirs.                                                     *)
ReadyIffDone ==
  /\ \A s \in LiveSlots : rob[s].pdst # NoReg => (ready[rob[s].pdst] <=> done[s])
  /\ \A p \in Pregs \ freeList : (\A s \in LiveSlots : rob[s].pdst # p) => ready[p]

(* A waiting entry watches the registers program order gives it.           *)
SourcesWatched ==
  \A q \in iq :
    /\ q.ps1 = Before(q.slot)[ins[q.slot].I.rs1]
    /\ q.ps2 = Before(q.slot)[ins[q.slot].I.rs2]
    /\ q.blocked1 <=> UsesRs1(ins[q.slot].I) /\ ~ready[q.ps1]
    /\ q.blocked2 <=> UsesRs2(ins[q.slot].I) /\ ~IsStore(ins[q.slot].I) /\ ~ready[q.ps2]

(* So does a store, for its datum.                                         *)
DataWatched ==
  \A s \in LiveSlots : IsStore(ins[s].I) =>
    /\ lsq[s].preg = Before(s)[ins[s].I.rs2]
    /\ lsq[s].dataReady => ready[lsq[s].preg] /\ lsq[s].data = val[lsq[s].preg]

BackInv ==
  /\ RenameInv /\ SeqOrder /\ Shape /\ Matched /\ DoneMeans /\ Dests
  /\ SystemsAlone /\ ReadyIffDone /\ SourcesWatched /\ DataWatched
-----------------------------------------------------------------------------
(* The steps, told by slot. *)

(* Nothing of the renaming state changes.                                  *)
LEMMA Still ==
  ASSUME UNCHANGED renameVars
  PROVE  /\ LiveSlots' = LiveSlots /\ Kept /\ Named' = Named
         /\ SeqOrder' = SeqOrder /\ RenameInv' = RenameInv
<1> USE DEF renameVars
<1>1. \A k : Slot(k)' = Slot(k) /\ Nth(k)' = Nth(k)
  BY DEF Slot, Nth
<1>2. Ages' = Ages
  BY DEF Ages
<1>3. LiveSlots' = LiveSlots
  BY <1>1, <1>2 DEF LiveSlots
<1>4. Kept
  BY DEF Kept, Before, Undo, OldestWriter, Writes, Nth, Ages, Slot
<1>5. WritersFrom(0)' = WritersFrom(0)
  BY <1>1 DEF WritersFrom
<1>6. Named' = Named
  BY <1>1, <1>5 DEF Named, Mapped, Displaced
<1>7. SeqOrder' = SeqOrder
  BY DEF SeqOrder, Nth, Ages
<1>8. RenameInv' = RenameInv
  BY DEF RenameInv, RenameTypeOK, FreeRegistersUnnamed, NoRegisterLeaks,
         NamedOnce, MappingChain, Mapped, Displaced, WritersFrom, Writes, Nth
<1> QED BY <1>3, <1>4, <1>6, <1>7, <1>8

(* Every step of the core is a step of renaming.                           *)
LEMMA RenameSteps ==
  ASSUME BackInv, [BackNext]_backVars
  PROVE  [RenameNext]_renameVars
<1> USE DEF BackInv
<1>1. CASE ended = "no" /\ Dispatch
  <2>1. fpc \in Pcs => code[fpc].rd \in ArchRegs
    BY BackendAssumption DEF Shape, Instructions
  <2>2. fpc \in Pcs
    <3>1. \A s \in LiveSlots : ~IsSystem(ins[s].I)
      BY <1>1 DEF Dispatch, MayDispatch, LiveSlots, Ins
    <3>2. fpc # LastPc + 1
      BY <1>1, <3>1 DEF Shape, IsSystem
    <3> QED BY <3>2, IsaAssumption DEF Shape, Pcs
  <2>3. \E rd \in ArchRegs \cup {NoReg} : RenameDispatch(rd)
    BY <1>1, <2>1, <2>2 DEF Dispatch
  <2> QED BY <2>3 DEF RenameNext
<1>2. CASE Writeback
  <2>1. PICK o \in ops : RenameRecover(o.seq) \/ UNCHANGED renameVars
    BY <1>2 DEF Writeback
  <2>2. PICK k \in Ages : o.slot = Slot(k)
    BY DEF Matched, LiveSlots
  <2>3. o.seq = Nth(k).seq
    BY <2>2 DEF Matched, Nth, Slot
  <2> QED BY <2>1, <2>2, <2>3 DEF RenameNext, RenameMispredict, Ages
<1>3. CASE ResolveStore
  <2>1. PICK k, a : \/ UNCHANGED renameVars
                     \/ /\ k \in Ages /\ Violated(k, a) # {}
                        /\ RenameRecover(Nth(Oldest(Violated(k, a))).seq - 1)
    BY <1>3 DEF ResolveStore
  <2>2. CASE k \in Ages /\ Violated(k, a) # {}
    <3>1. Violated(k, a) \subseteq 1 .. robCount - 1 /\ Violated(k, a) \subseteq Nat
      BY <2>2, RenameAssumption DEF Violated, Ages, RenameInv, RenameTypeOK
    <3>2. \E m \in Violated(k, a) : \A x \in Violated(k, a) : m <= x
      BY <2>2, <3>1, MinExists
    <3>3. Oldest(Violated(k, a)) \in Violated(k, a)
      BY <3>2 DEF Oldest
    <3> QED BY <2>1, <3>1, <3>3 DEF RenameNext, RenameReplay
  <2> QED BY <2>1, <2>2
<1>4. CASE CommitPlain \/ CommitSyscall \/ CommitShow \/ CommitHalt
  BY <1>4 DEF CommitPlain, CommitSyscall, CommitShow, CommitHalt, RenameNext
<1>5. CASE Issue \/ AccessLoad \/ CaptureStoreData \/ DrainStore \/ CommitFault
  BY <1>5 DEF Issue, AccessLoad, CaptureStoreData, DrainStore, CommitFault
<1>6. CASE UNCHANGED backVars
  BY <1>6 DEF backVars
<1> QED BY <1>1, <1>2, <1>3, <1>4, <1>5, <1>6 DEF BackNext, BackStep

LEMMA RenameInvNext ==
  ASSUME BackInv, [BackNext]_backVars
  PROVE  RenameInv'
BY RenameSteps, NextInv DEF BackInv

(* The live entries after a step that dispatches nothing.                  *)
Shrinks ==
  /\ LiveSlots' \subseteq LiveSlots /\ Kept
  /\ freeList \subseteq freeList'
  /\ SeqOrder'

(* A squash takes every entry younger than one it takes, and gives back    *)
(* the registers of all of them.                                           *)
Squashes ==
  /\ Shrinks
  /\ \A s \in LiveSlots', t \in LiveSlots :
       rob[t].seq <= rob[s].seq => t \in LiveSlots'
  /\ \A s \in LiveSlots \ LiveSlots' :
       rob[s].pdst # NoReg => rob[s].pdst \in freeList'

(* dispatchStage, by slot.                                                 *)
Admits(new, I, pred) ==
  /\ fpc \in Pcs /\ I = code[fpc] /\ I \in Instructions /\ pred \in Predictions(I)
  /\ MayDispatch(I)
  /\ new \in Slots \ LiveSlots /\ LiveSlots' = LiveSlots \cup {new}
  /\ Kept /\ Before(new)' = map
  /\ rob'[new].seq = seqCtr
  /\ IF WritesRd(I) /\ I.rd # 0
     THEN /\ rob'[new].rd = I.rd
          /\ rob'[new].pdst \in freeList
          /\ freeList' = freeList \ {rob'[new].pdst}
          /\ ready' = [ready EXCEPT ![rob'[new].pdst] = FALSE]
     ELSE rob'[new].pdst = NoReg /\ freeList' = freeList /\ ready' = ready
  /\ ins' = [ins EXCEPT ![new] = [pc |-> fpc, I |-> I, pred |-> pred]]
  /\ done' = [done EXCEPT ![new] = IsSystem(I)]
  /\ lsq' = [lsq EXCEPT ![new] = IF IsStore(I) THEN StoreSource(map[I.rs2]) ELSE NoLsq]
  /\ iq' = IF IsSystem(I) THEN iq
           ELSE iq \cup {[seq |-> seqCtr, slot |-> new, ps1 |-> map[I.rs1], ps2 |-> map[I.rs2],
                          blocked1 |-> UsesRs1(I) /\ ~ready[map[I.rs1]],
                          blocked2 |-> UsesRs2(I) /\ ~IsStore(I) /\ ~ready[map[I.rs2]]]}
  /\ fpc' = NextPc(fpc, pred)
  /\ SeqOrder'
  /\ UNCHANGED <<code, val, ops, memory, ended, rec>>

LEMMA DispatchAdmits ==
  ASSUME BackInv, RenameInv', ended = "no", Dispatch
  PROVE  \E new, I, pred : Admits(new, I, pred)
<1> DEFINE I == code[fpc]
           rd == IF WritesRd(I) THEN I.rd ELSE NoReg
<1> USE DEF BackInv
<1>1. \A s \in LiveSlots : ~IsSystem(ins[s].I)
  BY DEF Dispatch, MayDispatch, LiveSlots, Ins
<1>2. fpc \in Pcs
  <2>1. fpc # LastPc + 1
    BY <1>1 DEF Shape, IsSystem
  <2> QED BY <2>1, IsaAssumption DEF Shape, Pcs
<1>3. I \in Instructions
  BY <1>2, BackendAssumption DEF Shape
<1>4. PICK n : n = robCount
  OBVIOUS
<1>5. PICK new : new = Slot(n)
  OBVIOUS
<1>6. rd \in ArchRegs \cup {NoReg} /\ RenameDispatch(rd)
  BY <1>3 DEF Instructions, Dispatch
<1>7. HasDest(rd) <=> WritesRd(I) /\ I.rd # 0
  BY <1>3, RenameAssumption DEF HasDest, Instructions, ArchRegs, NoReg
<1>8. HasDest(rd) => rd = I.rd
  BY <1>7
<1>9. PICK pred \in Predictions(I) :
        /\ ins' = [ins EXCEPT ![new] = [pc |-> fpc, I |-> I, pred |-> pred]]
        /\ fpc' = NextPc(fpc, pred)
  BY <1>4, <1>5 DEF Dispatch
<1>10. /\ new \in Slots \ LiveSlots /\ LiveSlots' = LiveSlots \cup {new}
       /\ Kept /\ Before(new)' = map
       /\ rob'[new].seq = seqCtr
       /\ HasDest(rd) => /\ rob'[new].pdst = map'[rd] /\ rob'[new].rd = rd
                         /\ map'[rd] \in freeList
                         /\ freeList' = freeList \ {map'[rd]}
       /\ ~HasDest(rd) => rob'[new].pdst = NoReg /\ freeList' = freeList
       /\ SeqOrder'
  BY <1>4, <1>5, <1>6, Grow
<1>11. IF WritesRd(I) /\ I.rd # 0
       THEN /\ rob'[new].rd = I.rd
            /\ rob'[new].pdst \in freeList
            /\ freeList' = freeList \ {rob'[new].pdst}
            /\ ready' = [ready EXCEPT ![rob'[new].pdst] = FALSE]
       ELSE rob'[new].pdst = NoReg /\ freeList' = freeList /\ ready' = ready
  <2>1. ready' = IF WritesRd(I) /\ I.rd # 0
                 THEN [ready EXCEPT ![map'[I.rd]] = FALSE] ELSE ready
    BY DEF Dispatch
  <2> HIDE DEF I, rd
  <2> QED BY <1>7, <1>8, <1>10, <2>1
<1>12. /\ MayDispatch(I)
       /\ done' = [done EXCEPT ![new] = IsSystem(I)]
       /\ lsq' = [lsq EXCEPT ![new] = IF IsStore(I) THEN StoreSource(map[I.rs2]) ELSE NoLsq]
       /\ iq' = IF IsSystem(I) THEN iq ELSE iq \cup {IqEntry(I)}
       /\ UNCHANGED <<code, val, ops, memory, ended, rec>>
  BY <1>4, <1>5 DEF Dispatch
<1>13. IqEntry(I) = [seq |-> seqCtr, slot |-> new, ps1 |-> map[I.rs1], ps2 |-> map[I.rs2],
                     blocked1 |-> UsesRs1(I) /\ ~ready[map[I.rs1]],
                     blocked2 |-> UsesRs2(I) /\ ~IsStore(I) /\ ~ready[map[I.rs2]]]
  BY <1>4, <1>5 DEF IqEntry
<1> HIDE DEF I, rd
<1>14. I = code[fpc]
  BY DEF I
<1>15. Admits(new, I, pred)
  BY <1>2, <1>3, <1>9, <1>10, <1>11, <1>12, <1>13, <1>14 DEF Admits
<1> QED BY <1>15

(* A squash from entry x down, by slot.                                    *)
LEMMA CutSquashes ==
  ASSUME BackInv, RenameInv', NEW seq \in Int, RenameRecover(seq)
  PROVE  /\ Squashes
         /\ LiveSlots' = {s \in LiveSlots : rob[s].seq <= seq}
<1> USE DEF BackInv
<1>1. /\ LiveSlots' = {s \in LiveSlots : rob[s].seq <= seq}
      /\ Kept
      /\ freeList \subseteq freeList'
      /\ \A s \in LiveSlots \ LiveSlots' :
           rob[s].pdst # NoReg => rob[s].pdst \in freeList'
      /\ SeqOrder'
  BY Cut
<1>2. \A s \in LiveSlots : rob[s].seq \in Nat
  BY SeqBySlot DEF RenameInv
<1>3. ASSUME NEW s \in LiveSlots', NEW t \in LiveSlots, rob[t].seq <= rob[s].seq
      PROVE  t \in LiveSlots'
  BY <1>1, <1>2, <1>3
<1> QED BY <1>1, <1>3 DEF Squashes, Shrinks

LEMMA StillSquashes ==
  ASSUME BackInv, UNCHANGED renameVars
  PROVE  Squashes /\ LiveSlots' = LiveSlots
BY Still DEF Squashes, Shrinks, renameVars, BackInv

(* writebackStage, by slot.                                                *)
Completes(o) ==
  /\ o \in ops /\ o.unit # "agu"
  /\ Deliver(o)
  /\ Squashes /\ o.slot \in LiveSlots'
  /\ iq' = {q \in Woken(o) : q.slot \in LiveSlots'}
  /\ ops' = {x \in ops : x.slot \in LiveSlots'} \ {o}
  /\ IF Mispredicted(ins[o.slot], o.outcome)
     THEN /\ \A t \in LiveSlots' : rob[t].seq <= rob[o.slot].seq
          /\ robCount' \in 0 .. robCount /\ UNCHANGED robHead
          /\ fpc' = NextPc(ins[o.slot].pc, o.outcome)
     ELSE LiveSlots' = LiveSlots /\ UNCHANGED <<renameVars, fpc>>
  /\ UNCHANGED <<code, ins, lsq, memory, ended, rec>>

(* A wakeup changes what an entry waits for, and nothing else of it.       *)
LEMMA WakeIs ==
  ASSUME NEW q \in QueueEntry, NEW p
  PROVE  /\ Wake(q, p) \in QueueEntry
         /\ Wake(q, p).seq = q.seq /\ Wake(q, p).slot = q.slot
         /\ Wake(q, p).ps1 = q.ps1 /\ Wake(q, p).ps2 = q.ps2
         /\ Wake(q, p).blocked1 <=> q.blocked1 /\ q.ps1 # p
         /\ Wake(q, p).blocked2 <=> q.blocked2 /\ q.ps2 # p
BY DEF Wake, QueueEntry

LEMMA WokenIs ==
  ASSUME Shape, NEW o, NEW w \in Woken(o)
  PROVE  \E q \in iq : (o.pdst = NoReg /\ w = q) \/ (o.pdst # NoReg /\ w = Wake(q, o.pdst))
BY DEF Woken

LEMMA WritebackCompletes ==
  ASSUME BackInv, RenameInv', Writeback
  PROVE  \E o : Completes(o)
<1> USE DEF BackInv
<1>1. PICK o \in ops :
        /\ o.unit # "agu"
        /\ Deliver(o)
        /\ IF Mispredicted(ins[o.slot], o.outcome)
           THEN /\ RenameRecover(o.seq)
                /\ iq' = Older(Woken(o), o.seq)
                /\ ops' = Older(ops, o.seq) \ {o}
                /\ fpc' = NextPc(ins[o.slot].pc, o.outcome)
           ELSE /\ iq' = Woken(o)
                /\ ops' = ops \ {o}
                /\ UNCHANGED <<renameVars, fpc>>
        /\ UNCHANGED <<code, ins, lsq, memory, ended, rec>>
  BY DEF Writeback
<1>2. o.slot \in LiveSlots /\ o.seq = rob[o.slot].seq /\ o.seq \in Nat
  BY <1>1, SeqBySlot DEF Matched, RenameInv
<1>3. \A q \in Woken(o) : q.slot \in LiveSlots /\ q.seq = rob[q.slot].seq
  <2>1. iq \subseteq QueueEntry
    BY DEF Shape
  <2>2. \A q \in iq : q.slot \in LiveSlots /\ q.seq = rob[q.slot].seq
    BY DEF Matched
  <2> QED BY <2>1, <2>2, WokenIs, WakeIs
<1>4. \A x \in ops : x.slot \in LiveSlots /\ x.seq = rob[x.slot].seq
  BY DEF Matched
<1>5. CASE Mispredicted(ins[o.slot], o.outcome)
  <2>1. Squashes /\ LiveSlots' = {s \in LiveSlots : rob[s].seq <= o.seq}
    BY <1>1, <1>2, <1>5, CutSquashes
  <2>2. o.slot \in LiveSlots'
    BY <1>2, <2>1
  <2>3. iq' = {q \in Woken(o) : q.slot \in LiveSlots'}
    BY <1>1, <1>3, <1>5, <2>1 DEF Older
  <2>4. ops' = {x \in ops : x.slot \in LiveSlots'} \ {o}
    BY <1>1, <1>4, <1>5, <2>1 DEF Older
  <2>5. \A t \in LiveSlots' : rob[t].seq <= rob[o.slot].seq
    BY <1>2, <2>1
  <2>6. robCount' \in 0 .. robCount /\ UNCHANGED robHead
    BY <1>1, <1>5 DEF RenameRecover
  <2> QED BY <1>1, <1>5, <2>1, <2>2, <2>3, <2>4, <2>5, <2>6 DEF Completes
<1>6. CASE ~Mispredicted(ins[o.slot], o.outcome)
  <2>1. Squashes /\ LiveSlots' = LiveSlots
    BY <1>1, <1>6, StillSquashes
  <2>2. iq' = {q \in Woken(o) : q.slot \in LiveSlots'}
    BY <1>1, <1>3, <1>6, <2>1
  <2>3. ops' = {x \in ops : x.slot \in LiveSlots'} \ {o}
    BY <1>1, <1>4, <1>6, <2>1
  <2> QED BY <1>1, <1>2, <1>6, <2>1, <2>2, <2>3 DEF Completes
<1> QED BY <1>5, <1>6

(* A store's address becomes known, by slot: no load that has read this    *)
(* address survives.                                                       *)
Resolves(o) ==
  /\ o \in ops /\ o.unit = "agu" /\ IsStore(ins[o.slot].I)
  /\ Squashes /\ o.slot \in LiveSlots'
  /\ lsq' = [lsq EXCEPT ![o.slot].addrValid = TRUE, ![o.slot].addr = o.value]
  /\ done' = [done EXCEPT ![o.slot] = lsq[o.slot].dataReady]
  /\ iq' = {q \in iq : q.slot \in LiveSlots'}
  /\ ops' = {x \in ops : x.slot \in LiveSlots'} \ {o}
  /\ o.value \in Addrs =>
       \A t \in LiveSlots' : IsLoad(ins[t].I) /\ lsq[t].addrValid /\ lsq[t].addr = o.value
                               => rob[t].seq < rob[o.slot].seq
  /\ \/ UNCHANGED <<renameVars, fpc>>
     \/ fpc' \in Pcs /\ robCount' \in Ages /\ fpc' = Ins(robCount').pc /\ UNCHANGED robHead
  /\ UNCHANGED <<code, ins, prf, memory, ended, rec>>

LEMMA ResolveResolves ==
  ASSUME BackInv, RenameInv', ResolveStore
  PROVE  \E o : Resolves(o)
<1> USE DEF BackInv
<1>1. PICK o \in ops, k \in Ages :
    /\ o.unit = "agu" /\ IsStore(ins[o.slot].I) /\ o.slot = Slot(k)
    /\ lsq' = [lsq EXCEPT ![o.slot].addrValid = TRUE, ![o.slot].addr = o.value]
    /\ done' = [done EXCEPT ![o.slot] = lsq[o.slot].dataReady]
    /\ IF o.value \in Addrs /\ Violated(k, o.value) # {}
       THEN LET load == Oldest(Violated(k, o.value)) IN
            /\ RenameRecover(Nth(load).seq - 1)
            /\ iq' = Older(iq, Nth(load).seq - 1)
            /\ ops' = Older(ops, Nth(load).seq - 1) \ {o}
            /\ fpc' = Ins(load).pc
       ELSE /\ ops' = ops \ {o}
            /\ UNCHANGED <<renameVars, fpc, iq>>
    /\ UNCHANGED <<code, ins, prf, memory, ended, rec>>
  BY DEF ResolveStore
<1>2. SlotsAre /\ robCount \in Nat
  BY SlotFacts DEF RenameInv, SlotsAre
<1>3. o.slot \in LiveSlots /\ Nth(k) = rob[o.slot]
  BY <1>1, <1>2 DEF SlotsAre, LiveSlots
<1>4. \A x \in ops : x.slot \in LiveSlots /\ x.seq = rob[x.slot].seq
  BY DEF Matched
<1>5. \A x \in iq : x.slot \in LiveSlots /\ x.seq = rob[x.slot].seq
  BY DEF Matched
<1>6. \A s \in LiveSlots : rob[s].seq \in Nat
  BY SeqBySlot DEF RenameInv
<1>7. CASE o.value \in Addrs /\ Violated(k, o.value) # {}
  <2> DEFINE V == Violated(k, o.value)
  <2>1. V \subseteq Nat /\ V \subseteq Ages /\ \A j \in V : j > k
    BY <1>2 DEF Violated, Ages
  <2>2. PICK m \in V : \A x \in V : m <= x
    BY <1>7, <2>1, MinExists
  <2>3. Oldest(V) \in V /\ \A x \in V : Oldest(V) <= x
    BY <2>2 DEF Oldest
  <2>4. PICK load : load = Oldest(V)
    OBVIOUS
  <2>5. load \in V /\ \A x \in V : load <= x
    BY <2>3, <2>4
  <2>6. /\ RenameRecover(Nth(load).seq - 1)
        /\ iq' = Older(iq, Nth(load).seq - 1)
        /\ ops' = Older(ops, Nth(load).seq - 1) \ {o}
        /\ fpc' = Ins(load).pc
    BY <1>1, <1>7, <2>4
  <2>7. load \in Ages /\ load > k /\ Slot(load) \in Slots
    BY <1>2, <2>1, <2>5 DEF SlotsAre
  <2>8. PICK b : b = Nth(load).seq - 1
    OBVIOUS
  <2>9. Nth(load).seq \in Nat /\ b \in Int
    BY <2>7, <2>8, NthType DEF RenameInv, Ages
  <2>10. Squashes /\ LiveSlots' = {s \in LiveSlots : rob[s].seq <= b}
    BY <2>6, <2>8, <2>9, CutSquashes
  <2>11. iq' = {q \in iq : q.slot \in LiveSlots'}
    BY <1>5, <2>6, <2>8, <2>10 DEF Older
  <2>12. ops' = {x \in ops : x.slot \in LiveSlots'} \ {o}
    BY <1>4, <2>6, <2>8, <2>10 DEF Older
  <2>13. \A i, j \in Ages : i < j => Nth(i).seq < Nth(j).seq
    <3>1. \A i, j \in Ages : i < j => i \in 0 .. j - 1
      BY <1>2 DEF Ages
    <3> QED BY <3>1 DEF SeqOrder
  <2>14. \A j \in Ages : Nth(j).seq \in Nat
    BY NthType DEF RenameInv, Ages
  <2>15. o.slot \in LiveSlots'
    <3>1. Nth(k).seq < Nth(load).seq
      BY <2>7, <2>13
    <3>2. rob[o.slot].seq <= b
      BY <1>3, <2>7, <2>8, <2>14, <3>1
    <3> QED BY <1>3, <2>10, <3>2
  <2>16. ASSUME NEW t \in LiveSlots', IsLoad(ins[t].I), lsq[t].addrValid,
                lsq[t].addr = o.value
         PROVE  rob[t].seq < rob[o.slot].seq
    <3>1. PICK j \in Ages : t = Slot(j)
      BY <2>10 DEF LiveSlots
    <3>2. Nth(j) = rob[t] /\ Nth(j).seq <= b
      BY <1>2, <2>10, <3>1 DEF SlotsAre
    <3>3. j \notin V
      <4> SUFFICES ASSUME j \in V PROVE FALSE
        OBVIOUS
      <4>1. load = j \/ load < j
        BY <1>2, <2>5, <2>7 DEF Ages
      <4>2. Nth(load).seq <= Nth(j).seq
        BY <2>7, <2>13, <2>14, <4>1
      <4> QED BY <2>8, <2>9, <2>14, <3>2, <4>2
    <3>4. ~(k < j)
      BY <1>2, <2>16, <3>1, <3>3 DEF Violated, Ins, Ages
    <3>5. j # k
      BY <1>1, <2>16, <3>1 DEF IsLoad, IsStore
    <3>6. j < k
      BY <1>2, <3>4, <3>5 DEF Ages
    <3> QED BY <1>3, <2>13, <3>2, <3>6
  <2>17. robCount' \in Ages /\ fpc' = Ins(robCount').pc /\ UNCHANGED robHead
    <3>1. robCount' = load /\ UNCHANGED robHead
      <4>1. PICK keep \in 0 .. robCount : Survivors(b, keep) /\ robCount' = keep
                                          /\ UNCHANGED robHead
        BY <2>6, <2>8 DEF RenameRecover
      <4>2. keep <= load
        <5> SUFFICES ASSUME load < keep PROVE FALSE
          BY <1>2, <2>7 DEF Ages
        <5>1. keep > 0 /\ keep - 1 \in Ages /\ load <= keep - 1
          BY <1>2, <2>7 DEF Ages
        <5>2. Nth(keep - 1).seq <= b
          BY <4>1, <5>1 DEF Survivors
        <5>3. load = keep - 1 \/ load < keep - 1
          BY <1>2, <2>7, <5>1 DEF Ages
        <5>4. Nth(load).seq <= Nth(keep - 1).seq
          BY <2>7, <2>13, <2>14, <5>1, <5>3
        <5> QED BY <2>8, <2>9, <2>14, <5>1, <5>2, <5>4
      <4>3. ~(keep < load)
        <5> SUFFICES ASSUME keep < load PROVE FALSE
          OBVIOUS
        <5>1. load - 1 \in Ages /\ load - 1 \in keep .. robCount - 1 /\ load - 1 < load
          BY <1>2, <2>7 DEF Ages
        <5>2. Nth(load - 1).seq > b
          BY <4>1, <5>1 DEF Survivors
        <5>3. Nth(load - 1).seq < Nth(load).seq
          BY <2>7, <2>13, <5>1
        <5> QED BY <2>8, <2>9, <2>14, <5>1, <5>2, <5>3
      <4> QED BY <1>2, <2>7, <4>1, <4>2, <4>3 DEF Ages
    <3> QED BY <2>6, <2>7, <3>1
  <2>18. fpc' \in Pcs
    BY <2>6, <2>7 DEF Shape, Ins
  <2> QED
    BY <1>1, <2>10, <2>11, <2>12, <2>15, <2>16, <2>17, <2>18 DEF Resolves
<1>8. CASE ~(o.value \in Addrs /\ Violated(k, o.value) # {})
  <2>1. Squashes /\ LiveSlots' = LiveSlots
    BY <1>1, <1>8, StillSquashes
  <2>2. iq' = {q \in iq : q.slot \in LiveSlots'}
    BY <1>1, <1>5, <1>8, <2>1
  <2>3. ops' = {x \in ops : x.slot \in LiveSlots'} \ {o}
    BY <1>1, <1>4, <1>8, <2>1
  <2>4. ASSUME NEW t \in LiveSlots', IsLoad(ins[t].I), lsq[t].addrValid,
               lsq[t].addr = o.value, o.value \in Addrs
        PROVE  rob[t].seq < rob[o.slot].seq
    <3>1. PICK j \in Ages : t = Slot(j)
      BY <2>1 DEF LiveSlots
    <3>2. Nth(j) = rob[t]
      BY <1>2, <3>1 DEF SlotsAre
    <3>3. j # k
      BY <1>1, <2>4, <3>1 DEF IsLoad, IsStore
    <3>4. ~(k < j)
      <4> SUFFICES ASSUME k < j PROVE FALSE
        OBVIOUS
      <4>1. j \in k + 1 .. robCount - 1
        BY <1>2 DEF Ages
      <4>2. j \in Violated(k, o.value)
        BY <2>4, <3>1, <4>1 DEF Violated, Ins
      <4> QED BY <1>8, <2>4, <4>2
    <3>5. j \in 0 .. k - 1
      BY <1>2, <3>3, <3>4 DEF Ages
    <3> QED BY <1>3, <3>2, <3>5 DEF SeqOrder
  <2> QED BY <1>1, <1>3, <1>8, <2>1, <2>2, <2>3, <2>4 DEF Resolves
<1> QED BY <1>7, <1>8

(* commitStage, by slot.                                                   *)
Retires ==
  /\ ended = "no" /\ robCount > 0 /\ robHead \in LiveSlots /\ done[robHead]
  /\ LiveSlots' = LiveSlots \ {robHead} /\ Shrinks
  /\ RenameCommit
  /\ \/ val' = val
     \/ /\ IsSystem(ins[robHead].I)
        /\ \E input \in Values : val' = [val EXCEPT ![map[A0]] = input]
  /\ \/ ~IsStore(ins[robHead].I) /\ sb' = sb
     \/ /\ IsStore(ins[robHead].I) /\ Len(sb) < SbSize /\ lsq[robHead].addr \in Addrs
        /\ sb' = Append(sb, [addr |-> lsq[robHead].addr, data |-> lsq[robHead].data])
  /\ \/ ended' = "halted"
     \/ ended' = ended /\ ins[robHead].I.op # "halt"
  /\ UNCHANGED <<code, fpc, ins, done, lsq, ready, iq, ops, mem>>

Commits == CommitPlain \/ CommitSyscall \/ CommitShow \/ CommitHalt

LEMMA CommitRetires ==
  ASSUME BackInv, RenameInv', ended = "no", Commits
  PROVE  Retires
<1> USE DEF BackInv
<1>1. RenameCommit /\ robCount > 0
  BY DEF Commits, CommitPlain, CommitSyscall, CommitShow, CommitHalt
<1>2. /\ robHead \in LiveSlots /\ LiveSlots' = LiveSlots \ {robHead}
      /\ Kept /\ freeList \subseteq freeList' /\ SeqOrder'
  BY <1>1, Retire
<1>3. RobHead = ins[robHead]
  BY <1>1, SlotFacts DEF RobHead, Ins, SlotsAre, RenameInv
<1>4. Shrinks
  BY <1>2 DEF Shrinks
<1>5. CASE CommitPlain
  <2>1. IsMem(ins[robHead].I) => lsq[robHead].addr \in Addrs
    BY <1>3, <1>5 DEF CommitPlain, Faults
  <2>2. IsStore(ins[robHead].I) => lsq[robHead].addr \in Addrs
    BY <2>1 DEF IsStore, IsMem
  <2>3. ins[robHead].I.op # "halt"
    BY <1>3, <1>5 DEF CommitPlain, IsSystem
  <2> QED BY <1>1, <1>2, <1>3, <1>4, <1>5, <2>2, <2>3 DEF CommitPlain, Retires, prf
<1>6. CASE CommitSyscall \/ CommitShow \/ CommitHalt
  <2>1. ins[robHead].I.op \in {"sys", "show", "halt"}
    BY <1>3, <1>6 DEF CommitSyscall, CommitShow, CommitHalt
  <2>2. IsSystem(ins[robHead].I) /\ ~IsStore(ins[robHead].I) /\ done[robHead]
    BY <1>2, <2>1 DEF IsSystem, IsStore, DoneMeans
  <2>3. CASE CommitSyscall
    <3>1. ins[robHead].I.op # "halt"
      BY <1>3, <2>3 DEF CommitSyscall
    <3> QED BY <1>1, <1>2, <1>4, <2>2, <2>3, <3>1 DEF CommitSyscall, Retires, memory
  <2>4. CASE CommitShow
    <3>1. ins[robHead].I.op # "halt"
      BY <1>3, <2>4 DEF CommitShow
    <3> QED BY <1>1, <1>2, <1>4, <2>2, <2>4, <3>1 DEF CommitShow, Retires, memory, prf
  <2>5. CASE CommitHalt
    BY <1>1, <1>2, <1>4, <2>2, <2>5 DEF CommitHalt, Retires, memory, prf
  <2> QED BY <1>6, <2>3, <2>4, <2>5
<1> QED BY <1>5, <1>6 DEF Commits
-----------------------------------------------------------------------------
(* Operators. *)

LEMMA YoungestIs ==
  ASSUME NEW n \in Nat, NEW S, S \subseteq 0 .. n, S # {}
  PROVE  Youngest(S) \in S /\ \A i \in S : i <= Youngest(S)
<1>1. \E m \in S : \A x \in S : x <= m
  BY MaxExists
<1> QED BY <1>1 DEF Youngest

(* What an instruction computes.                                           *)
LEMMA ExecuteType ==
  ASSUME NEW I \in Instructions, I.op = "branch" => I.imm \in Pcs,
         NEW pc \in Pcs, NEW a \in Values, NEW b \in Values,
         NEW x, x = Execute(I, pc, a, b)
  PROVE  /\ x.value \in Values
         /\ [taken |-> x.redirect, target |-> x.target] \in Outcomes
<1> USE IsaAssumption
<1>1. a \in Int /\ b \in Int /\ pc \in Int /\ I.imm \in Int
  BY DEF Values, Pcs, Instructions
<1>2. NVals \in Nat \ {0} /\ LastPc + 1 \in Nat \ {0}
  OBVIOUS
<1>3. (a + b + I.imm) % NVals \in Values /\ (a + I.imm) % NVals \in Values
      /\ (pc + 1) % NVals \in Values /\ 0 \in Values
  <2>1. a + b + I.imm \in Int /\ a + I.imm \in Int /\ pc + 1 \in Int
    BY <1>1
  <2> QED BY <1>2, <2>1 DEF Values
<1>4. (I.imm + a) % (LastPc + 1) \in Pcs
  <2>1. I.imm + a \in Int
    BY <1>1
  <2>2. (I.imm + a) % (LastPc + 1) \in 0 .. (LastPc + 1) - 1
    BY <1>2, <2>1
  <2> QED BY <2>2 DEF Pcs
<1>5. x.value \in Values
  <2>1. x.value = CASE I.op = "alu"  -> (a + b + I.imm) % NVals
                    [] IsMem(I)      -> (a + I.imm) % NVals
                    [] I.op = "jump" -> (pc + 1) % NVals
                    [] OTHER         -> 0
    BY DEF Execute
  <2>2. CASE I.op = "alu"
    <3>1. ~IsMem(I) /\ I.op # "jump"
      BY <2>2 DEF IsMem
    <3> QED BY <1>3, <2>1, <2>2, <3>1
  <2>3. CASE IsMem(I)
    <3>1. I.op # "alu" /\ I.op # "jump"
      BY <2>3 DEF IsMem
    <3> QED BY <1>3, <2>1, <2>3, <3>1
  <2>4. CASE I.op = "jump"
    <3>1. I.op # "alu" /\ ~IsMem(I)
      BY <2>4 DEF IsMem
    <3> QED BY <1>3, <2>1, <2>4, <3>1
  <2>5. CASE I.op # "alu" /\ ~IsMem(I) /\ I.op # "jump"
    BY <1>3, <2>1, <2>5
  <2> QED BY <2>2, <2>3, <2>4, <2>5
<1>6. x.redirect \in BOOLEAN /\ x.target \in Int /\ (x.redirect => x.target \in Pcs)
  <2>1. x.redirect = (I.op = "jump" \/ (I.op = "branch" /\ a # b))
    BY DEF Execute
  <2>2. x.target = IF I.op = "jump" THEN (I.imm + a) % (LastPc + 1) ELSE I.imm
    BY DEF Execute
  <2>3. x.redirect \in BOOLEAN
    BY <2>1
  <2>4. x.target \in Int
    BY <1>1, <1>4, <2>2 DEF Pcs
  <2>5. x.redirect => I.op = "jump" \/ I.op = "branch"
    BY <2>1
  <2> QED BY <1>4, <2>2, <2>3, <2>4, <2>5
<1> QED BY <1>5, <1>6 DEF Outcomes

LEMMA LiveIns ==
  ASSUME Shape, NEW s \in LiveSlots, LiveSlots \subseteq Slots
  PROVE  /\ ins[s].I \in Instructions /\ ins[s].pc \in Pcs
         /\ ins[s].I.op = "branch" => ins[s].I.imm \in Pcs
BY BackendAssumption DEF Shape
-----------------------------------------------------------------------------
(* Shape is preserved. *)

(* An entry's fields after an update.                                      *)
LEMMA StoreSourceIs ==
  ASSUME NEW p \in Pregs, ready[p] \in BOOLEAN, val[p] \in Values
  PROVE  /\ StoreSource(p) \in LsqEntry
         /\ StoreSource(p).preg = p /\ StoreSource(p).addrValid = FALSE
         /\ StoreSource(p).dataReady = ready[p] /\ StoreSource(p).data = val[p]
<1>1. PICK b \in BOOLEAN, d \in Values : b = ready[p] /\ d = val[p]
  OBVIOUS
<1>2. 0 \in Values
  BY IsaAssumption DEF Values
<1>3. StoreSource(p) = [NoLsq EXCEPT !.preg = p, !.dataReady = b, !.data = d]
  BY <1>1 DEF StoreSource
<1>4. StoreSource(p) = [preg |-> p, addrValid |-> FALSE, addr |-> 0, dataReady |-> b, data |-> d]
  BY <1>3 DEF NoLsq
<1> QED BY <1>1, <1>2, <1>4 DEF LsqEntry

LEMMA LsqAddr ==
  ASSUME lsq \in [Slots -> LsqEntry], NEW s \in Slots, NEW a \in Values,
         lsq' = [lsq EXCEPT ![s].addrValid = TRUE, ![s].addr = a]
  PROVE  /\ lsq' \in [Slots -> LsqEntry]
         /\ \A t \in Slots : t # s => lsq'[t] = lsq[t]
         /\ lsq'[s].addrValid = TRUE /\ lsq'[s].addr = a
         /\ lsq'[s].preg = lsq[s].preg
         /\ lsq'[s].dataReady = lsq[s].dataReady /\ lsq'[s].data = lsq[s].data
<1>1. PICK e \in LsqEntry : e = lsq[s]
  OBVIOUS
<1> DEFINE x == [preg |-> e.preg, addrValid |-> TRUE, addr |-> a,
                 dataReady |-> e.dataReady, data |-> e.data]
<1>2. lsq'[s] = x
  BY <1>1 DEF LsqEntry
<1>3. x \in LsqEntry
  BY DEF LsqEntry
<1>4. lsq' = [lsq EXCEPT ![s] = x]
  BY <1>2
<1> HIDE DEF x
<1>5. lsq' \in [Slots -> LsqEntry] /\ \A t \in Slots : t # s => lsq'[t] = lsq[t]
  BY <1>3, <1>4
<1> QED BY <1>1, <1>2, <1>5 DEF x

LEMMA LsqData ==
  ASSUME lsq \in [Slots -> LsqEntry], NEW s \in Slots, NEW d \in Values,
         lsq' = [lsq EXCEPT ![s].dataReady = TRUE, ![s].data = d]
  PROVE  /\ lsq' \in [Slots -> LsqEntry]
         /\ \A t \in Slots : t # s => lsq'[t] = lsq[t]
         /\ lsq'[s].dataReady = TRUE /\ lsq'[s].data = d
         /\ lsq'[s].preg = lsq[s].preg
         /\ lsq'[s].addrValid = lsq[s].addrValid /\ lsq'[s].addr = lsq[s].addr
<1>1. PICK e \in LsqEntry : e = lsq[s]
  OBVIOUS
<1> DEFINE x == [preg |-> e.preg, addrValid |-> e.addrValid, addr |-> e.addr,
                 dataReady |-> TRUE, data |-> d]
<1>2. lsq'[s] = x
  BY <1>1 DEF LsqEntry
<1>3. x \in LsqEntry
  BY DEF LsqEntry
<1>4. lsq' = [lsq EXCEPT ![s] = x]
  BY <1>2
<1> HIDE DEF x
<1>5. lsq' \in [Slots -> LsqEntry] /\ \A t \in Slots : t # s => lsq'[t] = lsq[t]
  BY <1>3, <1>4
<1> QED BY <1>1, <1>2, <1>5 DEF x

LEMMA SbEntry ==
  ASSUME Shape, NEW i \in 1 .. Len(sb)
  PROVE  sb[i] \in [addr : Addrs, data : Values]
<1>1. PICK S : S = [addr : Addrs, data : Values]
  OBVIOUS
<1>2. sb \in Seq(S)
  BY <1>1 DEF Shape
<1>3. sb[i] \in S
  BY <1>2, ElementOfSeq
<1> QED BY <1>1, <1>3

LEMMA LoadValueType ==
  ASSUME BackInv, NEW k \in Ages, NEW addr
  PROVE  LoadValue(k, addr) \in Values
<1> USE DEF BackInv
<1>1. robCount \in Nat /\ k \in Nat /\ k < robCount /\ SlotsAre
  BY SlotFacts DEF RenameInv, SlotsAre, Ages
<1>2. CASE addr \notin Addrs
  BY <1>2, IsaAssumption DEF LoadValue, Values
<1>3. CASE addr \in Addrs /\ KnownStores(k, addr) # {}
  <2>1. KnownStores(k, addr) \subseteq 0 .. k
    BY <1>1 DEF KnownStores
  <2>2. Youngest(KnownStores(k, addr)) \in KnownStores(k, addr)
    BY <1>1, <1>3, <2>1, YoungestIs
  <2>3. Youngest(KnownStores(k, addr)) \in Ages
    BY <1>1, <2>2 DEF KnownStores, Ages
  <2>4. Slot(Youngest(KnownStores(k, addr))) \in Slots
    BY <1>1, <2>3 DEF SlotsAre
  <2>5. lsq[Slot(Youngest(KnownStores(k, addr)))].data \in Values
    BY <2>4 DEF Shape, LsqEntry
  <2> QED BY <1>3, <2>5 DEF LoadValue
<1>4. CASE addr \in Addrs /\ KnownStores(k, addr) = {} /\ Buffered(addr) # {}
  <2>1. Len(sb) \in Nat
    BY DEF Shape
  <2>2. Buffered(addr) \subseteq 0 .. Len(sb)
    BY <2>1 DEF Buffered
  <2>3. Youngest(Buffered(addr)) \in Buffered(addr)
    BY <1>4, <2>1, <2>2, YoungestIs
  <2>4. Youngest(Buffered(addr)) \in 1 .. Len(sb)
    BY <2>3 DEF Buffered
  <2>5. sb[Youngest(Buffered(addr))] \in [addr : Addrs, data : Values]
    BY <2>4, SbEntry
  <2> QED BY <1>4, <2>5 DEF LoadValue
<1>5. CASE addr \in Addrs /\ KnownStores(k, addr) = {} /\ Buffered(addr) = {}
  BY <1>5 DEF LoadValue, Shape
<1> QED BY <1>2, <1>3, <1>4, <1>5

LEMMA ShapeDispatch ==
  ASSUME BackInv, ended = "no", NEW new, NEW I, NEW pred, Admits(new, I, pred)
  PROVE  Shape'
<1> USE DEF BackInv
<1>1. /\ fpc \in Pcs /\ I = code[fpc] /\ I \in Instructions
      /\ new \in Slots \ LiveSlots /\ LiveSlots' = LiveSlots \cup {new}
      /\ UNCHANGED <<code, val, ops, sb, mem, ended>>
  BY DEF Admits, memory
<1>2. /\ pred.taken \in BOOLEAN /\ pred.target \in Pcs
      /\ pred \in [taken : BOOLEAN, target : Pcs]
  <2>1. pred = NotTaken \/ pred \in [taken : {TRUE}, target : Pcs]
    BY DEF Admits, Predictions
  <2>2. 0 \in Pcs
    BY IsaAssumption DEF Pcs
  <2>3. NotTaken \in [taken : BOOLEAN, target : Pcs]
    BY <2>2 DEF NotTaken
  <2>4. \A x \in [taken : {TRUE}, target : Pcs] : x \in [taken : BOOLEAN, target : Pcs]
    OBVIOUS
  <2>5. pred \in [taken : BOOLEAN, target : Pcs]
    BY <2>1, <2>3, <2>4
  <2> QED BY <2>5
<1>3. fpc' \in 0 .. LastPc + 1 /\ (fpc' = LastPc + 1 => fpc = LastPc)
  <2>1. fpc' = IF pred.taken THEN pred.target ELSE fpc + 1
    BY DEF Admits, NextPc
  <2> QED BY <1>1, <1>2, <2>1, IsaAssumption DEF Pcs
<1>4. ins' = [ins EXCEPT ![new] = [pc |-> fpc, I |-> I, pred |-> pred]]
  BY DEF Admits
<1>5. ins' \in [Slots -> [pc : Pcs, I : Instructions, pred : [taken : BOOLEAN, target : Pcs]]]
  <2>1. PICK P : P = [taken : BOOLEAN, target : Pcs]
    OBVIOUS
  <2>2. [pc |-> fpc, I |-> I, pred |-> pred] \in [pc : Pcs, I : Instructions, pred : P]
    BY <1>1, <1>2, <2>1
  <2> QED BY <1>4, <2>1, <2>2 DEF Shape
<1>6. \A s \in LiveSlots' : ins'[s].I = code'[ins'[s].pc]
  BY <1>1, <1>4 DEF Shape, RenameInv
<1>7. fpc' = LastPc + 1 => ended' = "halted" \/ \E s \in LiveSlots' : ins'[s].I.op = "halt"
  <2>1. code[LastPc].op = "halt"
    BY BackendAssumption DEF Shape
  <2>2. ins'[new].I = I /\ new \in LiveSlots'
    BY <1>1, <1>4 DEF Shape
  <2> QED BY <1>1, <1>3, <2>1, <2>2
<1>8. done' \in [Slots -> BOOLEAN]
  <2>1. IsSystem(I) \in BOOLEAN
    BY DEF IsSystem
  <2> QED BY <2>1 DEF Admits, Shape
<1>9. map[I.rs1] \in Pregs /\ map[I.rs2] \in Pregs
  BY <1>1 DEF RenameInv, RenameTypeOK, Instructions
<1>10. lsq' \in [Slots -> LsqEntry]
  <2>1. 0 \in Values
    BY IsaAssumption DEF Values
  <2>2. NoLsq \in LsqEntry
    BY <2>1 DEF NoLsq, LsqEntry
  <2>3. ready[map[I.rs2]] \in BOOLEAN /\ val[map[I.rs2]] \in Values
    BY <1>9 DEF Shape
  <2>4. StoreSource(map[I.rs2]) \in LsqEntry
    BY <1>9, <2>3, StoreSourceIs
  <2> QED BY <2>2, <2>4 DEF Admits, Shape
<1>11. ready' \in [Pregs -> BOOLEAN]
  BY DEF Admits, Shape
<1>12. /\ iq' \subseteq QueueEntry
       /\ IsFiniteSet(iq') /\ Cardinality(iq') <= IqSize
  <2>0. seqCtr \in Nat
    BY DEF RenameInv, RenameTypeOK
  <2> DEFINE b1 == UsesRs1(I) /\ ~ready[map[I.rs1]]
             b2 == UsesRs2(I) /\ ~IsStore(I) /\ ~ready[map[I.rs2]]
             q == [seq |-> seqCtr, slot |-> new, ps1 |-> map[I.rs1], ps2 |-> map[I.rs2],
                   blocked1 |-> b1, blocked2 |-> b2]
  <2>1. iq' = iq \/ iq' = iq \cup {q}
    BY DEF Admits
  <2>2. b1 \in BOOLEAN /\ b2 \in BOOLEAN
    OBVIOUS
  <2>3. q \in QueueEntry
    <3> HIDE DEF b1, b2
    <3> QED BY <1>1, <1>9, <2>0, <2>2 DEF QueueEntry
  <2> HIDE DEF q
  <2>4. Cardinality(iq) < IqSize /\ IqSize \in Nat
    BY BackendAssumption DEF Admits, MayDispatch
  <2>5. IsFiniteSet(iq) /\ iq \subseteq QueueEntry
    BY DEF Shape
  <2>6. /\ IsFiniteSet(iq \cup {q})
        /\ Cardinality(iq \cup {q}) = IF q \in iq THEN Cardinality(iq) ELSE Cardinality(iq) + 1
    BY <2>5, FS_AddElement
  <2>7. Cardinality(iq) \in Nat
    BY <2>5, FS_CardinalityType
  <2> QED BY <2>1, <2>3, <2>4, <2>5, <2>6, <2>7
<1> QED
  BY <1>1, <1>3, <1>5, <1>6, <1>7, <1>8, <1>10, <1>11, <1>12 DEF Shape, NoReg

(* The finite-set part, for a queue that loses entries.                    *)
LEMMA QueueShrinks ==
  ASSUME Shape, NEW Q, Q \subseteq iq
  PROVE  Q \subseteq QueueEntry /\ IsFiniteSet(Q) /\ Cardinality(Q) <= IqSize
<1>1. IsFiniteSet(iq) /\ Cardinality(iq) <= IqSize /\ iq \subseteq QueueEntry
  BY DEF Shape
<1>2. Q \in SUBSET iq
  OBVIOUS
<1>3. IsFiniteSet(Q) /\ Cardinality(Q) <= Cardinality(iq)
  BY <1>1, <1>2, FS_Subset
<1>4. Cardinality(Q) \in Nat /\ Cardinality(iq) \in Nat
  BY <1>1, <1>3, FS_CardinalityType
<1> QED BY <1>1, <1>3, <1>4, BackendAssumption

(* The same, for one that is woken first.                                  *)
LEMMA QueueWakes ==
  ASSUME Shape, NEW o, NEW Q, Q \subseteq Woken(o)
  PROVE  Q \subseteq QueueEntry /\ IsFiniteSet(Q) /\ Cardinality(Q) <= IqSize
<1>1. IsFiniteSet(iq) /\ Cardinality(iq) <= IqSize /\ iq \subseteq QueueEntry
  BY DEF Shape
<1>2. CASE o.pdst = NoReg
  BY <1>2, QueueShrinks DEF Woken
<1>3. CASE o.pdst # NoReg
  <2> DEFINE W == {Wake(q, o.pdst) : q \in iq}
             f == [q \in iq |-> Wake(q, o.pdst)]
  <2>1. W \subseteq QueueEntry
    BY <1>1, WakeIs
  <2>2. f \in Surjection(iq, W)
    BY DEF Surjection
  <2>3. IsFiniteSet(W) /\ Cardinality(W) <= Cardinality(iq)
    BY <1>1, <2>2, FS_Surjection
  <2>4. Q \in SUBSET W
    BY <1>3 DEF Woken
  <2>5. IsFiniteSet(Q) /\ Cardinality(Q) <= Cardinality(W)
    BY <2>3, <2>4, FS_Subset
  <2>6. Cardinality(Q) \in Nat /\ Cardinality(W) \in Nat /\ Cardinality(iq) \in Nat
    BY <1>1, <2>3, <2>5, FS_CardinalityType
  <2> HIDE DEF W, f
  <2> QED BY <1>1, <2>1, <2>3, <2>4, <2>5, <2>6, BackendAssumption
<1> QED BY <1>2, <1>3

LEMMA ShapeNext ==
  ASSUME BackInv, RenameInv', [BackNext]_backVars
  PROVE  Shape'
<1> USE DEF BackInv
<1>0. LiveSlots \subseteq Slots /\ SlotsAre
  BY SlotFacts DEF RenameInv, SlotsAre
<1>1. CASE ended = "no" /\ Dispatch
  BY <1>1, DispatchAdmits, ShapeDispatch
<1>2. CASE Issue
  <2> SUFFICES ASSUME NEW q \in iq,
                      LET e == ins[q.slot]
                          x == Execute(e.I, e.pc, val[q.ps1], val[q.ps2])
                      IN ops' = ops \cup
                           {[seq |-> q.seq, slot |-> q.slot, pdst |-> rob[q.slot].pdst,
                             unit |-> IF IsMem(e.I) THEN "agu" ELSE "unit", value |-> x.value,
                             outcome |-> [taken |-> x.redirect, target |-> x.target]]},
                      iq' = iq \ {q},
                      UNCHANGED <<renameVars, code, fpc, ins, done, lsq, prf, memory, ended, rec>>
               PROVE  Shape'
    BY <1>2 DEF Issue
  <2> DEFINE e == ins[q.slot]
             x == Execute(e.I, e.pc, val[q.ps1], val[q.ps2])
             o == [seq |-> q.seq, slot |-> q.slot, pdst |-> rob[q.slot].pdst,
                   unit |-> IF IsMem(e.I) THEN "agu" ELSE "unit", value |-> x.value,
                   outcome |-> [taken |-> x.redirect, target |-> x.target]]
  <2>1. q.slot \in LiveSlots /\ q \in QueueEntry
    BY DEF Matched, Shape
  <2>2. val[q.ps1] \in Values /\ val[q.ps2] \in Values
    BY <2>1 DEF Shape, QueueEntry
  <2>3. e.I \in Instructions /\ e.pc \in Pcs /\ (e.I.op = "branch" => e.I.imm \in Pcs)
    BY <1>0, <2>1, LiveIns
  <2>4. x.value \in Values /\ [taken |-> x.redirect, target |-> x.target] \in Outcomes
    <3> HIDE DEF e, x
    <3>1. x = Execute(e.I, e.pc, val[q.ps1], val[q.ps2])
      BY DEF x
    <3> QED BY <2>2, <2>3, <3>1, ExecuteType
  <2>5. rob[q.slot].pdst \in Pregs \cup {NoReg}
    BY <2>1 DEF RenameInv, RenameTypeOK, QueueEntry, Entry
  <2>6. o \in [seq : Nat, slot : Slots, pdst : Pregs \cup {NoReg},
               unit : {"unit", "agu", "load"}, value : Values, outcome : Outcomes]
    <3> HIDE DEF x, e
    <3> QED BY <2>1, <2>4, <2>5 DEF QueueEntry
  <2>7. ops' = ops \cup {o}
    OBVIOUS
  <2> HIDE DEF o
  <2>8. iq' \subseteq QueueEntry /\ IsFiniteSet(iq') /\ Cardinality(iq') <= IqSize
    BY QueueShrinks
  <2>9. LiveSlots' = LiveSlots
    BY Still
  <2> QED BY <2>6, <2>7, <2>8, <2>9 DEF Shape, prf, memory
<1>3. CASE AccessLoad
  <2> SUFFICES ASSUME NEW o \in ops, NEW k \in Ages, o.slot = Slot(k),
                 lsq' = [lsq EXCEPT ![o.slot].addrValid = TRUE, ![o.slot].addr = o.value],
                 ops' = (ops \ {o}) \cup
                          {[o EXCEPT !.unit = "load", !.value = LoadValue(k, o.value)]},
                 UNCHANGED <<renameVars, code, fpc, ins, done, prf, iq, memory, ended, rec>>
               PROVE  Shape'
    BY <1>3 DEF AccessLoad
  <2>1. LoadValue(k, o.value) \in Values
    BY LoadValueType
  <2>2. [o EXCEPT !.unit = "load", !.value = LoadValue(k, o.value)]
          \in [seq : Nat, slot : Slots, pdst : Pregs \cup {NoReg},
               unit : {"unit", "agu", "load"}, value : Values, outcome : Outcomes]
    BY <2>1 DEF Shape
  <2>3. lsq' \in [Slots -> LsqEntry]
    BY LsqAddr DEF Shape
  <2>4. LiveSlots' = LiveSlots
    BY Still
  <2> QED BY <2>2, <2>3, <2>4 DEF Shape, prf, memory
<1>4. CASE ResolveStore
  <2>1. PICK o : Resolves(o)
    BY <1>4, ResolveResolves
  <2>2. o \in ops /\ lsq' = [lsq EXCEPT ![o.slot].addrValid = TRUE, ![o.slot].addr = o.value]
        /\ done' = [done EXCEPT ![o.slot] = lsq[o.slot].dataReady]
    BY <2>1 DEF Resolves
  <2>3. lsq' \in [Slots -> LsqEntry]
    BY <2>2, LsqAddr DEF Shape
  <2>4. done' \in [Slots -> BOOLEAN]
    <3>1. lsq[o.slot].dataReady \in BOOLEAN
      BY <2>2, <1>0 DEF Shape, LsqEntry, Matched
    <3> QED BY <2>2, <3>1 DEF Shape
  <2>5. LiveSlots' \subseteq LiveSlots /\ ins' = ins /\ code' = code
    BY <2>1 DEF Resolves, Squashes, Shrinks
  <2>6. iq' \subseteq QueueEntry /\ IsFiniteSet(iq') /\ Cardinality(iq') <= IqSize
    BY <2>1, QueueShrinks DEF Resolves
  <2>7. ops' \subseteq ops
    BY <2>1 DEF Resolves
  <2>8. \/ fpc' = fpc /\ LiveSlots' = LiveSlots
        \/ fpc' \in Pcs
    BY <2>1, Still DEF Resolves
  <2>9. /\ fpc' \in 0 .. LastPc + 1
        /\ fpc' = LastPc + 1 => fpc' = fpc /\ LiveSlots' = LiveSlots
    BY <2>8, IsaAssumption DEF Pcs, Shape
  <2>10. UNCHANGED <<val, ready, sb, mem, ended>>
    BY <2>1 DEF Resolves, prf, memory
  <2> QED BY <2>3, <2>4, <2>5, <2>6, <2>7, <2>9, <2>10 DEF Shape
<1>5. CASE CaptureStoreData
  <2> SUFFICES ASSUME NEW k \in Ages, NEW s, s = Slot(k),
                 IsStore(Ins(k).I),
                 lsq' = [lsq EXCEPT ![s].dataReady = TRUE, ![s].data = val[lsq[s].preg]],
                 done' = [done EXCEPT ![s] = lsq[s].addrValid],
                 UNCHANGED <<renameVars, code, fpc, ins, prf, iq, ops, memory, ended, rec>>
               PROVE  Shape'
    BY <1>5 DEF CaptureStoreData
  <2>1. s \in LiveSlots /\ s \in Slots /\ IsStore(ins[s].I)
    BY <1>0 DEF LiveSlots, SlotsAre, Ins
  <2>2. lsq[s].preg \in Pregs
    <3>1. lsq[s].preg = Before(s)[ins[s].I.rs2]
      BY <2>1 DEF DataWatched
    <3>2. ins[s].I.rs2 \in ArchRegs
      BY <1>0, <2>1, LiveIns DEF Instructions
    <3> QED BY <2>1, <3>1, <3>2, BeforeNamed
  <2>3. val[lsq[s].preg] \in Values
    BY <2>2 DEF Shape
  <2>4. lsq' \in [Slots -> LsqEntry]
    BY <2>1, <2>3, LsqData DEF Shape
  <2>5. done' \in [Slots -> BOOLEAN]
    BY <2>1 DEF Shape, LsqEntry
  <2>6. LiveSlots' = LiveSlots
    BY Still
  <2> QED BY <2>4, <2>5, <2>6 DEF Shape, prf, memory
<1>6. CASE DrainStore
  <2>1. /\ sb # <<>> /\ mem' = [mem EXCEPT ![sb[1].addr] = sb[1].data] /\ sb' = Tail(sb)
        /\ UNCHANGED <<renameVars, code, fpc, ins, done, lsq, prf, iq, ops, ended, rec>>
    BY <1>6 DEF DrainStore
  <2>2. sb[1] \in [addr : Addrs, data : Values]
    <3>1. 1 \in 1 .. Len(sb)
      BY <2>1 DEF Shape
    <3> QED BY <3>1, SbEntry
  <2>3. sb' \in Seq([addr : Addrs, data : Values]) /\ Len(sb') <= SbSize
    BY <2>1, BackendAssumption DEF Shape
  <2>4. mem' \in [Addrs -> Values]
    BY <2>1, <2>2 DEF Shape
  <2>5. LiveSlots' = LiveSlots
    BY <2>1, Still
  <2> QED BY <2>1, <2>3, <2>4, <2>5 DEF Shape, prf
<1>7. CASE Writeback
  <2>1. PICK o : Completes(o)
    BY <1>7, WritebackCompletes
  <2>2. /\ o \in ops /\ LiveSlots' \subseteq LiveSlots /\ ops' \subseteq ops
        /\ UNCHANGED <<code, ins, lsq, sb, mem, ended>>
    BY <2>1 DEF Completes, Squashes, Shrinks, memory
  <2>3. iq' \subseteq QueueEntry /\ IsFiniteSet(iq') /\ Cardinality(iq') <= IqSize
    BY <2>1, QueueWakes DEF Completes
  <2>4. o.slot \in LiveSlots /\ o.value \in Values /\ o.pdst \in Pregs \cup {NoReg}
        /\ o.outcome \in Outcomes
    BY <2>2 DEF Matched, Shape
  <2>5. done' \in [Slots -> BOOLEAN]
    BY <2>1 DEF Completes, Deliver, Shape
  <2>6. val' \in [Pregs -> Values] /\ ready' \in [Pregs -> BOOLEAN]
    BY <2>1, <2>4 DEF Completes, Deliver, Shape
  <2>7. /\ fpc' \in 0 .. LastPc + 1
        /\ fpc' = LastPc + 1 => fpc' = fpc /\ LiveSlots' = LiveSlots
    <3>1. CASE Mispredicted(ins[o.slot], o.outcome)
      <4>1. fpc' = IF o.outcome.taken THEN o.outcome.target ELSE ins[o.slot].pc + 1
        BY <2>1, <3>1 DEF Completes, NextPc
      <4>2. IsBranch(ins[o.slot].I)
        BY <3>1 DEF Mispredicted
      <4>3. ins[o.slot].pc \in Pcs /\ ins[o.slot].I = code[ins[o.slot].pc]
        BY <1>0, <2>4, LiveIns DEF Shape
      <4>4. ins[o.slot].pc # LastPc
        BY <4>2, <4>3, BackendAssumption DEF Shape, IsBranch
      <4>5. fpc' \in Pcs
        BY <2>4, <4>1, <4>3, <4>4, IsaAssumption DEF Outcomes, Pcs
      <4> QED BY <4>5, IsaAssumption DEF Pcs
    <3>2. CASE ~Mispredicted(ins[o.slot], o.outcome)
      BY <2>1, <3>2 DEF Completes, Shape
    <3> QED BY <3>1, <3>2
  <2> QED BY <2>2, <2>3, <2>5, <2>6, <2>7 DEF Shape
<1>8. CASE ended = "no" /\ Commits
  <2>1. Retires
    BY <1>8, CommitRetires
  <2>2. UNCHANGED <<code, fpc, ins, done, lsq, ready, iq, ops, mem>>
        /\ LiveSlots' = LiveSlots \ {robHead} /\ robHead \in Slots /\ robHead \in LiveSlots
    BY <2>1, <1>0 DEF Retires
  <2>3. val' \in [Pregs -> Values]
    BY <2>1 DEF Retires, Shape
  <2>4. sb' \in Seq([addr : Addrs, data : Values]) /\ Len(sb') <= SbSize
    <3>1. lsq[robHead].data \in Values
      BY <2>2 DEF Shape, LsqEntry
    <3>2. CASE sb' = sb
      BY <3>2 DEF Shape
    <3>3. CASE /\ Len(sb) < SbSize /\ lsq[robHead].addr \in Addrs
               /\ sb' = Append(sb, [addr |-> lsq[robHead].addr, data |-> lsq[robHead].data])
      <4>1. [addr |-> lsq[robHead].addr, data |-> lsq[robHead].data]
              \in [addr : Addrs, data : Values]
        BY <3>1, <3>3
      <4>2. sb \in Seq([addr : Addrs, data : Values]) /\ Len(sb) \in Nat
        BY DEF Shape
      <4> QED BY <3>3, <4>1, <4>2, AppendProperties, BackendAssumption
    <3> QED BY <2>1, <3>2, <3>3 DEF Retires
  <2>5. ended' \in {"no", "halted", "failed"}
    BY <2>1 DEF Retires, Shape
  <2>6. fpc' = LastPc + 1 => ended' = "halted" \/ \E s \in LiveSlots' : ins'[s].I.op = "halt"
    <3> SUFFICES ASSUME fpc = LastPc + 1, ended' # "halted"
                 PROVE  \E s \in LiveSlots' : ins[s].I.op = "halt"
      BY <2>2
    <3>1. ended = "no" /\ ins[robHead].I.op # "halt"
      BY <2>1 DEF Retires
    <3> QED BY <2>2, <3>1 DEF Shape
  <2> QED BY <2>2, <2>3, <2>4, <2>5, <2>6 DEF Shape
<1>9. CASE (ended = "no" /\ CommitFault) \/ UNCHANGED backVars
  <2>1. UNCHANGED <<renameVars, code, fpc, ins, done, lsq, prf, iq, ops, memory>>
    BY <1>9 DEF CommitFault, backVars
  <2>2. LiveSlots' = LiveSlots
    BY <2>1, Still
  <2>3. ended' = ended \/ (ended = "no" /\ ended' = "failed")
    BY <1>9 DEF backVars, CommitFault
  <2> QED BY <2>1, <2>2, <2>3 DEF Shape, prf, memory
<1> QED
  BY <1>1, <1>2, <1>3, <1>4, <1>5, <1>6, <1>7, <1>8, <1>9 DEF BackNext, BackStep, Commits
-----------------------------------------------------------------------------
(* Every operation in flight belongs to a live entry: preserved. *)

(* What dispatch leaves of the old entries, and puts in the new one.       *)
LEMMA AdmitsFacts ==
  ASSUME BackInv, NEW new, NEW I, NEW pred, Admits(new, I, pred)
  PROVE  /\ \A s \in LiveSlots :
              /\ s \in LiveSlots' /\ s # new /\ s \in Slots
              /\ rob'[s] = rob[s] /\ ins'[s] = ins[s]
              /\ done'[s] = done[s] /\ lsq'[s] = lsq[s] /\ Before(s)' = Before(s)
         /\ ins'[new] = [pc |-> fpc, I |-> I, pred |-> pred]
         /\ ins'[new].I = I
         /\ done'[new] = IsSystem(I)
         /\ lsq'[new] = IF IsStore(I) THEN StoreSource(map[I.rs2]) ELSE NoLsq
         /\ lsq'[new].addrValid = FALSE
<1> USE DEF BackInv
<1>1. LiveSlots \subseteq Slots
  BY SlotFacts DEF RenameInv, SlotsAre
<1>2. \A s \in LiveSlots : s \in LiveSlots' /\ s # new /\ s \in Slots
  BY <1>1 DEF Admits
<1>3. \A s \in LiveSlots : rob'[s] = rob[s] /\ Before(s)' = Before(s)
  BY <1>2 DEF Admits, Kept
<1>4. new \in Slots
  BY DEF Admits
<1>5. \A s \in Slots : s # new =>
        ins'[s] = ins[s] /\ done'[s] = done[s] /\ lsq'[s] = lsq[s]
  BY DEF Admits, Shape
<1>6. /\ ins'[new] = [pc |-> fpc, I |-> I, pred |-> pred]
      /\ done'[new] = IsSystem(I)
      /\ lsq'[new] = IF IsStore(I) THEN StoreSource(map[I.rs2]) ELSE NoLsq
  BY <1>4 DEF Admits, Shape
<1>8. ins'[new].I = I
  BY <1>6
<1>7. lsq'[new].addrValid = FALSE
  <2>1. NoLsq.addrValid = FALSE
    BY DEF NoLsq
  <2>2. map[I.rs2] \in Pregs
    BY DEF RenameInv, RenameTypeOK, Instructions, Admits
  <2>3. ready[map[I.rs2]] \in BOOLEAN /\ val[map[I.rs2]] \in Values
    BY <2>2 DEF Shape
  <2>4. StoreSource(map[I.rs2]).addrValid = FALSE
    BY <2>2, <2>3, StoreSourceIs
  <2> QED BY <1>6, <2>1, <2>4
<1> QED BY <1>2, <1>3, <1>5, <1>6, <1>7, <1>8

LEMMA AdmitsQueue ==
  ASSUME NEW new, NEW I, NEW pred, Admits(new, I, pred), ~IsSystem(I)
  PROVE  \E q : /\ iq' = iq \cup {q}
                /\ q.seq = seqCtr /\ q.slot = new
                /\ q.ps1 = map[I.rs1] /\ q.ps2 = map[I.rs2]
                /\ q.blocked1 <=> UsesRs1(I) /\ ~ready[map[I.rs1]]
                /\ q.blocked2 <=> UsesRs2(I) /\ ~IsStore(I) /\ ~ready[map[I.rs2]]
<1> DEFINE b1 == UsesRs1(I) /\ ~ready[map[I.rs1]]
           b2 == UsesRs2(I) /\ ~IsStore(I) /\ ~ready[map[I.rs2]]
           q == [seq |-> seqCtr, slot |-> new, ps1 |-> map[I.rs1], ps2 |-> map[I.rs2],
                 blocked1 |-> b1, blocked2 |-> b2]
<1>1. iq' = iq \cup {q}
  BY DEF Admits
<1> HIDE DEF b1, b2
<1>2. /\ q.seq = seqCtr /\ q.slot = new
      /\ q.ps1 = map[I.rs1] /\ q.ps2 = map[I.rs2]
      /\ q.blocked1 = b1 /\ q.blocked2 = b2
  OBVIOUS
<1> HIDE DEF q
<1>3. /\ q.blocked1 <=> UsesRs1(I) /\ ~ready[map[I.rs1]]
      /\ q.blocked2 <=> UsesRs2(I) /\ ~IsStore(I) /\ ~ready[map[I.rs2]]
  BY <1>2 DEF b1, b2
<1> QED BY <1>1, <1>2, <1>3

LEMMA MatchedDispatch ==
  ASSUME BackInv, NEW new, NEW I, NEW pred, Admits(new, I, pred)
  PROVE  Matched'
<1> USE DEF BackInv
<1>1. /\ \A s \in LiveSlots :
              /\ s \in LiveSlots' /\ s # new /\ s \in Slots
              /\ rob'[s] = rob[s] /\ ins'[s] = ins[s]
              /\ done'[s] = done[s] /\ lsq'[s] = lsq[s]
      /\ ins'[new].I = I
      /\ done'[new] = IsSystem(I)
      /\ lsq'[new].addrValid = FALSE
  BY AdmitsFacts
<1>2. \A s \in LiveSlots : Busy(s)' = Busy(s)
  BY <1>1 DEF Busy
<1>3. Busy(new)' <=> ~IsSystem(I)
  BY <1>1 DEF Busy, IsStore, IsSystem
<1>4. LiveSlots' = LiveSlots \cup {new} /\ new \notin LiveSlots /\ ops' = ops
      /\ rob'[new].seq = seqCtr
  BY DEF Admits
<1>5. CASE IsSystem(I)
  <2>1. iq' = iq
    BY <1>5 DEF Admits
  <2> QED BY <1>1, <1>2, <1>3, <1>4, <1>5, <2>1 DEF Matched
<1>6. CASE ~IsSystem(I)
  <2>1. PICK q : iq' = iq \cup {q} /\ q.seq = seqCtr /\ q.slot = new
    BY <1>6, AdmitsQueue
  <2>2. \A x \in iq' : /\ x.slot \in LiveSlots' /\ x.seq = rob'[x.slot].seq /\ Busy(x.slot)'
                       /\ IsLoad(ins'[x.slot].I) => ~lsq'[x.slot].addrValid
    <3>1. ASSUME NEW x \in iq
          PROVE  /\ x.slot \in LiveSlots' /\ x.seq = rob'[x.slot].seq /\ Busy(x.slot)'
                 /\ IsLoad(ins'[x.slot].I) => ~lsq'[x.slot].addrValid
      <4>1. PICK s \in LiveSlots : s = x.slot
        BY DEF Matched
      <4> QED BY <1>1, <1>2, <4>1 DEF Matched
    <3>2. /\ q.slot \in LiveSlots' /\ q.seq = rob'[q.slot].seq
          /\ IsLoad(ins'[q.slot].I) => ~lsq'[q.slot].addrValid
      BY <1>1, <1>4, <2>1
    <3>3. Busy(q.slot)'
      <4>1. PICK s : s = q.slot
        OBVIOUS
      <4> QED BY <1>3, <1>6, <2>1, <4>1
    <3> QED BY <2>1, <3>1, <3>2, <3>3
  <2>3. \A o \in ops' :
       /\ o.slot \in LiveSlots' /\ o.seq = rob'[o.slot].seq /\ Busy(o.slot)'
       /\ o.pdst = rob'[o.slot].pdst
       /\ o.unit = "unit" <=> ~IsMem(ins'[o.slot].I)
       /\ o.unit = "load" => IsLoad(ins'[o.slot].I)
       /\ IsLoad(ins'[o.slot].I) => (lsq'[o.slot].addrValid <=> o.unit = "load")
    <3> SUFFICES ASSUME NEW o \in ops
                 PROVE  /\ o.slot \in LiveSlots' /\ o.seq = rob'[o.slot].seq /\ Busy(o.slot)'
                        /\ o.pdst = rob'[o.slot].pdst
                        /\ o.unit = "unit" <=> ~IsMem(ins'[o.slot].I)
                        /\ o.unit = "load" => IsLoad(ins'[o.slot].I)
                        /\ IsLoad(ins'[o.slot].I) => (lsq'[o.slot].addrValid <=> o.unit = "load")
      BY <1>4
    <3>1. PICK s \in LiveSlots : s = o.slot
      BY DEF Matched
    <3> QED BY <1>1, <1>2, <3>1 DEF Matched
  <2>4. \A x \in iq : x.slot # new
    BY <1>4 DEF Matched
  <2>5. \A x, y \in iq' : x.slot = y.slot => x = y
    BY <2>1, <2>4 DEF Matched
  <2>6. \A x \in iq', o \in ops' : x.slot # o.slot
    BY <1>4, <2>1 DEF Matched
  <2>7. \A o, x \in ops' : o.slot = x.slot => o = x
    BY <1>4 DEF Matched
  <2>8. \A s \in LiveSlots' :
       Busy(s)' => (\E x \in iq' : x.slot = s) \/ (\E o \in ops' : o.slot = s)
    BY <1>2, <1>4, <2>1 DEF Matched
  <2> QED BY <2>2, <2>3, <2>5, <2>6, <2>7, <2>8 DEF Matched
<1> QED BY <1>5, <1>6

(* Nothing is in flight for an entry that is not busy.                     *)
LEMMA IdleWhenDone ==
  ASSUME BackInv, NEW s \in LiveSlots, done[s]
  PROVE  /\ ~Busy(s)
         /\ \A q \in iq : q.slot # s
         /\ \A o \in ops : o.slot # s
BY DEF BackInv, Matched, DoneMeans, Busy

LEMMA MatchedIssue ==
  ASSUME BackInv, Issue
  PROVE  Matched'
<1> USE DEF BackInv
<1>0. LiveSlots' = LiveSlots /\ rob' = rob /\ ins' = ins /\ done' = done /\ lsq' = lsq
  BY Still DEF Issue, renameVars
<1>1. \A s : Busy(s)' = Busy(s)
  BY <1>0 DEF Busy
<1>2. PICK q \in iq : /\ iq' = iq \ {q}
                      /\ \E o : /\ ops' = ops \cup {o}
                                /\ o.seq = q.seq /\ o.slot = q.slot
                                /\ o.pdst = rob[q.slot].pdst
                                /\ o.unit = IF IsMem(ins[q.slot].I) THEN "agu" ELSE "unit"
  <2>1. PICK q \in iq :
          /\ iq' = iq \ {q}
          /\ LET e == ins[q.slot]
                 x == Execute(e.I, e.pc, val[q.ps1], val[q.ps2])
             IN  ops' = ops \cup
                   {[seq |-> q.seq, slot |-> q.slot, pdst |-> rob[q.slot].pdst,
                     unit |-> IF IsMem(e.I) THEN "agu" ELSE "unit", value |-> x.value,
                     outcome |-> [taken |-> x.redirect, target |-> x.target]]}
    BY DEF Issue
  <2>2. PICK x : x = Execute(ins[q.slot].I, ins[q.slot].pc, val[q.ps1], val[q.ps2])
    OBVIOUS
  <2> DEFINE o == [seq |-> q.seq, slot |-> q.slot, pdst |-> rob[q.slot].pdst,
                   unit |-> IF IsMem(ins[q.slot].I) THEN "agu" ELSE "unit", value |-> x.value,
                   outcome |-> [taken |-> x.redirect, target |-> x.target]]
  <2>3. ops' = ops \cup {o}
    BY <2>1, <2>2
  <2>4. /\ o.seq = q.seq /\ o.slot = q.slot /\ o.pdst = rob[q.slot].pdst
        /\ o.unit = IF IsMem(ins[q.slot].I) THEN "agu" ELSE "unit"
    OBVIOUS
  <2> HIDE DEF o
  <2> QED BY <2>1, <2>3, <2>4
<1>3. PICK o : /\ ops' = ops \cup {o}
               /\ o.seq = q.seq /\ o.slot = q.slot
               /\ o.pdst = rob[q.slot].pdst
               /\ o.unit = IF IsMem(ins[q.slot].I) THEN "agu" ELSE "unit"
  BY <1>2
<1>4. \A x \in ops : x.slot # q.slot
  BY DEF Matched
<1>5. \A x \in iq' : x.slot # q.slot
  BY <1>2 DEF Matched
<1>6. \A x \in iq' :
        /\ x.slot \in LiveSlots' /\ x.seq = rob'[x.slot].seq /\ Busy(x.slot)'
        /\ IsLoad(ins'[x.slot].I) => ~lsq'[x.slot].addrValid
  <2> SUFFICES ASSUME NEW x \in iq, NEW s \in LiveSlots, s = x.slot
               PROVE  /\ x.slot \in LiveSlots' /\ x.seq = rob'[x.slot].seq /\ Busy(x.slot)'
                      /\ IsLoad(ins'[x.slot].I) => ~lsq'[x.slot].addrValid
    BY <1>2 DEF Matched
  <2>1. Busy(x.slot)' = Busy(s)
    BY <1>0 DEF Busy
  <2> QED BY <1>0, <2>1 DEF Matched
<1>7. \A x \in ops' :
       /\ x.slot \in LiveSlots' /\ x.seq = rob'[x.slot].seq /\ Busy(x.slot)'
       /\ x.pdst = rob'[x.slot].pdst
       /\ x.unit = "unit" <=> ~IsMem(ins'[x.slot].I)
       /\ x.unit = "load" => IsLoad(ins'[x.slot].I)
       /\ IsLoad(ins'[x.slot].I) => (lsq'[x.slot].addrValid <=> x.unit = "load")
  <2> SUFFICES ASSUME NEW x \in ops'
               PROVE  /\ x.slot \in LiveSlots /\ x.seq = rob[x.slot].seq /\ Busy(x.slot)
                      /\ x.pdst = rob[x.slot].pdst
                      /\ x.unit = "unit" <=> ~IsMem(ins[x.slot].I)
                      /\ x.unit = "load" => IsLoad(ins[x.slot].I)
                      /\ IsLoad(ins[x.slot].I) => (lsq[x.slot].addrValid <=> x.unit = "load")
    BY <1>0 DEF Busy
  <2>1. CASE x = o
    <3>1. q.slot \in LiveSlots /\ q.seq = rob[q.slot].seq /\ Busy(q.slot)
          /\ (IsLoad(ins[q.slot].I) => ~lsq[q.slot].addrValid)
      BY DEF Matched
    <3> QED BY <1>3, <2>1, <3>1
  <2>2. CASE x \in ops
    BY <2>2 DEF Matched
  <2> QED BY <1>3, <2>1, <2>2
<1>8. \A x, y \in iq' : x.slot = y.slot => x = y
  BY <1>2 DEF Matched
<1>9. \A x, y \in ops' : x.slot = y.slot => x = y
  BY <1>3, <1>4 DEF Matched
<1>10. \A x \in iq', y \in ops' : x.slot # y.slot
  BY <1>2, <1>3, <1>5 DEF Matched
<1>11. ASSUME NEW s \in LiveSlots', Busy(s)'
       PROVE  (\E x \in iq' : x.slot = s) \/ (\E x \in ops' : x.slot = s)
  <2>1. (\E x \in iq : x.slot = s) \/ (\E x \in ops : x.slot = s)
    BY <1>0, <1>1, <1>11 DEF Matched
  <2> QED BY <1>2, <1>3, <2>1
<1> QED BY <1>6, <1>7, <1>8, <1>9, <1>10, <1>11 DEF Matched

LEMMA MatchedAccess ==
  ASSUME BackInv, AccessLoad
  PROVE  Matched'
<1> USE DEF BackInv
<1>1. PICK o \in ops, k \in Ages :
    /\ o.unit = "agu" /\ IsLoad(ins[o.slot].I) /\ o.slot = Slot(k)
    /\ lsq' = [lsq EXCEPT ![o.slot].addrValid = TRUE, ![o.slot].addr = o.value]
    /\ ops' = (ops \ {o}) \cup {[o EXCEPT !.unit = "load", !.value = LoadValue(k, o.value)]}
    /\ UNCHANGED <<renameVars, code, fpc, ins, done, prf, iq, memory, ended, rec>>
  BY DEF AccessLoad
<1>2. LiveSlots' = LiveSlots /\ rob' = rob /\ ins' = ins /\ done' = done /\ iq' = iq
  BY <1>1, Still DEF renameVars
<1>3. PICK s \in LiveSlots : s = o.slot /\ s \in Slots
  BY <1>1, SlotFacts DEF Matched, SlotsAre, RenameInv
<1>4. /\ \A t \in Slots : t # s => lsq'[t] = lsq[t]
      /\ lsq'[s].addrValid = TRUE
  BY <1>1, <1>3, LsqAddr DEF Shape
<1>5. LiveSlots \subseteq Slots
  BY SlotFacts DEF SlotsAre, RenameInv
<1>6. \A t \in LiveSlots : Busy(t)' = Busy(t)
  <2>1. ~IsStore(ins[s].I)
    BY <1>1, <1>3 DEF IsLoad, IsStore
  <2> QED BY <1>2, <1>4, <1>5, <2>1 DEF Busy
<1>7. PICK x : /\ x = [o EXCEPT !.unit = "load", !.value = LoadValue(k, o.value)]
               /\ x.slot = s /\ x.seq = o.seq /\ x.pdst = o.pdst /\ x.unit = "load"
  <2> DEFINE x == [o EXCEPT !.unit = "load", !.value = LoadValue(k, o.value)]
  <2>1. o \in [seq : Nat, slot : Slots, pdst : Pregs \cup {NoReg},
               unit : {"unit", "agu", "load"}, value : Values, outcome : Outcomes]
    BY DEF Shape
  <2>2. x.slot = o.slot /\ x.seq = o.seq /\ x.pdst = o.pdst /\ x.unit = "load"
    BY <2>1
  <2> QED BY <1>3, <2>2
<1>8. ops' = (ops \ {o}) \cup {x}
  BY <1>1, <1>7
<1>9. \A y \in ops' : y # x => y \in ops /\ y.slot # s
  BY <1>3, <1>8 DEF Matched
<1>10. \A y \in iq' : y \in iq /\ y.slot # s
  BY <1>2, <1>3 DEF Matched
<1>11. ASSUME NEW y \in iq'
       PROVE  /\ y.slot \in LiveSlots' /\ y.seq = rob'[y.slot].seq /\ Busy(y.slot)'
              /\ IsLoad(ins'[y.slot].I) => ~lsq'[y.slot].addrValid
  <2>1. PICK t \in LiveSlots : t = y.slot /\ t # s /\ y \in iq
    BY <1>10 DEF Matched
  <2> QED BY <1>2, <1>4, <1>5, <1>6, <2>1 DEF Matched
<1>12. ASSUME NEW y \in ops'
       PROVE  /\ y.slot \in LiveSlots' /\ y.seq = rob'[y.slot].seq /\ Busy(y.slot)'
              /\ y.pdst = rob'[y.slot].pdst
              /\ y.unit = "unit" <=> ~IsMem(ins'[y.slot].I)
              /\ y.unit = "load" => IsLoad(ins'[y.slot].I)
              /\ IsLoad(ins'[y.slot].I) => (lsq'[y.slot].addrValid <=> y.unit = "load")
  <2>1. CASE y = x
    <3>1. IsLoad(ins[s].I) /\ IsMem(ins[s].I)
      BY <1>1, <1>3 DEF IsLoad, IsMem
    <3>2. o.seq = rob[s].seq /\ o.pdst = rob[s].pdst /\ Busy(s)
      BY <1>3 DEF Matched
    <3> QED BY <1>2, <1>4, <1>6, <1>7, <2>1, <3>1, <3>2
  <2>2. CASE y # x
    <3>1. PICK t \in LiveSlots : t = y.slot /\ t # s /\ y \in ops
      BY <1>9, <2>2 DEF Matched
    <3> QED BY <1>2, <1>4, <1>5, <1>6, <3>1 DEF Matched
  <2> QED BY <2>1, <2>2
<1>13. \A y, z \in iq' : y.slot = z.slot => y = z
  BY <1>2 DEF Matched
<1>14. \A y, z \in ops' : y.slot = z.slot => y = z
  BY <1>7, <1>9 DEF Matched
<1>15. \A y \in iq', z \in ops' : y.slot # z.slot
  <2>1. ASSUME NEW y \in iq', NEW z \in ops' PROVE y.slot # z.slot
    <3>1. y \in iq /\ y.slot # s
      BY <1>10
    <3>2. CASE z = x
      BY <1>7, <3>1, <3>2
    <3>3. CASE z # x
      BY <1>9, <3>1, <3>3 DEF Matched
    <3> QED BY <3>2, <3>3
  <2> QED BY <2>1
<1>16. ASSUME NEW t \in LiveSlots', Busy(t)'
       PROVE  (\E y \in iq' : y.slot = t) \/ (\E y \in ops' : y.slot = t)
  <2>1. (\E y \in iq : y.slot = t) \/ (\E y \in ops : y.slot = t)
    BY <1>2, <1>6, <1>16 DEF Matched
  <2> QED BY <1>2, <1>3, <1>7, <1>8, <2>1
<1> QED BY <1>11, <1>12, <1>13, <1>14, <1>15, <1>16 DEF Matched

(* A step that takes the finished operation o, of entry s, out of the      *)
(* units, and with it the work of the entries that leave.                  *)
LEMMA MatchedFinish ==
  ASSUME BackInv, NEW o \in ops, NEW s, s = o.slot,
         LiveSlots' \subseteq LiveSlots, Kept, ins' = ins,
         ops' = {x \in ops : x.slot \in LiveSlots'} \ {o},
         \A w \in iq' : \E q \in iq : w.slot = q.slot /\ w.seq = q.seq,
         \A w \in iq' : w.slot \in LiveSlots',
         \A q \in iq : q.slot \in LiveSlots' => \E w \in iq' : w.slot = q.slot,
         \A w, x \in iq' : w.slot = x.slot => w = x,
         \A t \in LiveSlots' : t # s => done'[t] = done[t] /\ lsq'[t] = lsq[t],
         s \in LiveSlots' => ~Busy(s)'
  PROVE  Matched'
<1> USE DEF BackInv
<1>1. \A t \in LiveSlots' : t # s => Busy(t)' = Busy(t)
  BY DEF Busy
<1>2. \A t \in LiveSlots' : rob'[t] = rob[t]
  BY DEF Kept
<1>3. \A w \in iq' : w.slot # s
  BY DEF Matched
<1>4. \A x \in ops' : x \in ops /\ x.slot \in LiveSlots' /\ x.slot # s
  BY DEF Matched
<1>5. ASSUME NEW w \in iq'
      PROVE  /\ w.slot \in LiveSlots' /\ w.seq = rob'[w.slot].seq /\ Busy(w.slot)'
             /\ IsLoad(ins'[w.slot].I) => ~lsq'[w.slot].addrValid
  <2>1. PICK t \in LiveSlots' : t = w.slot /\ t # s
    BY <1>3
  <2>2. PICK q \in iq : q.slot = t /\ q.seq = w.seq
    BY <2>1
  <2>3. q.seq = rob[t].seq /\ Busy(t) /\ (IsLoad(ins[t].I) => ~lsq[t].addrValid)
    BY <2>2 DEF Matched
  <2> QED BY <1>1, <1>2, <2>1, <2>2, <2>3
<1>6. ASSUME NEW x \in ops'
      PROVE  /\ x.slot \in LiveSlots' /\ x.seq = rob'[x.slot].seq /\ Busy(x.slot)'
             /\ x.pdst = rob'[x.slot].pdst
             /\ x.unit = "unit" <=> ~IsMem(ins'[x.slot].I)
             /\ x.unit = "load" => IsLoad(ins'[x.slot].I)
             /\ IsLoad(ins'[x.slot].I) => (lsq'[x.slot].addrValid <=> x.unit = "load")
  <2>1. PICK t \in LiveSlots' : t = x.slot /\ t # s /\ x \in ops
    BY <1>4
  <2>2. /\ x.seq = rob[t].seq /\ Busy(t) /\ x.pdst = rob[t].pdst
        /\ x.unit = "unit" <=> ~IsMem(ins[t].I)
        /\ x.unit = "load" => IsLoad(ins[t].I)
        /\ IsLoad(ins[t].I) => (lsq[t].addrValid <=> x.unit = "load")
    BY <2>1 DEF Matched
  <2> QED BY <1>1, <1>2, <2>1, <2>2
<1>7. \A y, z \in ops' : y.slot = z.slot => y = z
  BY DEF Matched
<1>8. \A y \in iq', z \in ops' : y.slot # z.slot
  BY <1>4 DEF Matched
<1>9. ASSUME NEW t \in LiveSlots', Busy(t)'
      PROVE  (\E y \in iq' : y.slot = t) \/ (\E y \in ops' : y.slot = t)
  <2>1. t # s /\ Busy(t) /\ t \in LiveSlots
    BY <1>1, <1>9
  <2>2. (\E y \in iq : y.slot = t) \/ (\E y \in ops : y.slot = t)
    BY <2>1 DEF Matched
  <2> QED BY <2>1, <2>2
<1> QED BY <1>5, <1>6, <1>7, <1>8, <1>9 DEF Matched

LEMMA MatchedNext ==
  ASSUME BackInv, RenameInv', [BackNext]_backVars
  PROVE  Matched'
<1> USE DEF BackInv
<1>0. LiveSlots \subseteq Slots /\ SlotsAre
  BY SlotFacts DEF RenameInv, SlotsAre
<1>1. CASE ended = "no" /\ Dispatch
  BY <1>1, DispatchAdmits, MatchedDispatch
<1>2. CASE Issue
  BY <1>2, MatchedIssue
<1>3. CASE AccessLoad
  BY <1>3, MatchedAccess
<1>4. CASE ResolveStore
  <2>1. PICK o : Resolves(o)
    BY <1>4, ResolveResolves
  <2>2. PICK s \in Slots : s = o.slot
    BY <2>1, <1>0 DEF Resolves, Matched
  <2>3. /\ o \in ops /\ LiveSlots' \subseteq LiveSlots /\ Kept /\ ins' = ins
        /\ iq' = {q \in iq : q.slot \in LiveSlots'}
        /\ ops' = {x \in ops : x.slot \in LiveSlots'} \ {o}
        /\ lsq' = [lsq EXCEPT ![s].addrValid = TRUE, ![s].addr = o.value]
        /\ done' = [done EXCEPT ![s] = lsq[s].dataReady]
        /\ IsStore(ins[s].I)
    BY <2>1, <2>2 DEF Resolves, Squashes, Shrinks
  <2>4. /\ \A t \in Slots : t # s => lsq'[t] = lsq[t]
        /\ lsq'[s].addrValid = TRUE
    BY <2>3, LsqAddr DEF Shape
  <2>5. \A t \in LiveSlots' : t # s => done'[t] = done[t] /\ lsq'[t] = lsq[t]
    BY <1>0, <2>3, <2>4 DEF Shape
  <2>6. ~Busy(s)'
    BY <2>3, <2>4 DEF Busy
  <2>7. \A w, x \in iq' : w.slot = x.slot => w = x
    BY <2>3 DEF Matched
  <2> QED BY <2>2, <2>3, <2>5, <2>6, <2>7, MatchedFinish
<1>5. CASE CaptureStoreData
  <2>1. PICK k, s : k \in Ages /\ s = Slot(k) /\ IsStore(Ins(k).I)
                 /\ lsq' = [lsq EXCEPT ![s].dataReady = TRUE, ![s].data = val[lsq[s].preg]]
                 /\ done' = [done EXCEPT ![s] = lsq[s].addrValid]
                 /\ UNCHANGED <<renameVars, ins, iq, ops>>
    BY <1>5 DEF CaptureStoreData
  <2>2. s \in LiveSlots /\ s \in Slots /\ IsStore(ins[s].I)
    BY <1>0, <2>1 DEF LiveSlots, SlotsAre, Ins
  <2>3. \A t \in Slots : lsq'[t].addrValid = lsq[t].addrValid
    BY <2>1, <2>2 DEF Shape, LsqEntry
  <2>4. \A t \in Slots : t # s => done'[t] = done[t]
    BY <2>1 DEF Shape
  <2>5. \A t \in LiveSlots : Busy(t)' = Busy(t)
    BY <1>0, <2>1, <2>2, <2>3, <2>4 DEF Busy
  <2>6. LiveSlots' = LiveSlots /\ rob' = rob
    BY <2>1, Still DEF renameVars
  <2>7. ASSUME NEW x \in iq'
        PROVE  /\ x.slot \in LiveSlots' /\ x.seq = rob'[x.slot].seq /\ Busy(x.slot)'
               /\ IsLoad(ins'[x.slot].I) => ~lsq'[x.slot].addrValid
    <3>1. PICK t \in LiveSlots : t = x.slot /\ x \in iq
      BY <2>1 DEF Matched
    <3> QED BY <1>0, <2>1, <2>3, <2>5, <2>6, <3>1 DEF Matched
  <2>8. ASSUME NEW x \in ops'
        PROVE  /\ x.slot \in LiveSlots' /\ x.seq = rob'[x.slot].seq /\ Busy(x.slot)'
               /\ x.pdst = rob'[x.slot].pdst
               /\ x.unit = "unit" <=> ~IsMem(ins'[x.slot].I)
               /\ x.unit = "load" => IsLoad(ins'[x.slot].I)
               /\ IsLoad(ins'[x.slot].I) => (lsq'[x.slot].addrValid <=> x.unit = "load")
    <3>1. PICK t \in LiveSlots : t = x.slot /\ x \in ops
      BY <2>1 DEF Matched
    <3> QED BY <1>0, <2>1, <2>3, <2>5, <2>6, <3>1 DEF Matched
  <2>9. \A t \in LiveSlots' :
          Busy(t)' => (\E y \in iq' : y.slot = t) \/ (\E y \in ops' : y.slot = t)
    BY <2>1, <2>5, <2>6 DEF Matched
  <2> QED BY <2>1, <2>7, <2>8, <2>9 DEF Matched
<1>6. CASE Writeback
  <2>1. PICK o : Completes(o)
    BY <1>6, WritebackCompletes
  <2>2. PICK s \in Slots : s = o.slot
    BY <2>1, <1>0 DEF Completes, Matched
  <2>3. /\ o \in ops /\ LiveSlots' \subseteq LiveSlots /\ Kept /\ ins' = ins
        /\ iq' = {q \in Woken(o) : q.slot \in LiveSlots'}
        /\ ops' = {x \in ops : x.slot \in LiveSlots'} \ {o}
        /\ lsq' = lsq
        /\ done' = [done EXCEPT ![s] = TRUE]
        /\ o.unit # "agu"
    BY <2>1, <2>2 DEF Completes, Squashes, Shrinks, Deliver
  <2>4. \A t \in LiveSlots' : t # s => done'[t] = done[t] /\ lsq'[t] = lsq[t]
    BY <1>0, <2>3 DEF Shape
  <2>5. ~Busy(s)'
    <3>1. ~IsStore(ins[s].I)
      <4>1. o.unit \in {"unit", "load"}
        BY <2>3 DEF Shape
      <4> QED BY <2>2, <2>3, <4>1 DEF Matched, IsStore, IsLoad, IsMem
    <3>2. done'[s] = TRUE
      BY <2>3 DEF Shape
    <3> QED BY <2>3, <3>1, <3>2 DEF Busy
  <2>6. /\ \A w \in iq' : \E q \in iq : w.slot = q.slot /\ w.seq = q.seq
        /\ \A q \in iq : q.slot \in LiveSlots' => \E w \in iq' : w.slot = q.slot
        /\ \A w, x \in iq' : w.slot = x.slot => w = x
    <3>1. CASE o.pdst = NoReg
      <4>1. iq' = {q \in iq : q.slot \in LiveSlots'}
        BY <2>3, <3>1 DEF Woken
      <4> QED BY <4>1 DEF Matched
    <3>2. CASE o.pdst # NoReg
      <4>1. \A q \in iq : Wake(q, o.pdst).slot = q.slot /\ Wake(q, o.pdst).seq = q.seq
        BY WakeIs DEF Shape
      <4>2. \A w \in iq' : \E q \in iq : w = Wake(q, o.pdst)
        BY <2>3, <3>2 DEF Woken
      <4>3. \A q \in iq : q.slot \in LiveSlots' => Wake(q, o.pdst) \in iq'
        BY <2>3, <3>2, <4>1 DEF Woken
      <4>4. \A q, x \in iq : q.slot = x.slot => q = x
        BY DEF Matched
      <4> QED BY <4>1, <4>2, <4>3, <4>4
    <3> QED BY <3>1, <3>2
  <2> QED BY <2>2, <2>3, <2>4, <2>5, <2>6, MatchedFinish
<1>7. CASE ended = "no" /\ Commits
  <2>1. Retires
    BY <1>7, CommitRetires
  <2>2. /\ LiveSlots' = LiveSlots \ {robHead} /\ robHead \in LiveSlots /\ done[robHead]
        /\ UNCHANGED <<ins, done, lsq, iq, ops>> /\ rob' = rob
    BY <2>1 DEF Retires, RenameCommit
  <2>3. (\A q \in iq : q.slot # robHead) /\ (\A o \in ops : o.slot # robHead)
    BY <2>2, IdleWhenDone
  <2>4. \A t : Busy(t)' = Busy(t)
    BY <2>2 DEF Busy
  <2>5. ASSUME NEW x \in iq
        PROVE  x.slot \in LiveSlots' /\ Busy(x.slot)'
    BY <2>2, <2>3 DEF Matched, Busy
  <2>6. ASSUME NEW x \in ops
        PROVE  x.slot \in LiveSlots' /\ Busy(x.slot)'
    BY <2>2, <2>3 DEF Matched, Busy
  <2>7. \A t \in LiveSlots' :
          Busy(t)' => (\E y \in iq' : y.slot = t) \/ (\E y \in ops' : y.slot = t)
    BY <2>2, <2>4 DEF Matched
  <2> QED BY <2>2, <2>5, <2>6, <2>7 DEF Matched
<1>8. CASE DrainStore \/ CommitFault \/ UNCHANGED backVars
  <2>1. UNCHANGED <<renameVars, ins, done, lsq, iq, ops>>
    BY <1>8 DEF DrainStore, CommitFault, backVars
  <2>2. LiveSlots' = LiveSlots /\ rob' = rob
    BY <2>1, Still DEF renameVars
  <2> QED BY <2>1, <2>2 DEF Matched, Busy
<1> QED
  BY <1>1, <1>2, <1>3, <1>4, <1>5, <1>6, <1>7, <1>8 DEF BackNext, BackStep, Commits
-----------------------------------------------------------------------------
(* Entries and their state: preserved. *)

LEMMA DoneMeansNext ==
  ASSUME BackInv, RenameInv', [BackNext]_backVars
  PROVE  DoneMeans'
<1> USE DEF BackInv
<1>0. LiveSlots \subseteq Slots /\ SlotsAre
  BY SlotFacts DEF RenameInv, SlotsAre
<1>1. CASE ended = "no" /\ Dispatch
  <2>1. PICK new, I, pred : Admits(new, I, pred)
    BY <1>1, DispatchAdmits
  <2>2. LiveSlots' = LiveSlots \cup {new}
    BY <2>1 DEF Admits
  <2>3. ASSUME NEW s \in LiveSlots
        PROVE  /\ IsStore(ins'[s].I) => (done'[s] <=> lsq'[s].addrValid /\ lsq'[s].dataReady)
               /\ IsLoad(ins'[s].I) /\ done'[s] => lsq'[s].addrValid
               /\ IsSystem(ins'[s].I) => done'[s]
    BY <2>1, AdmitsFacts DEF DoneMeans
  <2>4. /\ IsStore(ins'[new].I) => (done'[new] <=> lsq'[new].addrValid /\ lsq'[new].dataReady)
        /\ IsLoad(ins'[new].I) /\ done'[new] => lsq'[new].addrValid
        /\ IsSystem(ins'[new].I) => done'[new]
    <3>1. ins'[new].I = I /\ done'[new] = IsSystem(I) /\ lsq'[new].addrValid = FALSE
      BY <2>1, AdmitsFacts
    <3> QED BY <3>1 DEF IsStore, IsLoad, IsSystem
  <2> QED BY <2>2, <2>3, <2>4 DEF DoneMeans
<1>2. CASE AccessLoad
  <2>1. PICK o \in ops :
      /\ IsLoad(ins[o.slot].I)
      /\ lsq' = [lsq EXCEPT ![o.slot].addrValid = TRUE, ![o.slot].addr = o.value]
      /\ UNCHANGED <<renameVars, ins, done>>
    BY <1>2 DEF AccessLoad
  <2>2. PICK s \in Slots : s = o.slot
    BY <1>0 DEF Matched
  <2>3. /\ \A t \in Slots : t # s => lsq'[t] = lsq[t]
        /\ lsq'[s].addrValid = TRUE
    BY <2>1, <2>2, LsqAddr DEF Shape
  <2>4. LiveSlots' = LiveSlots
    BY <2>1, Still
  <2>5. ~IsStore(ins[s].I) /\ ~IsSystem(ins[s].I)
    BY <2>1, <2>2 DEF IsLoad, IsStore, IsSystem
  <2> QED BY <1>0, <2>1, <2>2, <2>3, <2>4, <2>5 DEF DoneMeans
<1>3. CASE ResolveStore
  <2>1. PICK o : Resolves(o)
    BY <1>3, ResolveResolves
  <2>2. PICK s \in Slots : s = o.slot
    BY <2>1, <1>0 DEF Resolves, Matched
  <2>3. /\ LiveSlots' \subseteq LiveSlots /\ ins' = ins
        /\ lsq' = [lsq EXCEPT ![s].addrValid = TRUE, ![s].addr = o.value]
        /\ done' = [done EXCEPT ![s] = lsq[s].dataReady]
        /\ IsStore(ins[s].I)
        /\ o \in ops
    BY <2>1, <2>2 DEF Resolves, Squashes, Shrinks
  <2>4. /\ \A t \in Slots : t # s => lsq'[t] = lsq[t] /\ done'[t] = done[t]
        /\ lsq'[s].addrValid = TRUE /\ lsq'[s].dataReady = lsq[s].dataReady
        /\ done'[s] = lsq[s].dataReady
    BY <2>3, LsqAddr DEF Shape
  <2>5. ~IsLoad(ins[s].I) /\ ~IsSystem(ins[s].I)
    BY <2>3 DEF IsLoad, IsStore, IsSystem
  <2> QED BY <1>0, <2>3, <2>4, <2>5 DEF DoneMeans
<1>4. CASE CaptureStoreData
  <2>1. PICK k, s : k \in Ages /\ s = Slot(k) /\ IsStore(Ins(k).I)
                 /\ lsq' = [lsq EXCEPT ![s].dataReady = TRUE, ![s].data = val[lsq[s].preg]]
                 /\ done' = [done EXCEPT ![s] = lsq[s].addrValid]
                 /\ UNCHANGED <<renameVars, ins>>
    BY <1>4 DEF CaptureStoreData
  <2>2. s \in Slots /\ IsStore(ins[s].I)
    BY <1>0, <2>1 DEF SlotsAre, Ins
  <2>3. /\ \A t \in Slots : t # s => lsq'[t] = lsq[t] /\ done'[t] = done[t]
        /\ lsq'[s].addrValid = lsq[s].addrValid /\ lsq'[s].dataReady = TRUE
        /\ done'[s] = lsq[s].addrValid
    BY <2>1, <2>2 DEF Shape, LsqEntry
  <2>4. ~IsLoad(ins[s].I) /\ ~IsSystem(ins[s].I)
    BY <2>2 DEF IsLoad, IsStore, IsSystem
  <2>5. LiveSlots' = LiveSlots
    BY <2>1, Still
  <2> QED BY <1>0, <2>1, <2>3, <2>4, <2>5 DEF DoneMeans
<1>5. CASE Writeback
  <2>1. PICK o : Completes(o)
    BY <1>5, WritebackCompletes
  <2>2. PICK s \in LiveSlots : s = o.slot
    BY <2>1 DEF Completes, Matched
  <2>3. /\ LiveSlots' \subseteq LiveSlots /\ ins' = ins /\ lsq' = lsq
        /\ done' = [done EXCEPT ![s] = TRUE]
        /\ o \in ops /\ o.unit \in {"unit", "load"}
    BY <2>1, <2>2 DEF Completes, Squashes, Shrinks, Deliver, Shape
  <2>4. \A t \in LiveSlots : t # s => done'[t] = done[t]
    BY <1>0, <2>3 DEF Shape
  <2>5. ~IsStore(ins[s].I) /\ (IsLoad(ins[s].I) => lsq[s].addrValid)
    BY <2>2, <2>3 DEF Matched, IsStore, IsLoad, IsMem
  <2>6. done'[s] = TRUE
    BY <1>0, <2>3 DEF Shape
  <2> QED BY <2>3, <2>4, <2>5, <2>6 DEF DoneMeans
<1>6. CASE ended = "no" /\ Commits
  <2>1. Retires
    BY <1>6, CommitRetires
  <2> QED BY <2>1 DEF Retires, DoneMeans
<1>7. CASE Issue \/ DrainStore \/ CommitFault \/ UNCHANGED backVars
  <2>1. UNCHANGED <<renameVars, ins, done, lsq>>
    BY <1>7 DEF Issue, DrainStore, CommitFault, backVars
  <2> QED BY <2>1, Still DEF DoneMeans
<1> QED
  BY <1>1, <1>2, <1>3, <1>4, <1>5, <1>6, <1>7 DEF BackNext, BackStep, Commits

(* Every step but a dispatch leaves the entries that stay as they are.     *)
LEMMA OtherSteps ==
  ASSUME BackInv, RenameInv', [BackNext]_backVars, ~(ended = "no" /\ Dispatch)
  PROVE  Shrinks /\ UNCHANGED <<code, ins>>
<1> USE DEF BackInv
<1>1. CASE ResolveStore
  BY <1>1, ResolveResolves DEF Resolves, Squashes
<1>2. CASE Writeback
  BY <1>2, WritebackCompletes DEF Completes, Squashes
<1>3. CASE ended = "no" /\ Commits
  BY <1>3, CommitRetires DEF Retires
<1>4. CASE Issue \/ AccessLoad \/ CaptureStoreData \/ DrainStore \/ CommitFault
           \/ UNCHANGED backVars
  <2>1. UNCHANGED <<renameVars, code, ins>>
    BY <1>4 DEF Issue, AccessLoad, CaptureStoreData, DrainStore, CommitFault, backVars
  <2> QED BY <2>1, StillSquashes DEF Squashes
<1> QED BY <1>1, <1>2, <1>3, <1>4 DEF BackNext, BackStep, Commits

LEMMA DestsNext ==
  ASSUME BackInv, RenameInv', [BackNext]_backVars
  PROVE  Dests'
<1> USE DEF BackInv
<1>1. CASE ended = "no" /\ Dispatch
  <2>1. PICK new, I, pred : Admits(new, I, pred)
    BY <1>1, DispatchAdmits
  <2>2. /\ \A s \in LiveSlots : rob'[s] = rob[s] /\ ins'[s] = ins[s]
        /\ ins'[new].I = I
    BY <2>1, AdmitsFacts
  <2>3. LiveSlots' = LiveSlots \cup {new}
    BY <2>1 DEF Admits
  <2>4. rob'[new].pdst # NoReg <=> WritesRd(I) /\ I.rd # 0
    <3>1. CASE WritesRd(I) /\ I.rd # 0
      <4>1. rob'[new].pdst \in freeList
        BY <2>1, <3>1 DEF Admits
      <4>2. NoReg \notin Pregs
        BY RenameAssumption DEF Pregs, NoReg
      <4> QED BY <3>1, <4>1, <4>2 DEF RenameInv, RenameTypeOK
    <3>2. CASE ~(WritesRd(I) /\ I.rd # 0)
      BY <2>1, <3>2 DEF Admits
    <3> QED BY <3>1, <3>2
  <2>5. rob'[new].pdst # NoReg => rob'[new].rd = I.rd
    BY <2>1, <2>4 DEF Admits
  <2> QED BY <2>2, <2>3, <2>4, <2>5 DEF Dests
<1>2. CASE ~(ended = "no" /\ Dispatch)
  <2>1. Shrinks /\ UNCHANGED <<code, ins>>
    BY <1>2, OtherSteps
  <2> QED BY <2>1 DEF Shrinks, Kept, Dests
<1> QED BY <1>1, <1>2

LEMMA SystemsAloneNext ==
  ASSUME BackInv, RenameInv', [BackNext]_backVars
  PROVE  SystemsAlone'
<1> USE DEF BackInv
<1>1. CASE ended = "no" /\ Dispatch
  <2>1. PICK new, I, pred : Admits(new, I, pred)
    BY <1>1, DispatchAdmits
  <2>2. /\ \A s \in LiveSlots : ins'[s] = ins[s]
        /\ ins'[new].I = I
    BY <2>1, AdmitsFacts
  <2>3. LiveSlots' = LiveSlots \cup {new} /\ sb' = sb
    BY <2>1 DEF Admits, memory
  <2>4. \A s \in LiveSlots : ~IsSystem(ins[s].I)
    BY <2>1 DEF Admits, MayDispatch, LiveSlots, Ins
  <2>5. IsSystem(I) => LiveSlots = {} /\ sb = <<>>
    BY <2>1 DEF Admits, MayDispatch, Drained, LiveSlots, Ages
  <2> QED BY <2>2, <2>3, <2>4, <2>5 DEF SystemsAlone
<1>2. CASE ~(ended = "no" /\ Dispatch)
  <2>1. LiveSlots' \subseteq LiveSlots /\ ins' = ins
    BY <1>2, OtherSteps DEF Shrinks
  <2>2. CASE ended = "no" /\ Commits
    <3>1. Retires
      BY <2>2, CommitRetires
    <3>2. CASE sb' = sb
      BY <2>1, <3>2 DEF SystemsAlone
    <3>3. CASE IsStore(ins[robHead].I)
      <4>1. ASSUME NEW s \in LiveSlots', IsSystem(ins[s].I) PROVE FALSE
        <5>1. s \in LiveSlots /\ robHead \in LiveSlots /\ s # robHead
          BY <3>1 DEF Retires
        <5> QED BY <4>1, <5>1 DEF SystemsAlone
      <4> QED BY <2>1, <4>1 DEF SystemsAlone
    <3> QED BY <3>1, <3>2, <3>3 DEF Retires
  <2>3. CASE DrainStore
    <3>1. sb # <<>>
      BY <2>3 DEF DrainStore
    <3> QED BY <2>1, <3>1 DEF SystemsAlone
  <2>4. CASE ~(ended = "no" /\ Commits) /\ ~DrainStore
    <3>1. sb' = sb
      BY <1>2, <2>4 DEF BackNext, BackStep, Commits, Issue, AccessLoad, ResolveStore,
         CaptureStoreData, Writeback, CommitFault, backVars, memory
    <3> QED BY <2>1, <3>1 DEF SystemsAlone
  <2> QED BY <2>2, <2>3, <2>4
<1> QED BY <1>1, <1>2
-----------------------------------------------------------------------------
(* Registers and their readers: preserved. *)

LEMMA NamedIsUsed ==
  ASSUME RenameInv
  PROVE  /\ Named = Pregs \ freeList
         /\ freeList \subseteq Pregs
BY DEF RenameInv, Named, FreeRegistersUnnamed, NoRegisterLeaks, RenameTypeOK

LEMMA ReadyNext ==
  ASSUME BackInv, RenameInv', [BackNext]_backVars
  PROVE  ReadyIffDone'
<1> USE DEF BackInv
<1>0. LiveSlots \subseteq Slots
  BY SlotFacts DEF RenameInv, SlotsAre
<1>1. CASE ended = "no" /\ Dispatch
  <2>1. PICK new, I, pred : Admits(new, I, pred)
    BY <1>1, DispatchAdmits
  <2>2. /\ \A s \in LiveSlots : rob'[s] = rob[s] /\ done'[s] = done[s]
        /\ done'[new] = IsSystem(I)
    BY <2>1, AdmitsFacts
  <2>3. LiveSlots' = LiveSlots \cup {new}
    BY <2>1 DEF Admits
  <2>4. \A s \in LiveSlots : rob[s].pdst # NoReg => rob[s].pdst \in Pregs \ freeList
    BY PdstFacts, NamedIsUsed
  <2>5. CASE WritesRd(I) /\ I.rd # 0
    <3>1. PICK p \in freeList : p = rob'[new].pdst
      BY <2>1, <2>5 DEF Admits
    <3>2. freeList' = freeList \ {p} /\ ready' = [ready EXCEPT ![p] = FALSE]
      BY <2>1, <2>5, <3>1 DEF Admits
    <3>3. p \in Pregs /\ ~IsSystem(I)
      BY <2>5, NamedIsUsed DEF WritesRd, IsSystem
    <3>4. ready'[p] = FALSE /\ \A x \in Pregs : x # p => ready'[x] = ready[x]
      BY <3>2, <3>3 DEF Shape
    <3> QED BY <2>2, <2>3, <2>4, <3>1, <3>2, <3>3, <3>4 DEF ReadyIffDone
  <2>6. CASE ~(WritesRd(I) /\ I.rd # 0)
    <3>1. rob'[new].pdst = NoReg /\ freeList' = freeList /\ ready' = ready
      BY <2>1, <2>6 DEF Admits
    <3> QED BY <2>2, <2>3, <3>1 DEF ReadyIffDone
  <2> QED BY <2>5, <2>6
<1>2. CASE ended = "no" /\ Commits
  <2>1. Retires
    BY <1>2, CommitRetires
  <2>2. /\ LiveSlots' = LiveSlots \ {robHead} /\ done[robHead] /\ robHead \in LiveSlots
        /\ ready' = ready /\ done' = done /\ freeList \subseteq freeList' /\ rob' = rob
    BY <2>1 DEF Retires, Shrinks, RenameCommit
  <2>3. rob[robHead].pdst # NoReg => ready[rob[robHead].pdst]
    BY <2>2 DEF ReadyIffDone
  <2>4. ASSUME NEW p \in Pregs \ freeList', \A s \in LiveSlots' : rob[s].pdst # p
        PROVE  ready[p]
    <3>1. p # NoReg
      BY RenameAssumption DEF Pregs, NoReg
    <3>2. CASE rob[robHead].pdst = p
      BY <2>3, <3>1, <3>2
    <3>3. CASE rob[robHead].pdst # p
      BY <2>2, <2>4, <3>3 DEF ReadyIffDone
    <3> QED BY <3>2, <3>3
  <2> QED BY <2>2, <2>4 DEF ReadyIffDone
<1>3. CASE Writeback
  <2>1. PICK o : Completes(o)
    BY <1>3, WritebackCompletes
  <2>2. PICK s \in LiveSlots : s = o.slot /\ o.pdst = rob[s].pdst
    BY <2>1 DEF Completes, Matched
  <2>3. /\ LiveSlots' \subseteq LiveSlots /\ freeList \subseteq freeList'
        /\ done' = [done EXCEPT ![s] = TRUE]
        /\ ready' = IF o.pdst = NoReg THEN ready ELSE [ready EXCEPT ![o.pdst] = TRUE]
        /\ \A t \in LiveSlots' : rob'[t] = rob[t]
        /\ \A t \in LiveSlots \ LiveSlots' : rob[t].pdst # NoReg => rob[t].pdst \in freeList'
        /\ s \in LiveSlots'
    BY <2>1, <2>2 DEF Completes, Squashes, Shrinks, Kept, Deliver
  <2>4. /\ done'[s] = TRUE /\ \A t \in LiveSlots : t # s => done'[t] = done[t]
    BY <1>0, <2>3 DEF Shape
  <2>5. \A t \in LiveSlots : rob[t].pdst # NoReg =>
          rob[t].pdst \in Pregs /\ (rob[t].pdst = o.pdst => t = s)
    BY <2>2, PdstFacts
  <2>6. \A p \in Pregs : ready'[p] <=> ready[p] \/ (p = o.pdst)
    <3>1. NoReg \notin Pregs
      BY RenameAssumption DEF Pregs, NoReg
    <3> QED BY <2>3, <3>1 DEF Shape
  <2>7. ASSUME NEW t \in LiveSlots', rob'[t].pdst # NoReg
        PROVE  ready'[rob'[t].pdst] <=> done'[t]
    BY <2>2, <2>3, <2>4, <2>5, <2>6, <2>7 DEF ReadyIffDone
  <2>8. ASSUME NEW p \in Pregs \ freeList', \A t \in LiveSlots' : rob'[t].pdst # p
        PROVE  ready'[p]
    <3>1. \A t \in LiveSlots : rob[t].pdst # p
      <4>1. p # NoReg
        BY RenameAssumption DEF Pregs, NoReg
      <4> QED BY <2>3, <2>8, <4>1
    <3> QED BY <2>3, <2>6, <2>8, <3>1 DEF ReadyIffDone
  <2> QED BY <2>7, <2>8 DEF ReadyIffDone
<1>4. CASE ResolveStore
  <2>1. PICK o : Resolves(o)
    BY <1>4, ResolveResolves
  <2>2. PICK s \in LiveSlots : s = o.slot /\ IsStore(ins[s].I)
    BY <2>1 DEF Resolves, Matched
  <2>3. /\ LiveSlots' \subseteq LiveSlots /\ freeList \subseteq freeList'
        /\ done' = [done EXCEPT ![s] = lsq[s].dataReady]
        /\ ready' = ready
        /\ \A t \in LiveSlots' : rob'[t] = rob[t]
        /\ \A t \in LiveSlots \ LiveSlots' : rob[t].pdst # NoReg => rob[t].pdst \in freeList'
    BY <2>1, <2>2 DEF Resolves, Squashes, Shrinks, Kept, prf
  <2>4. rob[s].pdst = NoReg
    BY <2>2 DEF Dests, WritesRd, IsStore
  <2>5. \A t \in LiveSlots : t # s => done'[t] = done[t]
    BY <1>0, <2>3 DEF Shape
  <2>6. ASSUME NEW p \in Pregs \ freeList', \A t \in LiveSlots' : rob'[t].pdst # p
        PROVE  ready'[p]
    <3>1. \A t \in LiveSlots : rob[t].pdst # p
      <4>1. p # NoReg
        BY RenameAssumption DEF Pregs, NoReg
      <4> QED BY <2>3, <2>6, <4>1
    <3> QED BY <2>3, <2>6, <3>1 DEF ReadyIffDone
  <2> QED BY <2>3, <2>4, <2>5, <2>6 DEF ReadyIffDone
<1>5. CASE CaptureStoreData
  <2>1. PICK k, s : k \in Ages /\ s = Slot(k) /\ IsStore(Ins(k).I)
                 /\ done' = [done EXCEPT ![s] = lsq[s].addrValid]
                 /\ UNCHANGED <<renameVars, prf>>
    BY <1>5 DEF CaptureStoreData
  <2>2. s \in LiveSlots /\ IsStore(ins[s].I)
    BY <2>1 DEF LiveSlots, Ins
  <2>3. rob[s].pdst = NoReg
    BY <2>2 DEF Dests, WritesRd, IsStore
  <2>4. \A t \in LiveSlots : t # s => done'[t] = done[t]
    BY <1>0, <2>1 DEF Shape
  <2>5. LiveSlots' = LiveSlots /\ rob' = rob /\ freeList' = freeList /\ ready' = ready
    BY <2>1, Still DEF renameVars, prf
  <2> QED BY <2>3, <2>4, <2>5 DEF ReadyIffDone
<1>6. CASE Issue \/ AccessLoad \/ DrainStore \/ CommitFault \/ UNCHANGED backVars
  <2>1. UNCHANGED <<renameVars, done, prf>>
    BY <1>6 DEF Issue, AccessLoad, DrainStore, CommitFault, backVars
  <2>2. LiveSlots' = LiveSlots /\ rob' = rob /\ freeList' = freeList /\ ready' = ready
    BY <2>1, Still DEF renameVars, prf
  <2> QED BY <2>1, <2>2 DEF ReadyIffDone
<1> QED
  BY <1>1, <1>2, <1>3, <1>4, <1>5, <1>6 DEF BackNext, BackStep, Commits

(* A dispatch takes its destination from the free list, which nobody reads. *)
LEMMA AdmitsReady ==
  ASSUME BackInv, NEW new, NEW I, NEW pred, Admits(new, I, pred),
         NEW p \in Pregs \ freeList
  PROVE  ready'[p] = ready[p]
<1>1. CASE WritesRd(I) /\ I.rd # 0
  <2>1. PICK x \in freeList : ready' = [ready EXCEPT ![x] = FALSE]
    BY <1>1 DEF Admits
  <2> QED BY <2>1 DEF BackInv, Shape
<1>2. CASE ~(WritesRd(I) /\ I.rd # 0)
  BY <1>2 DEF Admits
<1> QED BY <1>1, <1>2

(* The result of an operation is for a register without a value, and makes *)
(* that one ready.                                                         *)
LEMMA CompletesReady ==
  ASSUME BackInv, NEW o, Completes(o)
  PROVE  /\ o.pdst # NoReg => ~ready[o.pdst]
         /\ \A p \in Pregs : /\ ready'[p] <=> ready[p] \/ p = o.pdst
                             /\ p # o.pdst => val'[p] = val[p]
<1> USE DEF BackInv
<1>1. o \in ops /\ o.unit # "agu"
      /\ ready' = (IF o.pdst = NoReg THEN ready ELSE [ready EXCEPT ![o.pdst] = TRUE])
      /\ val' = (IF o.pdst = NoReg THEN val ELSE [val EXCEPT ![o.pdst] = o.value])
  BY DEF Completes, Deliver
<1>2. o.slot \in LiveSlots /\ o.pdst = rob[o.slot].pdst /\ Busy(o.slot)
  BY <1>1 DEF Matched
<1>3. ~IsStore(ins[o.slot].I)
  <2>1. o.unit \in {"unit", "load"}
    BY <1>1 DEF Shape
  <2> QED BY <1>1, <2>1 DEF Matched, IsStore, IsLoad, IsMem
<1>4. o.pdst # NoReg => ~ready[o.pdst]
  BY <1>2, <1>3 DEF Busy, ReadyIffDone
<1>5. NoReg \notin Pregs
  BY RenameAssumption DEF Pregs, NoReg
<1> QED BY <1>1, <1>4, <1>5 DEF Shape

LEMMA SourcesNext ==
  ASSUME BackInv, RenameInv', [BackNext]_backVars
  PROVE  SourcesWatched'
<1> USE DEF BackInv
<1>0. LiveSlots \subseteq Slots /\ Matched'
  BY SlotFacts, MatchedNext DEF RenameInv, SlotsAre
<1>1. ASSUME NEW q \in iq
      PROVE  /\ q.slot \in LiveSlots /\ q.ps1 \in Pregs \ freeList /\ q.ps2 \in Pregs \ freeList
             /\ q \in QueueEntry
  <2>1. q.slot \in LiveSlots /\ q \in QueueEntry
    BY DEF Matched, Shape
  <2>2. ins[q.slot].I.rs1 \in ArchRegs /\ ins[q.slot].I.rs2 \in ArchRegs
    BY <1>0, <2>1, LiveIns DEF Instructions
  <2>3. Before(q.slot)[ins[q.slot].I.rs1] \in Named /\ Before(q.slot)[ins[q.slot].I.rs2] \in Named
    BY <2>1, <2>2, BeforeNamed
  <2> QED BY <2>1, <2>3, NamedIsUsed DEF SourcesWatched
<1>2. CASE ended = "no" /\ Dispatch
  <2>1. PICK new, I, pred : Admits(new, I, pred)
    BY <1>2, DispatchAdmits
  <2>2. \A p \in Pregs \ freeList : ready'[p] = ready[p]
    BY <2>1, AdmitsReady
  <2>3. /\ \A s \in LiveSlots : ins'[s] = ins[s] /\ Before(s)' = Before(s)
        /\ ins'[new].I = I
    BY <2>1, AdmitsFacts
  <2>4. ASSUME NEW q \in iq
        PROVE  /\ q.ps1 = Before(q.slot)'[ins'[q.slot].I.rs1]
               /\ q.ps2 = Before(q.slot)'[ins'[q.slot].I.rs2]
               /\ q.blocked1 <=> UsesRs1(ins'[q.slot].I) /\ ~ready'[q.ps1]
               /\ q.blocked2 <=> UsesRs2(ins'[q.slot].I) /\ ~IsStore(ins'[q.slot].I) /\ ~ready'[q.ps2]
    <3>1. PICK s \in LiveSlots : s = q.slot
      BY <1>1
    <3>2. Before(s)' = Before(s) /\ ins'[s] = ins[s]
      BY <2>3
    <3>3. ready'[q.ps1] = ready[q.ps1] /\ ready'[q.ps2] = ready[q.ps2]
      BY <1>1, <2>2
    <3>4. Before(q.slot)' = Before(s)'
      BY <3>1
    <3> QED BY <3>1, <3>2, <3>3, <3>4 DEF SourcesWatched
  <2>5. CASE IsSystem(I)
    <3>1. iq' = iq
      BY <2>1, <2>5 DEF Admits
    <3> QED BY <2>4, <3>1 DEF SourcesWatched
  <2>6. CASE ~IsSystem(I)
    <3>1. PICK x : /\ iq' = iq \cup {x}
                   /\ x.slot = new
                   /\ x.ps1 = map[I.rs1] /\ x.ps2 = map[I.rs2]
                   /\ x.blocked1 <=> UsesRs1(I) /\ ~ready[map[I.rs1]]
                   /\ x.blocked2 <=> UsesRs2(I) /\ ~IsStore(I) /\ ~ready[map[I.rs2]]
      BY <2>1, <2>6, AdmitsQueue
    <3>2. map[I.rs1] \in Pregs \ freeList /\ map[I.rs2] \in Pregs \ freeList
      <4>1. I.rs1 \in ArchRegs /\ I.rs2 \in ArchRegs
        BY <2>1 DEF Admits, Instructions
      <4>2. map[I.rs1] \in Named /\ map[I.rs2] \in Named
        BY <4>1 DEF Named, Mapped
      <4> QED BY <4>2, NamedIsUsed
    <3>3. Before(new)' = map
      BY <2>1 DEF Admits
    <3>4. Before(x.slot)' = map
      BY <3>1, <3>3
    <3>5. /\ x.ps1 = Before(x.slot)'[ins'[x.slot].I.rs1]
          /\ x.ps2 = Before(x.slot)'[ins'[x.slot].I.rs2]
          /\ x.blocked1 <=> UsesRs1(ins'[x.slot].I) /\ ~ready'[x.ps1]
          /\ x.blocked2 <=> UsesRs2(ins'[x.slot].I) /\ ~IsStore(ins'[x.slot].I) /\ ~ready'[x.ps2]
      BY <2>2, <2>3, <3>1, <3>2, <3>4
    <3> QED BY <2>4, <3>1, <3>5 DEF SourcesWatched
  <2> QED BY <2>5, <2>6
<1>3. CASE Writeback
  <2>1. PICK o : Completes(o)
    BY <1>3, WritebackCompletes
  <2>2. \A p \in Pregs : ready'[p] <=> ready[p] \/ p = o.pdst
    BY <2>1, CompletesReady
  <2>3. iq' \subseteq Woken(o) /\ ins' = ins /\ Kept /\ LiveSlots' \subseteq LiveSlots
    BY <2>1 DEF Completes, Squashes, Shrinks
  <2> SUFFICES ASSUME NEW w \in iq'
               PROVE  /\ w.ps1 = Before(w.slot)'[ins'[w.slot].I.rs1]
                      /\ w.ps2 = Before(w.slot)'[ins'[w.slot].I.rs2]
                      /\ w.blocked1 <=> UsesRs1(ins'[w.slot].I) /\ ~ready'[w.ps1]
                      /\ w.blocked2 <=> UsesRs2(ins'[w.slot].I) /\ ~IsStore(ins'[w.slot].I)
                                        /\ ~ready'[w.ps2]
    BY DEF SourcesWatched
  <2>4. PICK q \in iq : (o.pdst = NoReg /\ w = q) \/ (o.pdst # NoReg /\ w = Wake(q, o.pdst))
    BY <2>3, WokenIs
  <2>5. NoReg \notin Pregs
    BY RenameAssumption DEF Pregs, NoReg
  <2>6. /\ w.slot = q.slot /\ w.ps1 = q.ps1 /\ w.ps2 = q.ps2
        /\ w.blocked1 <=> q.blocked1 /\ q.ps1 # o.pdst
        /\ w.blocked2 <=> q.blocked2 /\ q.ps2 # o.pdst
    <3>1. CASE o.pdst = NoReg
      BY <1>1, <2>4, <2>5, <3>1
    <3>2. CASE o.pdst # NoReg
      BY <1>1, <2>4, <3>2, WakeIs
    <3> QED BY <3>1, <3>2
  <2>7. PICK s \in LiveSlots' : s = w.slot
    BY <1>0 DEF Matched
  <2>8. Before(s)' = Before(s)
    BY <2>3 DEF Kept
  <2>9. Before(w.slot)' = Before(s)'
    BY <2>7
  <2> QED BY <1>1, <2>2, <2>3, <2>6, <2>7, <2>8, <2>9 DEF SourcesWatched
<1>4. CASE ~(ended = "no" /\ Dispatch) /\ ~Writeback
  <2>1. Kept /\ LiveSlots' \subseteq LiveSlots /\ ins' = ins
    BY <1>4, OtherSteps DEF Shrinks
  <2>2. iq' \subseteq iq /\ ready' = ready
    <3>1. CASE ResolveStore
      BY <3>1, ResolveResolves DEF Resolves, prf
    <3>2. CASE ended = "no" /\ Commits
      BY <3>2, CommitRetires DEF Retires
    <3>3. CASE Issue \/ AccessLoad \/ CaptureStoreData \/ DrainStore \/ CommitFault
               \/ UNCHANGED backVars
      BY <3>3 DEF Issue, AccessLoad, CaptureStoreData, DrainStore, CommitFault, backVars, prf
    <3> QED BY <1>4, <3>1, <3>2, <3>3 DEF BackNext, BackStep, Commits
  <2>3. ASSUME NEW q \in iq'
        PROVE  Before(q.slot)' = Before(q.slot)
    <3>1. PICK s \in LiveSlots' : s = q.slot
      BY <1>0 DEF Matched
    <3>2. Before(s)' = Before(s) /\ Before(q.slot)' = Before(s)'
      BY <2>1, <3>1 DEF Kept
    <3> QED BY <3>1, <3>2
  <2> QED BY <2>1, <2>2, <2>3 DEF SourcesWatched
<1> QED BY <1>2, <1>3, <1>4

(* ECALL's input arrives when nothing else is in the machine.              *)
LEMMA SyscallAlone ==
  ASSUME BackInv, robCount > 0, IsSystem(RobHead.I)
  PROVE  /\ robCount = 1 /\ iq = {} /\ ops = {}
         /\ LiveSlots = {robHead}
<1> USE DEF BackInv
<1>1. SlotsAre /\ robCount \in Nat
  BY SlotFacts DEF RenameInv, SlotsAre
<1>2. RobHead = ins[robHead] /\ 0 \in Ages /\ robHead \in LiveSlots
  BY <1>1 DEF RobHead, Ins, SlotsAre, Ages, LiveSlots
<1>3. LiveSlots = {robHead}
  BY <1>2 DEF SystemsAlone
<1>4. robCount = 1
  <2> SUFFICES ASSUME robCount # 1 PROVE FALSE
    OBVIOUS
  <2>1. 1 \in Ages
    BY <1>1 DEF Ages
  <2>2. Slot(1) = Slot(0)
    BY <1>1, <1>3, <2>1 DEF LiveSlots, SlotsAre
  <2> QED BY <1>1, <1>2, <2>1, <2>2 DEF SlotsAre
<1>5. done[robHead]
  BY <1>2 DEF DoneMeans
<1>6. iq = {} /\ ops = {}
  BY <1>2, <1>3, <1>5, IdleWhenDone DEF Matched
<1> QED BY <1>3, <1>4, <1>6

(* A register that is in use and has its value keeps it, but for ECALL.    *)
LEMMA ReadyValuesStay ==
  ASSUME BackInv, RenameInv', [BackNext]_backVars,
         NEW p \in Pregs \ freeList, ready[p]
  PROVE  /\ ready'[p]
         /\ val'[p] = val[p] \/ (ended = "no" /\ CommitSyscall)
<1> USE DEF BackInv
<1>1. CASE ended = "no" /\ Dispatch
  <2>1. PICK new, I, pred : Admits(new, I, pred)
    BY <1>1, DispatchAdmits
  <2> QED BY <2>1, AdmitsReady DEF Admits
<1>2. CASE Writeback
  <2>1. PICK o : Completes(o)
    BY <1>2, WritebackCompletes
  <2>2. p # o.pdst
    BY <2>1, CompletesReady, RenameAssumption DEF Pregs, NoReg
  <2> QED BY <2>1, <2>2, CompletesReady
<1>3. CASE ResolveStore \/ Issue \/ AccessLoad \/ CaptureStoreData \/ DrainStore
           \/ CommitFault \/ CommitPlain \/ CommitShow \/ CommitHalt \/ UNCHANGED backVars
  BY <1>3 DEF ResolveStore, Issue, AccessLoad, CaptureStoreData, DrainStore, CommitFault,
     CommitPlain, CommitShow, CommitHalt, backVars, prf
<1>4. CASE ended = "no" /\ CommitSyscall
  BY <1>4 DEF CommitSyscall
<1> QED BY <1>1, <1>2, <1>3, <1>4 DEF BackNext, BackStep

LEMMA DataNext ==
  ASSUME BackInv, RenameInv', [BackNext]_backVars
  PROVE  DataWatched'
<1> USE DEF BackInv
<1>0. LiveSlots \subseteq Slots /\ SlotsAre
  BY SlotFacts DEF RenameInv, SlotsAre
<1>1. ASSUME NEW s \in LiveSlots, IsStore(ins[s].I)
      PROVE  lsq[s].preg \in Pregs \ freeList
  <2>1. ins[s].I.rs2 \in ArchRegs
    BY <1>0, LiveIns DEF Instructions
  <2>2. Before(s)[ins[s].I.rs2] \in Named
    BY <2>1, BeforeNamed
  <2> QED BY <1>1, <2>2, NamedIsUsed DEF DataWatched
<1>2. CASE ended = "no" /\ CommitSyscall
  <2>1. Retires
    BY <1>2, CommitRetires DEF Commits
  <2>2. robCount > 0 /\ IsSystem(RobHead.I)
    BY <1>2 DEF CommitSyscall, IsSystem
  <2>3. LiveSlots' = {}
    BY <2>1, <2>2, SyscallAlone DEF Retires
  <2> QED BY <2>3 DEF DataWatched
<1> SUFFICES ASSUME ~(ended = "no" /\ CommitSyscall)
             PROVE  DataWatched'
  BY <1>2
<1>3. ASSUME NEW s \in LiveSlots, IsStore(ins[s].I), lsq[s].dataReady
      PROVE  ready'[lsq[s].preg] /\ lsq[s].data = val'[lsq[s].preg]
  <2>1. lsq[s].preg \in Pregs \ freeList /\ ready[lsq[s].preg]
        /\ lsq[s].data = val[lsq[s].preg]
    BY <1>1, <1>3 DEF DataWatched
  <2> QED BY <2>1, ReadyValuesStay
<1>4. CASE ended = "no" /\ Dispatch
  <2>1. PICK new, I, pred : Admits(new, I, pred)
    BY <1>4, DispatchAdmits
  <2>2. /\ \A s \in LiveSlots : /\ ins'[s] = ins[s] /\ lsq'[s] = lsq[s]
                                /\ Before(s)' = Before(s)
        /\ ins'[new].I = I
        /\ lsq'[new] = IF IsStore(I) THEN StoreSource(map[I.rs2]) ELSE NoLsq
    BY <2>1, AdmitsFacts
  <2>3. LiveSlots' = LiveSlots \cup {new} /\ val' = val /\ Before(new)' = map
    BY <2>1 DEF Admits
  <2>4. ASSUME IsStore(I)
        PROVE  /\ lsq'[new].preg = map[I.rs2]
               /\ lsq'[new].dataReady =>
                    ready'[map[I.rs2]] /\ lsq'[new].data = val'[map[I.rs2]]
    <3>1. I.rs2 \in ArchRegs
      BY <2>1 DEF Admits, Instructions
    <3>2. map[I.rs2] \in Named
      BY <3>1 DEF Named, Mapped
    <3>3. map[I.rs2] \in Pregs \ freeList
      BY <3>2, NamedIsUsed
    <3>4. ready[map[I.rs2]] \in BOOLEAN /\ val[map[I.rs2]] \in Values
      BY <3>3 DEF Shape
    <3>5. lsq'[new] = StoreSource(map[I.rs2])
      BY <2>2, <2>4
    <3>6. /\ lsq'[new].preg = map[I.rs2]
          /\ lsq'[new].dataReady = ready[map[I.rs2]] /\ lsq'[new].data = val[map[I.rs2]]
      BY <3>3, <3>4, <3>5, StoreSourceIs
    <3>7. ready'[map[I.rs2]] = ready[map[I.rs2]]
      BY <2>1, <3>3, AdmitsReady
    <3> QED BY <2>3, <3>6, <3>7
  <2>5. ASSUME NEW s \in LiveSlots, IsStore(ins'[s].I)
        PROVE  /\ lsq'[s].preg = Before(s)'[ins'[s].I.rs2]
               /\ lsq'[s].dataReady => ready'[lsq'[s].preg] /\ lsq'[s].data = val'[lsq'[s].preg]
    BY <1>3, <2>2, <2>5 DEF DataWatched
  <2>6. ASSUME IsStore(ins'[new].I)
        PROVE  /\ lsq'[new].preg = Before(new)'[ins'[new].I.rs2]
               /\ lsq'[new].dataReady =>
                    ready'[lsq'[new].preg] /\ lsq'[new].data = val'[lsq'[new].preg]
    BY <2>2, <2>3, <2>4, <2>6
  <2> QED BY <2>3, <2>5, <2>6 DEF DataWatched
<1>5. CASE ~(ended = "no" /\ Dispatch)
  <2>1. Kept /\ LiveSlots' \subseteq LiveSlots /\ ins' = ins
    BY <1>5, OtherSteps DEF Shrinks
  <2>2. ASSUME NEW s \in LiveSlots', IsStore(ins[s].I),
               lsq'[s].preg = lsq[s].preg,
               lsq'[s].dataReady = lsq[s].dataReady /\ lsq'[s].data = lsq[s].data
        PROVE  /\ lsq'[s].preg = Before(s)'[ins'[s].I.rs2]
               /\ lsq'[s].dataReady => ready'[lsq'[s].preg] /\ lsq'[s].data = val'[lsq'[s].preg]
    <3>1. s \in LiveSlots /\ Before(s)' = Before(s)
      BY <2>1 DEF Kept
    <3> QED BY <1>3, <2>1, <2>2, <3>1 DEF DataWatched
  <2>3. CASE \A s \in LiveSlots' : IsStore(ins[s].I) =>
               /\ lsq'[s].preg = lsq[s].preg
               /\ lsq'[s].dataReady = lsq[s].dataReady /\ lsq'[s].data = lsq[s].data
    BY <2>1, <2>2, <2>3 DEF DataWatched
  <2>4. CASE AccessLoad
    <3>1. PICK o \in ops : lsq' = [lsq EXCEPT ![o.slot].addrValid = TRUE, ![o.slot].addr = o.value]
      BY <2>4 DEF AccessLoad
    <3>2. o.slot \in Slots /\ o.value \in Values
      BY <1>0 DEF Matched, Shape
    <3>3. \A s \in Slots : /\ lsq'[s].preg = lsq[s].preg
                           /\ lsq'[s].dataReady = lsq[s].dataReady /\ lsq'[s].data = lsq[s].data
      BY <3>1, <3>2, LsqAddr DEF Shape
    <3> QED BY <1>0, <2>1, <2>3, <3>3
  <2>5. CASE ResolveStore
    <3>1. PICK o \in ops : lsq' = [lsq EXCEPT ![o.slot].addrValid = TRUE, ![o.slot].addr = o.value]
      BY <2>5 DEF ResolveStore
    <3>2. o.slot \in Slots /\ o.value \in Values
      BY <1>0 DEF Matched, Shape
    <3>3. \A s \in Slots : /\ lsq'[s].preg = lsq[s].preg
                           /\ lsq'[s].dataReady = lsq[s].dataReady /\ lsq'[s].data = lsq[s].data
      BY <3>1, <3>2, LsqAddr DEF Shape
    <3> QED BY <1>0, <2>1, <2>3, <3>3
  <2>6. CASE CaptureStoreData
    <3>1. PICK k, t : /\ k \in Ages /\ t = Slot(k) /\ IsStore(Ins(k).I) /\ ready[lsq[t].preg]
                   /\ lsq' = [lsq EXCEPT ![t].dataReady = TRUE, ![t].data = val[lsq[t].preg]]
                   /\ UNCHANGED <<renameVars, prf>>
      BY <2>6 DEF CaptureStoreData
    <3>2. t \in LiveSlots /\ t \in Slots /\ IsStore(ins[t].I)
      BY <1>0, <3>1 DEF LiveSlots, Ins
    <3>3. lsq[t].preg \in Pregs
      BY <1>1, <3>2
    <3>4. val[lsq[t].preg] \in Values
      BY <3>3 DEF Shape
    <3>5. /\ \A s \in Slots : s # t => lsq'[s] = lsq[s]
          /\ lsq'[t].data = val[lsq[t].preg]
          /\ lsq'[t].preg = lsq[t].preg
      BY <3>1, <3>2, <3>4, LsqData DEF Shape
    <3>6. val' = val /\ ready' = ready /\ LiveSlots' = LiveSlots /\ Kept
      BY <3>1, Still DEF prf
    <3>7. /\ lsq'[t].preg = Before(t)'[ins'[t].I.rs2]
          /\ lsq'[t].dataReady => ready'[lsq'[t].preg] /\ lsq'[t].data = val'[lsq'[t].preg]
      <4>1. Before(t)' = Before(t)
        BY <3>2, <3>6 DEF Kept
      <4> QED BY <2>1, <3>1, <3>2, <3>5, <3>6, <4>1 DEF DataWatched
    <3> QED BY <1>0, <2>1, <2>2, <3>5, <3>6, <3>7 DEF DataWatched
  <2>7. CASE Issue \/ DrainStore \/ Writeback \/ CommitFault \/ UNCHANGED backVars
             \/ (ended = "no" /\ Commits)
    <3>1. lsq' = lsq
      BY <2>7 DEF Issue, DrainStore, Writeback, CommitFault, backVars, Commits,
         CommitPlain, CommitSyscall, CommitShow, CommitHalt
    <3> QED BY <2>3, <3>1
  <2> QED BY <1>5, <2>4, <2>5, <2>6, <2>7 DEF BackNext, BackStep, Commits
<1> QED BY <1>4, <1>5
-----------------------------------------------------------------------------
LEMMA BackInitInv == BackInit => BackInv
<1> SUFFICES ASSUME BackInit PROVE BackInv
  OBVIOUS
<1>0. RenameInit
  BY DEF BackInit
<1>1. RenameInv
  BY <1>0, InitInv
<1>2. robCount = 0 /\ Ages = {} /\ LiveSlots = {}
  BY <1>0 DEF RenameInit, Ages, LiveSlots
<1>3. SeqOrder
  BY <1>2 DEF SeqOrder
<1>4. Shape
  <2> USE DEF BackInit
  <2>1. 0 \in Pcs /\ fpc \in 0 .. LastPc + 1 /\ fpc # LastPc + 1 /\ 0 \in Values
    BY IsaAssumption DEF Pcs, Values
  <2>2. NoIns \in [pc : Pcs, I : Instructions, pred : [taken : BOOLEAN, target : Pcs]]
    <3>1. 0 \in ArchRegs
      BY RenameAssumption DEF ArchRegs
    <3>2. NoInstr \in Instructions /\ NotTaken \in [taken : BOOLEAN, target : Pcs]
      BY <2>1, <3>1 DEF NoInstr, NotTaken, Instructions
    <3> QED BY <2>1, <3>2 DEF NoIns
  <2>3. ins \in [Slots -> [pc : Pcs, I : Instructions, pred : [taken : BOOLEAN, target : Pcs]]]
    BY <2>2
  <2>4. NoLsq \in LsqEntry
    BY <2>1 DEF NoLsq, LsqEntry
  <2>5. lsq \in [Slots -> LsqEntry] /\ done \in [Slots -> BOOLEAN]
    BY <2>4
  <2>6. val \in [Pregs -> Values] /\ ready \in [Pregs -> BOOLEAN]
    BY <2>1
  <2>7. IsFiniteSet(iq) /\ Cardinality(iq) <= IqSize
    BY FS_EmptySet, BackendAssumption
  <2>8. sb \in Seq([addr : Addrs, data : Values]) /\ Len(sb) <= SbSize
    BY BackendAssumption
  <2>9. mem \in [Addrs -> Values]
    BY IsaAssumption DEF Addrs, Values
  <2> QED BY <1>2, <2>1, <2>3, <2>5, <2>6, <2>7, <2>8, <2>9 DEF Shape
<1>5. ReadyIffDone
  BY <1>2 DEF ReadyIffDone, BackInit
<1>6. Matched /\ SourcesWatched
  BY <1>2 DEF Matched, SourcesWatched, BackInit
<1> QED
  BY <1>1, <1>2, <1>3, <1>4, <1>5, <1>6
     DEF BackInv, DoneMeans, Dests, SystemsAlone, DataWatched

LEMMA SeqOrderNext ==
  ASSUME BackInv, RenameInv', [BackNext]_backVars
  PROVE  SeqOrder'
<1>1. CASE ended = "no" /\ Dispatch
  BY <1>1, DispatchAdmits DEF Admits
<1>2. CASE ~(ended = "no" /\ Dispatch)
  BY <1>2, OtherSteps DEF Shrinks
<1> QED BY <1>1, <1>2

LEMMA BackInvNext == BackInv /\ [BackNext]_backVars => BackInv'
<1> SUFFICES ASSUME BackInv, [BackNext]_backVars PROVE BackInv'
  OBVIOUS
<1>1. RenameInv'
  BY RenameInvNext
<1> QED
  BY <1>1, SeqOrderNext, ShapeNext, MatchedNext, DoneMeansNext, DestsNext,
     SystemsAloneNext, ReadyNext, SourcesNext, DataNext DEF BackInv

(* The inductive invariant of the core.                                    *)
THEOREM CoreInvariant == BackSpec => []BackInv
BY BackInitInv, BackInvNext, PTL DEF BackSpec
-----------------------------------------------------------------------------
(* What follows, for the reader of Backend. *)

LEMMA TypeFollows == BackInv => BackTypeOK
<1> SUFFICES ASSUME BackInv PROVE BackTypeOK
  OBVIOUS
<1> USE DEF BackInv
<1>1. \A s \in Slots : ins[s].pc \in Pcs /\ ins[s].pred.target \in Pcs
  BY DEF Shape
<1>2. \A q \in iq : q.slot \in Slots /\ q.ps1 \in Pregs /\ q.ps2 \in Pregs
  BY DEF Shape, QueueEntry
<1>3. \A i \in 1 .. Len(sb) : sb[i] \in [addr : Addrs, data : Values]
  BY SbEntry
<1>4. \A o \in ops : /\ o.unit \in {"unit", "agu", "load"} /\ o.value \in Values
                     /\ o.pdst \in Pregs \cup {NoReg}
  BY DEF Shape
<1>5. lsq \in [Slots -> [preg : Pregs \cup {NoReg}, addrValid : BOOLEAN, addr : Values,
                         dataReady : BOOLEAN, data : Values]]
  BY DEF Shape, LsqEntry
<1> QED BY <1>1, <1>2, <1>3, <1>4, <1>5 DEF BackTypeOK, RenameInv, Shape

LEMMA WorkFollows == BackInv => WorkMatchesEntries
<1> SUFFICES ASSUME BackInv PROVE WorkMatchesEntries
  OBVIOUS
<1> USE DEF BackInv
<1>1. SlotsAre
  BY SlotFacts DEF RenameInv
<1>2. \A w \in iq \cup ops : \E k \in Ages : w.slot = Slot(k) /\ w.seq = Nth(k).seq
  BY <1>1 DEF Matched, LiveSlots, SlotsAre
<1>3. ASSUME NEW k \in Ages
      PROVE  Cardinality(Waiting(k)) + Cardinality(InUnits(k)) = IF Busy(Slot(k)) THEN 1 ELSE 0
  <2>1. Slot(k) \in LiveSlots
    BY DEF LiveSlots
  <2>2. Cardinality({}) = 0 /\ \A x : Cardinality({x}) = 1
    BY FS_EmptySet, FS_Singleton
  <2>3. CASE ~Busy(Slot(k))
    <3>1. Waiting(k) = {} /\ InUnits(k) = {}
      BY <2>3 DEF Waiting, InUnits, Matched
    <3> QED BY <2>2, <2>3, <3>1
  <2>4. CASE \E q \in iq : q.slot = Slot(k)
    <3>1. PICK q \in iq : q.slot = Slot(k)
      BY <2>4
    <3>2. Waiting(k) = {q} /\ InUnits(k) = {} /\ Busy(Slot(k))
      BY <3>1 DEF Waiting, InUnits, Matched
    <3>3. Cardinality(Waiting(k)) = 1 /\ Cardinality(InUnits(k)) = 0
      BY <2>2, <3>2
    <3> QED BY <3>2, <3>3
  <2>5. CASE \E o \in ops : o.slot = Slot(k)
    <3>1. PICK o \in ops : o.slot = Slot(k)
      BY <2>5
    <3>2. InUnits(k) = {o} /\ Waiting(k) = {} /\ Busy(Slot(k))
      BY <3>1 DEF Waiting, InUnits, Matched
    <3>3. Cardinality(Waiting(k)) = 0 /\ Cardinality(InUnits(k)) = 1
      BY <2>2, <3>2
    <3> QED BY <3>2, <3>3
  <2> QED BY <2>1, <2>3, <2>4, <2>5 DEF Matched
<1>4. ASSUME NEW k \in Ages
      PROVE  LET n == Cardinality(Waiting(k)) + Cardinality(InUnits(k)) IN
               IF IsStore(Ins(k).I) /\ lsq[Slot(k)].addrValid
               THEN n = 0 /\ done[Slot(k)] = lsq[Slot(k)].dataReady
               ELSE n = IF done[Slot(k)] THEN 0 ELSE 1
  <2>1. Slot(k) \in LiveSlots /\ Slot(k) \in Slots
    BY <1>1 DEF LiveSlots, SlotsAre
  <2>2. done[Slot(k)] \in BOOLEAN /\ lsq[Slot(k)].dataReady \in BOOLEAN
    BY <2>1 DEF Shape, LsqEntry
  <2> QED BY <1>3, <2>1, <2>2 DEF Busy, Ins, DoneMeans
<1> QED BY <1>2, <1>4, TypeFollows DEF WorkMatchesEntries

LEMMA WaitsFollow == BackInv => WaitsAreSound
<1> SUFFICES ASSUME BackInv PROVE WaitsAreSound
  OBVIOUS
<1> USE DEF BackInv
<1>1. SlotsAre
  BY SlotFacts DEF RenameInv
<1>2. WakeupExact
  <2> SUFFICES ASSUME NEW k \in Ages, NEW q \in Waiting(k)
               PROVE  /\ UsesRs1(Ins(k).I) => /\ q.ps1 = Undo(k)[Ins(k).I.rs1]
                                              /\ q.blocked1 <=> ~ready[q.ps1]
                      /\ (UsesRs2(Ins(k).I) /\ ~IsStore(Ins(k).I)) =>
                           /\ q.ps2 = Undo(k)[Ins(k).I.rs2]
                           /\ q.blocked2 <=> ~ready[q.ps2]
    BY DEF WakeupExact
  <2>1. q \in iq /\ q.slot = Slot(k) /\ ins[q.slot] = Ins(k)
    BY DEF Waiting, Ins
  <2>2. Before(q.slot) = Undo(k)
    BY <1>1, <2>1 DEF SlotsAre
  <2> QED BY <2>1, <2>2 DEF SourcesWatched
<1>3. ProducersAlive
  <2> SUFFICES ASSUME NEW p \in Named
               PROVE  ready[p] \/ \E k \in Ages : Nth(k).pdst = p /\ ~done[Slot(k)]
    BY DEF ProducersAlive, Named
  <2>1. p \in Pregs \ freeList /\ p # NoReg
    BY NamedIsUsed, RenameAssumption DEF Pregs, NoReg
  <2>2. CASE \E s \in LiveSlots : rob[s].pdst = p
    <3>1. PICK k \in Ages : rob[Slot(k)].pdst = p
      BY <2>2 DEF LiveSlots
    <3>2. Slot(k) \in LiveSlots /\ Nth(k).pdst = p
      BY <1>1, <3>1 DEF LiveSlots, SlotsAre
    <3> QED BY <2>1, <3>1, <3>2 DEF ReadyIffDone
  <2>3. CASE \A s \in LiveSlots : rob[s].pdst # p
    BY <2>1, <2>3 DEF ReadyIffDone
  <2> QED BY <2>2, <2>3
<1> QED BY <1>2, <1>3 DEF WaitsAreSound

LEMMA CaptureFollows == BackInv => LateCaptureSafe
<1> SUFFICES ASSUME BackInv, NEW k \in Ages, IsStore(Ins(k).I)
             PROVE  /\ lsq[Slot(k)].preg = Undo(k)[Ins(k).I.rs2]
                    /\ lsq[Slot(k)].dataReady =>
                         /\ ready[lsq[Slot(k)].preg]
                         /\ lsq[Slot(k)].data = val[lsq[Slot(k)].preg]
  BY DEF LateCaptureSafe
<1>1. Slot(k) \in LiveSlots /\ Before(Slot(k)) = Undo(k)
  BY SlotFacts DEF BackInv, RenameInv, SlotsAre, LiveSlots
<1> QED BY <1>1 DEF BackInv, DataWatched, Ins

LEMMA WritesOnce ==
  BackInv /\ [BackNext]_backVars =>
    [\A p \in Mapped \cup Displaced :
       ready[p] /\ val'[p] # val[p] =>
         robCount = 1 /\ RobHead.I.op = "sys" /\ iq = {} /\ ops = {}]_backVars
<1> SUFFICES ASSUME BackInv, [BackNext]_backVars,
                    NEW p \in Named, ready[p], val'[p] # val[p]
             PROVE  robCount = 1 /\ RobHead.I.op = "sys" /\ iq = {} /\ ops = {}
  BY DEF Named
<1>1. RenameInv' /\ p \in Pregs \ freeList
  BY RenameInvNext, NamedIsUsed DEF BackInv
<1>2. CommitSyscall
  BY <1>1, ReadyValuesStay
<1>3. robCount > 0 /\ RobHead.I.op = "sys"
  BY <1>2 DEF CommitSyscall
<1> QED BY <1>3, SyscallAlone DEF IsSystem

(* The type invariant (core/rob.h, core/iq.h, core/lsq.h, core/fu.h), with *)
(* the capacities of the queue and the store buffer.                       *)
THEOREM BackTypes == BackSpec => []BackTypeOK
BY CoreInvariant, TypeFollows, PTL

(* What waits or runs belongs to exactly the live unfinished entries, one  *)
(* each: no result of a squashed instruction is ever written back          *)
(* (core/fu.h), no slot is reused under an old operation (core/iq.h).      *)
THEOREM WorkAccountedFor == BackSpec => []WorkMatchesEntries
BY CoreInvariant, WorkFollows, PTL

(* No wakeup is lost and none is spurious, and every awaited register has  *)
(* a live producer (core/iq.h wakeup, core/ooo.cpp dispatchStage).         *)
THEOREM NoWakeupLost == BackSpec => []WaitsAreSound
BY CoreInvariant, WaitsFollow, PTL

(* A store captures the datum program order gives it, however late         *)
(* (core/lsq.h captureStoreData).                                          *)
THEOREM LateCapture == BackSpec => []LateCaptureSafe
BY CoreInvariant, CaptureFollows, PTL

(* A register that has its value keeps it while anything names it, but for *)
(* ECALL's write when it is alone (core/rename.h, core/ooo.cpp).           *)
THEOREM NamedValuesStay == BackSpec => WrittenOnce
BY CoreInvariant, WritesOnce, PTL DEF BackSpec, WrittenOnce
-----------------------------------------------------------------------------
(***************************************************************************)
(* The out-of-order core implements the in-order one, for every program,   *)
(* every size and every schedule: BackSpec => RefinesInOrder.              *)
(*                                                                         *)
(* The argument is local to an entry.  An entry that has left the queue    *)
(* has the sources program order gives it, so its result is the right one  *)
(* and stays it; a load has the datum of the newest older store known to   *)
(* write its address, and a store that learns of its address late throws   *)
(* every load away that should have had its datum.  So, with nothing older *)
(* than it, the head of the reorder buffer has done what the in-order      *)
(* machine does next.                                                      *)
(***************************************************************************)

(* What an entry computes from the registers program order gives it.       *)
Result(s) == Execute(ins[s].I, ins[s].pc, val[Before(s)[ins[s].I.rs1]],
                                          val[Before(s)[ins[s].I.rs2]])
OutcomeOf(s) == [taken |-> Result(s).redirect, target |-> Result(s).target]

(* It has left the queue, so its sources had their values.                 *)
Issued(s) == ~IsSystem(ins[s].I) /\ \A q \in iq : q.slot # s

SourcesReady ==
  \A s \in LiveSlots : Issued(s) =>
    /\ UsesRs1(ins[s].I) => ready[Before(s)[ins[s].I.rs1]]
    /\ UsesRs2(ins[s].I) /\ ~IsStore(ins[s].I) => ready[Before(s)[ins[s].I.rs2]]

(* The older stores known to write the address of a load.                  *)
OlderStores(s) ==
  {t \in LiveSlots : /\ IsStore(ins[t].I) /\ lsq[t].addrValid
                     /\ lsq[t].addr = lsq[s].addr
                     /\ rob[t].seq < rob[s].seq}

Newest(t, s) == \A u \in OlderStores(s) : rob[u].seq <= rob[t].seq

(* v is what memory holds for load s, as far as addresses are known.       *)
Reads(s, v) ==
  lsq[s].addr \in Addrs =>
    /\ OlderStores(s) = {} => v = Settled[lsq[s].addr]
    /\ \A t \in OlderStores(s) : Newest(t, s) => lsq[t].dataReady /\ v = lsq[t].data

InFlightRight ==
  \A o \in ops :
    /\ o.outcome = OutcomeOf(o.slot)
    /\ o.unit # "load" => o.value = Result(o.slot).value
    /\ o.unit = "load" => Reads(o.slot, o.value)

AddressesRight ==
  \A s \in LiveSlots : IsMem(ins[s].I) /\ lsq[s].addrValid => lsq[s].addr = Result(s).value

ResultsRight ==
  \A s \in LiveSlots : done[s] /\ rob[s].pdst # NoReg =>
    IF IsLoad(ins[s].I) THEN Reads(s, val[rob[s].pdst])
                        ELSE val[rob[s].pdst] = Result(s).value

(* Where the path goes on after an entry: where it was predicted to, and   *)
(* once the entry is done where it does.                                   *)
Follow(s) == NextPc(ins[s].pc, IF done[s] THEN OutcomeOf(s) ELSE ins[s].pred)

OnPath ==
  /\ \A s \in LiveSlots : ~IsBranch(ins[s].I) => ins[s].pred = NotTaken
  /\ \A k \in Ages : Follow(Slot(k)) = IF k = robCount - 1 THEN fpc ELSE Ins(k + 1).pc

RefInv ==
  /\ BackInv
  /\ SourcesReady /\ InFlightRight /\ AddressesRight /\ ResultsRight /\ OnPath
-----------------------------------------------------------------------------
(* The steps, and what they leave of the entries that stay. *)

LEMMA Kinds ==
  ASSUME BackInv, RenameInv', [BackNext]_backVars
  PROVE  \/ \E new, I, pred : Admits(new, I, pred)
         \/ Issue \/ AccessLoad \/ CaptureStoreData \/ DrainStore \/ CommitFault
         \/ \E o : Resolves(o)
         \/ \E o : Completes(o)
         \/ Retires
         \/ UNCHANGED backVars
BY DispatchAdmits, ResolveResolves, WritebackCompletes, CommitRetires
   DEF BackNext, BackStep, Commits

(* An operand an instruction does not use does not matter to it.           *)
LEMMA ExecuteSame ==
  ASSUME NEW I, NEW pc, NEW a, NEW b, NEW c, NEW d,
         I.op \in {"alu", "load", "store", "branch", "jump", "sys", "show", "halt"},
         UsesRs1(I) => a = c, UsesRs2(I) /\ ~IsStore(I) => b = d
  PROVE  Execute(I, pc, a, b) = Execute(I, pc, c, d)
<1>1. CASE UsesRs1(I) /\ UsesRs2(I) /\ ~IsStore(I)
  BY <1>1
<1>2. CASE IsMem(I)
  <2>1. a = c /\ I.op # "alu" /\ I.op # "jump" /\ I.op # "branch"
    BY <1>2 DEF IsMem, UsesRs1
  <2> QED BY <1>2, <2>1 DEF Execute
<1>3. CASE I.op = "jump"
  <2>1. a = c /\ ~IsMem(I) /\ I.op # "alu"
    BY <1>3 DEF IsMem, UsesRs1
  <2> QED BY <1>3, <2>1 DEF Execute
<1>4. CASE I.op \in {"sys", "show", "halt"}
  <2>1. ~IsMem(I) /\ I.op # "alu" /\ I.op # "jump" /\ I.op # "branch"
    BY <1>4 DEF IsMem
  <2> QED BY <2>1 DEF Execute
<1> QED BY <1>1, <1>2, <1>3, <1>4 DEF UsesRs1, UsesRs2, IsStore, IsMem

LEMMA SourceInUse ==
  ASSUME BackInv, NEW s \in LiveSlots
  PROVE  /\ ins[s].I.rs1 \in ArchRegs /\ ins[s].I.rs2 \in ArchRegs
         /\ \A r \in ArchRegs : Before(s)[r] \in Pregs \ freeList
<1>1. s \in Slots /\ LiveSlots \subseteq Slots
  BY SlotFacts DEF BackInv, RenameInv, SlotsAre
<1>2. ins[s].I.rs1 \in ArchRegs /\ ins[s].I.rs2 \in ArchRegs
  BY <1>1, LiveIns DEF BackInv, Instructions
<1> QED BY <1>2, BeforeNamed, NamedIsUsed DEF BackInv

(* An entry that is still live after a step has kept its instruction, its  *)
(* registers and its map.                                                  *)
LEMMA EntryStays ==
  ASSUME BackInv, RenameInv', [BackNext]_backVars, NEW s \in LiveSlots \cap LiveSlots'
  PROVE  /\ ins'[s] = ins[s] /\ rob'[s] = rob[s] /\ Before(s)' = Before(s)
         /\ \A r \in ArchRegs : ready[Before(s)[r]] =>
              /\ ready'[Before(s)[r]]
              /\ val'[Before(s)[r]] = val[Before(s)[r]]
<1>1. ins'[s] = ins[s] /\ Kept
  <2>1. CASE ended = "no" /\ Dispatch
    <3>1. PICK new, I, pred : Admits(new, I, pred)
      BY <2>1, DispatchAdmits
    <3> QED BY <3>1, AdmitsFacts DEF Admits
  <2>2. CASE ~(ended = "no" /\ Dispatch)
    BY <2>2, OtherSteps DEF Shrinks
  <2> QED BY <2>1, <2>2
<1>2. ~(ended = "no" /\ CommitSyscall)
  <2> SUFFICES ASSUME ended = "no" /\ CommitSyscall PROVE FALSE
    OBVIOUS
  <2>1. Retires
    BY CommitRetires DEF Commits
  <2>2. robCount > 0 /\ IsSystem(RobHead.I)
    BY DEF CommitSyscall, IsSystem
  <2>3. LiveSlots' = {}
    BY <2>1, <2>2, SyscallAlone DEF Retires
  <2> QED BY <2>3
<1>3. \A r \in ArchRegs : Before(s)[r] \in Pregs \ freeList
  BY SourceInUse
<1> QED BY <1>1, <1>2, <1>3, ReadyValuesStay DEF Kept

(* An entry stays in the queue until it has issued or is squashed.         *)
LEMMA QueueKeeps ==
  ASSUME BackInv, RenameInv', [BackNext]_backVars, NEW q \in iq, q.slot \in LiveSlots',
         \A w \in iq' : w.slot # q.slot
  PROVE  /\ Issue /\ ~q.blocked1 /\ ~q.blocked2
         /\ UNCHANGED <<renameVars, ins, prf>>
<1> USE DEF BackInv
<1>1. CASE \E new, I, pred : Admits(new, I, pred)
  BY <1>1 DEF Admits
<1>2. CASE \E o : Resolves(o)
  BY <1>2 DEF Resolves
<1>3. CASE \E o : Completes(o)
  <2>1. PICK o : Completes(o)
    BY <1>3
  <2>2. CASE o.pdst = NoReg
    BY <2>1, <2>2 DEF Completes, Woken
  <2>3. CASE o.pdst # NoReg
    <3>1. Wake(q, o.pdst) \in Woken(o) /\ Wake(q, o.pdst).slot = q.slot
      BY <2>3, WakeIs DEF Woken, Shape
    <3> QED BY <2>1, <3>1 DEF Completes
  <2> QED BY <2>2, <2>3
<1>4. CASE Issue
  <2>1. PICK x \in iq : ~x.blocked1 /\ ~x.blocked2 /\ iq' = iq \ {x}
                        /\ UNCHANGED <<renameVars, ins, prf>>
    BY <1>4 DEF Issue
  <2>2. q = x
    BY <2>1
  <2> QED BY <1>4, <2>1, <2>2
<1>5. CASE AccessLoad \/ CaptureStoreData \/ DrainStore \/ CommitFault \/ Retires
           \/ UNCHANGED backVars
  <2>1. iq' = iq
    BY <1>5 DEF AccessLoad, CaptureStoreData, DrainStore, CommitFault, Retires, backVars
  <2> QED BY <2>1
<1> QED BY <1>1, <1>2, <1>3, <1>4, <1>5, Kinds

LEMMA QueueFrom ==
  ASSUME BackInv, RenameInv', [BackNext]_backVars, NEW w \in iq', w.slot \in LiveSlots
  PROVE  \E q \in iq : q.slot = w.slot
<1> USE DEF BackInv
<1>1. CASE \E new, I, pred : Admits(new, I, pred)
  <2>1. PICK new, I, pred : Admits(new, I, pred)
    BY <1>1
  <2>2. CASE IsSystem(I)
    BY <2>1, <2>2 DEF Admits
  <2>3. CASE ~IsSystem(I)
    <3>1. PICK q : iq' = iq \cup {q} /\ q.slot = new
      BY <2>1, <2>3, AdmitsQueue
    <3>2. new \notin LiveSlots
      BY <2>1 DEF Admits
    <3> QED BY <3>1, <3>2
  <2> QED BY <2>2, <2>3
<1>2. CASE \E o : Completes(o)
  <2>1. PICK o : Completes(o)
    BY <1>2
  <2>2. w \in Woken(o)
    BY <2>1 DEF Completes
  <2>3. PICK q \in iq : (o.pdst = NoReg /\ w = q) \/ (o.pdst # NoReg /\ w = Wake(q, o.pdst))
    BY <2>2, WokenIs
  <2>4. q \in QueueEntry
    BY DEF Shape
  <2> QED BY <2>3, <2>4, WakeIs
<1>3. CASE \E o : Resolves(o)
  BY <1>3 DEF Resolves
<1>4. CASE Issue
  BY <1>4 DEF Issue
<1>5. CASE AccessLoad \/ CaptureStoreData \/ DrainStore \/ CommitFault \/ Retires
           \/ UNCHANGED backVars
  <2>1. iq' = iq
    BY <1>5 DEF AccessLoad, CaptureStoreData, DrainStore, CommitFault, Retires, backVars
  <2> QED BY <2>1
<1> QED BY <1>1, <1>2, <1>3, <1>4, <1>5, Kinds

(* Once issued, an entry stays so, and its result is settled.              *)
LEMMA ResultStays ==
  ASSUME BackInv, SourcesReady, RenameInv', [BackNext]_backVars,
         NEW s \in LiveSlots \cap LiveSlots', Issued(s)
  PROVE  Issued(s)' /\ Result(s)' = Result(s) /\ OutcomeOf(s)' = OutcomeOf(s)
<1>1. /\ ins'[s] = ins[s] /\ Before(s)' = Before(s)
      /\ \A r \in ArchRegs : ready[Before(s)[r]] =>
           /\ ready'[Before(s)[r]]
           /\ val'[Before(s)[r]] = val[Before(s)[r]]
  BY EntryStays
<1>2. Issued(s)'
  BY <1>1, QueueFrom DEF Issued
<1>3. ins[s].I.rs1 \in ArchRegs /\ ins[s].I.rs2 \in ArchRegs
  BY SourceInUse
<1>4. /\ UsesRs1(ins[s].I) =>
           val[Before(s)[ins[s].I.rs1]] = val'[Before(s)[ins[s].I.rs1]]
      /\ UsesRs2(ins[s].I) /\ ~IsStore(ins[s].I) =>
           val[Before(s)[ins[s].I.rs2]] = val'[Before(s)[ins[s].I.rs2]]
  BY <1>1, <1>3 DEF SourcesReady
<1>5. ins[s].I.op \in {"alu", "load", "store", "branch", "jump", "sys", "show", "halt"}
  BY LiveIns, SlotFacts DEF BackInv, RenameInv, SlotsAre, Instructions
<1>6. Execute(ins[s].I, ins[s].pc, val[Before(s)[ins[s].I.rs1]], val[Before(s)[ins[s].I.rs2]])
      = Execute(ins[s].I, ins[s].pc, val'[Before(s)[ins[s].I.rs1]], val'[Before(s)[ins[s].I.rs2]])
  BY <1>4, <1>5, ExecuteSame
<1>7. Result(s)' = Result(s)
  BY <1>1, <1>6 DEF Result
<1> QED BY <1>2, <1>7 DEF OutcomeOf

LEMMA SourcesReadyNext ==
  ASSUME BackInv, SourcesReady, RenameInv', [BackNext]_backVars
  PROVE  SourcesReady'
<1> USE DEF BackInv
<1>1. ASSUME NEW s \in LiveSlots', Issued(s)'
      PROVE  /\ UsesRs1(ins'[s].I) => ready'[Before(s)'[ins'[s].I.rs1]]
             /\ UsesRs2(ins'[s].I) /\ ~IsStore(ins'[s].I) => ready'[Before(s)'[ins'[s].I.rs2]]
  <2>1. CASE s \in LiveSlots
    <3>1. /\ ins'[s] = ins[s] /\ Before(s)' = Before(s)
          /\ \A r \in ArchRegs : ready[Before(s)[r]] => ready'[Before(s)[r]]
      BY <2>1, EntryStays
    <3>2. ins[s].I.rs1 \in ArchRegs /\ ins[s].I.rs2 \in ArchRegs
      BY <2>1, SourceInUse
    <3>3. CASE Issued(s)
      BY <2>1, <3>1, <3>2, <3>3 DEF SourcesReady
    <3>4. CASE ~Issued(s)
      <4>1. PICK q \in iq : q.slot = s
        BY <1>1, <3>1, <3>4 DEF Issued
      <4>2. ~q.blocked1 /\ ~q.blocked2
        BY <1>1, <4>1, QueueKeeps DEF Issued
      <4>3. /\ UsesRs1(ins[s].I) => ready[Before(s)[ins[s].I.rs1]]
            /\ UsesRs2(ins[s].I) /\ ~IsStore(ins[s].I) => ready[Before(s)[ins[s].I.rs2]]
        BY <4>1, <4>2 DEF SourcesWatched
      <4> QED BY <3>1, <3>2, <4>3
    <3> QED BY <3>3, <3>4
  <2>2. CASE s \notin LiveSlots
    <3>1. CASE ended = "no" /\ Dispatch
      <4>1. PICK new, I, pred : Admits(new, I, pred)
        BY <3>1, DispatchAdmits
      <4>2. s = new
        BY <2>2, <4>1 DEF Admits
      <4>3. s = new /\ ins'[s].I = I
        BY <4>1, <4>2, AdmitsFacts
      <4>4. ~IsSystem(I)
        BY <1>1, <4>3 DEF Issued
      <4>5. \E q \in iq' : q.slot = s
        BY <4>1, <4>3, <4>4, AdmitsQueue
      <4> QED BY <1>1, <4>5 DEF Issued
    <3>2. CASE ~(ended = "no" /\ Dispatch)
      BY <2>2, <3>2, OtherSteps DEF Shrinks
    <3> QED BY <3>1, <3>2
  <2> QED BY <2>1, <2>2
<1> QED BY <1>1 DEF SourcesReady
-----------------------------------------------------------------------------
(* Settled memory: what the committed stores on their way make of it. *)

LEMMA YoungestOne ==
  ASSUME NEW n \in Nat, NEW S, S \subseteq 0 .. n, NEW m \in S, \A i \in S : i <= m
  PROVE  Youngest(S) = m
<1>1. PICK y : y = Youngest(S)
  OBVIOUS
<1>2. y \in S /\ \A i \in S : i <= y
  BY <1>1, YoungestIs
<1>3. m \in 0 .. n /\ y \in 0 .. n /\ m <= y /\ y <= m
  BY <1>2
<1> QED BY <1>1, <1>3

LEMMA BufferedIs ==
  ASSUME Shape, NEW a
  PROVE  /\ Len(sb) \in Nat /\ Buffered(a) \subseteq 0 .. Len(sb)
         /\ Buffered(a) \subseteq 1 .. Len(sb)
<1>1. Len(sb) \in Nat
  BY DEF Shape
<1> QED BY <1>1 DEF Buffered

(* A store that reaches memory was in force already.                       *)
LEMMA SettledDrain ==
  ASSUME Shape, DrainStore
  PROVE  Settled' = Settled
<1>1. PICK S : S = [addr : Addrs, data : Values]
  OBVIOUS
<1>2. sb \in Seq(S) /\ sb # <<>> /\ sb' = Tail(sb)
      /\ mem' = [mem EXCEPT ![sb[1].addr] = sb[1].data]
  BY <1>1 DEF Shape, DrainStore
<1>3. Len(sb) \in Nat /\ Len(sb) > 0 /\ Len(sb') = Len(sb) - 1
      /\ \A i \in 1 .. Len(sb) - 1 : sb'[i] = sb[i + 1]
  BY <1>2
<1> SUFFICES ASSUME NEW a \in Addrs
             PROVE  (IF Buffered(a)' = {} THEN mem'[a] ELSE sb'[Youngest(Buffered(a)')].data)
                    = (IF Buffered(a) = {} THEN mem[a] ELSE sb[Youngest(Buffered(a))].data)
  BY DEF Settled, Youngest
<1>4. Buffered(a) \subseteq 0 .. Len(sb) /\ Buffered(a) \subseteq 1 .. Len(sb)
      /\ Buffered(a)' \subseteq 0 .. Len(sb) /\ Buffered(a)' \subseteq 1 .. Len(sb) - 1
  BY <1>3 DEF Buffered
<1>5. \A i \in 1 .. Len(sb) - 1 : i \in Buffered(a)' <=> i + 1 \in Buffered(a)
  BY <1>3 DEF Buffered
<1>6. 1 \in Buffered(a) <=> sb[1].addr = a
  BY <1>3 DEF Buffered
<1>7. mem'[a] = IF sb[1].addr = a THEN sb[1].data ELSE mem[a]
  BY <1>2 DEF Shape
<1>8. CASE Buffered(a) = {}
  BY <1>4, <1>5, <1>6, <1>7, <1>8
<1>9. CASE Buffered(a) # {} /\ Buffered(a)' = {}
  <2>1. Buffered(a) \subseteq {1}
    <3> SUFFICES ASSUME NEW i \in Buffered(a), i # 1 PROVE FALSE
      OBVIOUS
    <3>1. i - 1 \in 1 .. Len(sb) - 1 /\ (i - 1) + 1 = i
      BY <1>3, <1>4
    <3> QED BY <1>5, <1>9, <3>1
  <2>2. 1 \in Buffered(a) /\ \A i \in Buffered(a) : i <= 1
    BY <1>9, <2>1
  <2>3. Youngest(Buffered(a)) = 1
    BY <1>3, <1>4, <2>2, YoungestOne
  <2> QED BY <1>6, <1>7, <1>9, <2>2, <2>3
<1>10. CASE Buffered(a)' # {}
  <2>1. PICK y : y = Youngest(Buffered(a)')
    OBVIOUS
  <2>2. y \in Buffered(a)' /\ \A i \in Buffered(a)' : i <= y
    BY <1>3, <1>4, <1>10, <2>1, YoungestIs
  <2>3. y \in 1 .. Len(sb) - 1 /\ y + 1 \in Buffered(a)
    BY <1>4, <1>5, <2>2
  <2>4. ASSUME NEW i \in Buffered(a) PROVE i <= y + 1
    <3>1. CASE i = 1
      BY <2>3, <3>1
    <3>2. CASE i # 1
      <4>1. i - 1 \in 1 .. Len(sb) - 1 /\ (i - 1) + 1 = i /\ i \in Nat
        BY <1>3, <1>4, <3>2
      <4>2. i - 1 \in Buffered(a)'
        BY <1>5, <4>1
      <4>3. i - 1 <= y
        BY <2>2, <4>2
      <4> QED BY <2>3, <4>1, <4>3
    <3> QED BY <3>1, <3>2
  <2>5. Youngest(Buffered(a)) = y + 1
    BY <1>3, <1>4, <2>3, <2>4, YoungestOne
  <2> QED BY <1>3, <1>10, <2>1, <2>3, <2>5
<1> QED BY <1>8, <1>9, <1>10

(* A store is in force as soon as it commits.                              *)
LEMMA SettledAppend ==
  ASSUME Shape, NEW x \in Addrs, NEW d \in Values,
         sb' = Append(sb, [addr |-> x, data |-> d]), mem' = mem
  PROVE  Settled' = [Settled EXCEPT ![x] = d]
<1>1. PICK S : S = [addr : Addrs, data : Values]
  OBVIOUS
<1>2. PICK e : e = [addr |-> x, data |-> d]
  OBVIOUS
<1>3. sb \in Seq(S) /\ sb' = Append(sb, e) /\ e.addr = x /\ e.data = d
  BY <1>1, <1>2 DEF Shape
<1>4. Len(sb) \in Nat /\ Len(sb') = Len(sb) + 1 /\ sb'[Len(sb) + 1] = e
      /\ \A i \in 1 .. Len(sb) : sb'[i] = sb[i]
  BY <1>3
<1> SUFFICES ASSUME NEW a \in Addrs
             PROVE  (IF Buffered(a)' = {} THEN mem'[a] ELSE sb'[Youngest(Buffered(a)')].data)
                    = (IF a = x THEN d ELSE
                       IF Buffered(a) = {} THEN mem[a] ELSE sb[Youngest(Buffered(a))].data)
  BY DEF Settled, Youngest
<1>5. Buffered(a) \subseteq 0 .. Len(sb) /\ Buffered(a) \subseteq 1 .. Len(sb)
      /\ Buffered(a)' \subseteq 0 .. Len(sb) + 1
  BY <1>4 DEF Buffered
<1>6. CASE a = x
  <2>1. Len(sb) + 1 \in Buffered(a)' /\ \A i \in Buffered(a)' : i <= Len(sb) + 1
    BY <1>3, <1>4, <1>6 DEF Buffered
  <2>2. Youngest(Buffered(a)') = Len(sb) + 1
    BY <1>4, <1>5, <2>1, YoungestOne
  <2> QED BY <1>3, <1>4, <1>6, <2>1, <2>2
<1>7. CASE a # x
  <2>1. Buffered(a)' = Buffered(a)
    BY <1>3, <1>4, <1>7 DEF Buffered
  <2>2. Buffered(a) # {} => Youngest(Buffered(a)) \in 1 .. Len(sb)
    BY <1>4, <1>5, YoungestIs
  <2> QED BY <1>4, <1>7, <2>1, <2>2
<1> QED BY <1>6, <1>7

LEMMA SettledSame ==
  ASSUME UNCHANGED memory
  PROVE  Settled' = Settled
BY DEF memory, Settled, Buffered, Youngest
-----------------------------------------------------------------------------
(* What a load has read stays what memory holds for it. *)

(* But for a commit, what is older than an entry stays the same.           *)
LEMMA OlderLive ==
  ASSUME BackInv, (\E new, I, pred : Admits(new, I, pred)) \/ Squashes,
         NEW s \in LiveSlots \cap LiveSlots', NEW t
  PROVE  /\ t \in LiveSlots' /\ rob'[t].seq < rob'[s].seq <=> t \in LiveSlots /\ rob[t].seq < rob[s].seq
         /\ t \in LiveSlots /\ rob[t].seq < rob[s].seq => rob'[t] = rob[t]
<1>0. /\ \A x \in LiveSlots : rob[x].seq \in Nat /\ rob[x].seq < seqCtr
      /\ seqCtr \in Nat
  BY SeqBySlot DEF BackInv, RenameInv, RenameTypeOK
<1>1. CASE \E new, I, pred : Admits(new, I, pred)
  <2>1. PICK new, I, pred : Admits(new, I, pred)
    BY <1>1
  <2>2. \A x \in LiveSlots : x \in LiveSlots' /\ rob'[x] = rob[x]
    BY <2>1, AdmitsFacts
  <2>3. LiveSlots' = LiveSlots \cup {new} /\ rob'[new].seq = seqCtr
    BY <2>1 DEF Admits
  <2>4. ~(rob'[new].seq < rob'[s].seq)
    BY <1>0, <2>2, <2>3
  <2> QED BY <1>0, <2>2, <2>3, <2>4
<1>2. CASE Squashes
  <2>1. /\ LiveSlots' \subseteq LiveSlots
        /\ \A x \in LiveSlots' : rob'[x] = rob[x]
        /\ \A x \in LiveSlots : rob[x].seq <= rob[s].seq => x \in LiveSlots'
    BY <1>2 DEF Squashes, Shrinks, Kept
  <2> QED BY <1>0, <2>1
<1> QED BY <1>1, <1>2

(* A load's address is given once.                                         *)
LEMMA LoadKeepsAddress ==
  ASSUME BackInv, RenameInv', [BackNext]_backVars,
         NEW s \in LiveSlots \cap LiveSlots', IsLoad(ins[s].I), lsq[s].addrValid
  PROVE  lsq'[s] = lsq[s]
<1> USE DEF BackInv
<1>0. LiveSlots \subseteq Slots /\ SlotsAre
  BY SlotFacts DEF RenameInv, SlotsAre
<1>1. CASE \E new, I, pred : Admits(new, I, pred)
  BY <1>1, AdmitsFacts
<1>2. CASE AccessLoad
  <2>1. PICK o \in ops : /\ o.unit = "agu" /\ IsLoad(ins[o.slot].I)
                         /\ lsq' = [lsq EXCEPT ![o.slot].addrValid = TRUE, ![o.slot].addr = o.value]
    BY <1>2 DEF AccessLoad
  <2>2. o.slot # s /\ o.slot \in Slots /\ o.value \in Values
    BY <1>0, <2>1 DEF Matched, Shape
  <2> QED BY <1>0, <2>1, <2>2, LsqAddr DEF Shape
<1>3. CASE \E o : Resolves(o)
  <2>1. PICK o : Resolves(o)
    BY <1>3
  <2>2. o.slot # s
    BY <2>1 DEF Resolves, IsLoad, IsStore
  <2>3. o \in ops /\ lsq' = [lsq EXCEPT ![o.slot].addrValid = TRUE, ![o.slot].addr = o.value]
    BY <2>1 DEF Resolves
  <2>4. o.slot \in Slots /\ o.value \in Values
    BY <1>0, <2>3 DEF Matched, Shape
  <2> QED BY <1>0, <2>2, <2>3, <2>4, LsqAddr DEF Shape
<1>4. CASE CaptureStoreData
  <2>1. PICK k, t : /\ k \in Ages /\ t = Slot(k) /\ IsStore(Ins(k).I)
                    /\ lsq' = [lsq EXCEPT ![t].dataReady = TRUE, ![t].data = val[lsq[t].preg]]
    BY <1>4 DEF CaptureStoreData
  <2>2. t # s
    BY <2>1 DEF Ins, IsLoad, IsStore
  <2> QED BY <1>0, <2>1, <2>2 DEF Shape
<1>5. CASE Issue \/ DrainStore \/ CommitFault \/ UNCHANGED backVars
  BY <1>5 DEF Issue, DrainStore, CommitFault, backVars
<1>6. CASE Retires \/ \E o : Completes(o)
  BY <1>6 DEF Retires, Completes
<1> QED BY <1>1, <1>2, <1>3, <1>4, <1>5, <1>6, Kinds

LEMMA ReadsSame ==
  ASSUME NEW s, NEW v, Reads(s, v), lsq'[s].addr = lsq[s].addr,
         OlderStores(s)' = OlderStores(s), Settled' = Settled,
         \A t \in OlderStores(s) :
           /\ rob'[t] = rob[t]
           /\ lsq[t].dataReady => lsq'[t].dataReady /\ lsq'[t].data = lsq[t].data
  PROVE  Reads(s, v)'
BY DEF Reads, Newest

(* The older stores known to write an address change only where one        *)
(* resolves or the oldest commits.                                         *)
LEMMA ReadsStays ==
  ASSUME BackInv, RenameInv', [BackNext]_backVars,
         NEW s \in LiveSlots \cap LiveSlots', IsLoad(ins[s].I), lsq[s].addrValid,
         NEW v, Reads(s, v)
  PROVE  Reads(s, v)'
<1> USE DEF BackInv
<1>0. LiveSlots \subseteq Slots /\ SlotsAre
  BY SlotFacts DEF RenameInv, SlotsAre
<1>1. lsq'[s] = lsq[s]
  BY LoadKeepsAddress
<1>2. ASSUME (\E new, I, pred : Admits(new, I, pred)) \/ Squashes,
             Settled' = Settled,
             \A t \in LiveSlots \cap LiveSlots' :
               /\ ins'[t] = ins[t]
               /\ IsStore(ins[t].I) =>
                    /\ (lsq'[t].addrValid /\ lsq'[t].addr = lsq[s].addr) <=>
                         (lsq[t].addrValid /\ lsq[t].addr = lsq[s].addr)
                    /\ lsq[t].dataReady => lsq'[t].dataReady /\ lsq'[t].data = lsq[t].data
      PROVE  Reads(s, v)'
  <2>1. \A t : /\ t \in LiveSlots' /\ rob'[t].seq < rob'[s].seq
                    <=> t \in LiveSlots /\ rob[t].seq < rob[s].seq
               /\ t \in LiveSlots /\ rob[t].seq < rob[s].seq => rob'[t] = rob[t]
    BY <1>2, OlderLive
  <2>2. OlderStores(s)' = OlderStores(s)
    <3>1. \A t : t \in OlderStores(s)' <=> t \in OlderStores(s)
      BY <1>1, <1>2, <2>1 DEF OlderStores
    <3> QED BY <3>1 DEF OlderStores
  <2>3. \A t \in OlderStores(s) :
           /\ rob'[t] = rob[t]
           /\ lsq[t].dataReady => lsq'[t].dataReady /\ lsq'[t].data = lsq[t].data
    BY <1>2, <2>1 DEF OlderStores
  <2> QED BY <1>1, <1>2, <2>2, <2>3, ReadsSame
<1>3. CASE lsq[s].addr \notin Addrs
  BY <1>1, <1>3 DEF Reads
<1>4. CASE lsq[s].addr \in Addrs
  <2>1. CASE \E new, I, pred : Admits(new, I, pred)
    <3>1. UNCHANGED memory
      BY <2>1 DEF Admits
    <3>2. \A t \in LiveSlots : ins'[t] = ins[t] /\ lsq'[t] = lsq[t]
      BY <2>1, AdmitsFacts
    <3> QED BY <1>2, <2>1, <3>1, <3>2, SettledSame
  <2>2. CASE AccessLoad
    <3>1. PICK o \in ops : /\ IsLoad(ins[o.slot].I)
                           /\ lsq' = [lsq EXCEPT ![o.slot].addrValid = TRUE, ![o.slot].addr = o.value]
                           /\ UNCHANGED <<renameVars, ins, memory>>
      BY <2>2 DEF AccessLoad
    <3>2. o.slot \in Slots /\ o.value \in Values
      BY <1>0 DEF Matched, Shape
    <3>3. \A t \in LiveSlots : IsStore(ins[t].I) => lsq'[t] = lsq[t]
      BY <1>0, <3>1, <3>2, LsqAddr DEF Shape, IsLoad, IsStore
    <3> QED BY <1>2, <3>1, <3>3, SettledSame, StillSquashes
  <2>3. CASE \E o : Resolves(o)
    <3>1. PICK o : Resolves(o)
      BY <2>3
    <3>2. /\ o \in ops /\ IsStore(ins[o.slot].I) /\ o.slot \in LiveSlots'
          /\ lsq' = [lsq EXCEPT ![o.slot].addrValid = TRUE, ![o.slot].addr = o.value]
          /\ o.value = lsq[s].addr => rob[s].seq < rob[o.slot].seq
          /\ Squashes /\ UNCHANGED <<ins, memory>>
      BY <1>4, <3>1 DEF Resolves
    <3>3. o.slot \in Slots /\ o.slot \in LiveSlots /\ o.value \in Values /\ ~lsq[o.slot].addrValid
      BY <1>0, <3>2 DEF Matched, Shape, Busy
    <3>4. /\ \A t \in LiveSlots : t # o.slot => lsq'[t] = lsq[t]
          /\ lsq'[o.slot].addr = o.value
      BY <1>0, <3>2, <3>3, LsqAddr DEF Shape
    <3>5. CASE o.value # lsq[s].addr
      <4>1. /\ lsq'[o.slot].dataReady = lsq[o.slot].dataReady
            /\ lsq'[o.slot].data = lsq[o.slot].data
        BY <3>2, <3>3, LsqAddr DEF Shape
      <4> QED BY <1>2, <3>2, <3>3, <3>4, <3>5, <4>1, SettledSame
    <3>6. CASE o.value = lsq[s].addr
      <4>1. rob[s].seq < rob[o.slot].seq
        BY <3>2, <3>6
      <4>2. \A t : /\ t \in LiveSlots' /\ rob'[t].seq < rob'[s].seq
                        <=> t \in LiveSlots /\ rob[t].seq < rob[s].seq
                   /\ t \in LiveSlots /\ rob[t].seq < rob[s].seq => rob'[t] = rob[t]
        BY <3>2, OlderLive
      <4>3. ~(rob[o.slot].seq < rob[s].seq)
        <5>1. rob[s].seq \in Nat /\ rob[o.slot].seq \in Nat
          BY <3>3, SeqBySlot DEF RenameInv
        <5> QED BY <4>1, <5>1
      <4>4. \A t : t \in LiveSlots /\ rob[t].seq < rob[s].seq => lsq'[t] = lsq[t]
        BY <3>4, <4>3
      <4>5. OlderStores(s)' = OlderStores(s)
        <5>1. \A t : t \in OlderStores(s)' <=> t \in OlderStores(s)
          BY <1>1, <3>2, <4>2, <4>4 DEF OlderStores
        <5> QED BY <5>1 DEF OlderStores
      <4>6. \A t \in OlderStores(s) :
              /\ rob'[t] = rob[t]
              /\ lsq[t].dataReady => lsq'[t].dataReady /\ lsq'[t].data = lsq[t].data
        BY <4>2, <4>4 DEF OlderStores
      <4> QED BY <1>1, <3>2, <4>5, <4>6, ReadsSame, SettledSame
    <3> QED BY <3>5, <3>6
  <2>4. CASE CaptureStoreData
    <3>1. PICK k, t : /\ k \in Ages /\ t = Slot(k) /\ ~lsq[t].dataReady
                      /\ lsq' = [lsq EXCEPT ![t].dataReady = TRUE, ![t].data = val[lsq[t].preg]]
                      /\ UNCHANGED <<renameVars, ins, memory>>
      BY <2>4 DEF CaptureStoreData
    <3>2. \A u \in LiveSlots : /\ u # t => lsq'[u] = lsq[u]
                               /\ lsq'[u].addrValid = lsq[u].addrValid
                               /\ lsq'[u].addr = lsq[u].addr
      BY <1>0, <3>1 DEF Shape, LsqEntry
    <3> QED BY <1>2, <3>1, <3>2, SettledSame, StillSquashes
  <2>5. CASE DrainStore
    <3>1. UNCHANGED <<renameVars, ins, lsq>>
      BY <2>5 DEF DrainStore
    <3> QED BY <1>2, <2>5, <3>1, SettledDrain, StillSquashes
  <2>6. CASE Issue \/ CommitFault \/ UNCHANGED backVars
    <3>1. UNCHANGED <<renameVars, ins, lsq, memory>>
      BY <2>6 DEF Issue, CommitFault, backVars
    <3> QED BY <1>2, <3>1, SettledSame, StillSquashes
  <2>7. CASE \E o : Completes(o)
    <3>1. Squashes /\ UNCHANGED <<ins, lsq, memory>>
      BY <2>7 DEF Completes
    <3> QED BY <1>2, <3>1, SettledSame
  <2>8. CASE Retires
    <3> DEFINE h == robHead
    <3>1. /\ h \in LiveSlots /\ LiveSlots' = LiveSlots \ {h} /\ done[h] /\ rob' = rob
          /\ UNCHANGED <<ins, lsq, mem>>
      BY <2>8 DEF Retires, RenameCommit
    <3>2. rob[h].seq < rob[s].seq /\ \A t \in LiveSlots : rob[t].seq \in Nat
      BY <3>1, SeqBySlot DEF RenameInv
    <3>3. OlderStores(s)' = OlderStores(s) \ {h}
      BY <3>1 DEF OlderStores
    <3>4. CASE ~IsStore(ins[h].I)
      <4>1. OlderStores(s)' = OlderStores(s)
        BY <3>3, <3>4 DEF OlderStores
      <4>2. Settled' = Settled
        BY <2>8, <3>1, <3>4, SettledSame DEF Retires, memory
      <4> QED BY <3>1, <4>1, <4>2, ReadsSame
    <3>5. CASE IsStore(ins[h].I)
      <4>1. /\ lsq[h].addrValid /\ lsq[h].dataReady
            /\ lsq[h].addr \in Addrs /\ lsq[h].data \in Values
            /\ sb' = Append(sb, [addr |-> lsq[h].addr, data |-> lsq[h].data])
        BY <1>0, <2>8, <3>1, <3>5 DEF Retires, DoneMeans, Shape, LsqEntry
      <4>2. Settled' = [Settled EXCEPT ![lsq[h].addr] = lsq[h].data]
        BY <3>1, <4>1, SettledAppend
      <4>3. Settled'[lsq[s].addr] = IF lsq[h].addr = lsq[s].addr THEN lsq[h].data
                                    ELSE Settled[lsq[s].addr]
        BY <1>4, <4>2 DEF Settled
      <4>4. h \in OlderStores(s) <=> lsq[h].addr = lsq[s].addr
        BY <3>1, <3>2, <3>5, <4>1 DEF OlderStores
      <4>5. ASSUME OlderStores(s)' = {} PROVE v = Settled'[lsq[s].addr]
        <5>1. CASE h \in OlderStores(s)
          <6>1. OlderStores(s) = {h}
            BY <3>3, <4>5, <5>1
          <6>2. Newest(h, s)
            BY <3>1, <3>2, <6>1 DEF Newest
          <6> QED BY <1>4, <4>3, <4>4, <5>1, <6>2 DEF Reads
        <5>2. CASE h \notin OlderStores(s)
          <6>1. OlderStores(s) = {}
            BY <3>3, <4>5, <5>2
          <6> QED BY <1>4, <4>3, <4>4, <5>2, <6>1 DEF Reads
        <5> QED BY <5>1, <5>2
      <4>6. ASSUME NEW t \in OlderStores(s)', Newest(t, s)'
            PROVE  lsq'[t].dataReady /\ v = lsq'[t].data
        <5>1. t \in OlderStores(s) /\ t \in LiveSlots /\ t # h
          BY <3>3, <4>6 DEF OlderStores
        <5>2. \A u \in OlderStores(s) : u # h => rob[u].seq <= rob[t].seq
          BY <3>1, <3>3, <4>6 DEF Newest
        <5>3. rob[h].seq < rob[t].seq
          BY <5>1, SeqBySlot DEF RenameInv
        <5>4. Newest(t, s)
          BY <3>1, <3>2, <5>1, <5>2, <5>3 DEF Newest
        <5> QED BY <1>4, <3>1, <5>1, <5>4 DEF Reads
      <4> QED BY <1>1, <4>5, <4>6 DEF Reads
    <3> QED BY <3>4, <3>5
  <2> QED BY <2>1, <2>2, <2>3, <2>4, <2>5, <2>6, <2>7, <2>8, Kinds
<1> QED BY <1>3, <1>4
-----------------------------------------------------------------------------
(* Results stay right. *)

(* What is in flight or finished has issued.                               *)
LEMMA HaveIssued ==
  ASSUME BackInv
  PROVE  /\ \A o \in ops : o.slot \in LiveSlots /\ Issued(o.slot)
         /\ \A s \in LiveSlots :
              /\ done[s] /\ ~IsSystem(ins[s].I) => Issued(s)
              /\ IsMem(ins[s].I) /\ lsq[s].addrValid => Issued(s)
<1> USE DEF BackInv
<1>1. ASSUME NEW o \in ops PROVE o.slot \in LiveSlots /\ Issued(o.slot)
  <2>1. o.slot \in LiveSlots /\ Busy(o.slot) /\ \A q \in iq : q.slot # o.slot
    BY DEF Matched
  <2>2. ~IsSystem(ins[o.slot].I)
    BY <2>1 DEF DoneMeans, Busy, IsSystem, IsStore
  <2> QED BY <2>1, <2>2 DEF Issued
<1>2. ASSUME NEW s \in LiveSlots, done[s], ~IsSystem(ins[s].I) PROVE Issued(s)
  BY <1>2, IdleWhenDone DEF Issued
<1>3. ASSUME NEW s \in LiveSlots, IsMem(ins[s].I), lsq[s].addrValid PROVE Issued(s)
  <2>1. IsLoad(ins[s].I) \/ IsStore(ins[s].I)
    BY <1>3 DEF IsMem, IsLoad, IsStore
  <2>2. ~IsSystem(ins[s].I)
    BY <1>3 DEF IsMem, IsSystem
  <2>3. \A q \in iq : q.slot # s
    BY <1>3, <2>1 DEF Matched, Busy
  <2> QED BY <2>2, <2>3 DEF Issued
<1> QED BY <1>1, <1>2, <1>3

(* A load that leaves the AGU reads what memory holds for it.              *)
LEMMA AccessReads ==
  ASSUME BackInv, RenameInv', NEW o \in ops, NEW k \in Ages,
         IsLoad(ins[o.slot].I), o.slot = Slot(k), ~Blocked(k, o.value),
         lsq' = [lsq EXCEPT ![o.slot].addrValid = TRUE, ![o.slot].addr = o.value],
         UNCHANGED <<renameVars, ins, memory>>,
         NEW v, v = LoadValue(k, o.value)
  PROVE  Reads(o.slot, v)'
<1> USE DEF BackInv
<1> DEFINE s == o.slot
           K == KnownStores(k, o.value)
<1>0. LiveSlots \subseteq Slots /\ SlotsAre /\ robCount \in Nat
  BY SlotFacts DEF RenameInv, SlotsAre
<1>1. s \in LiveSlots /\ s \in Slots /\ o.value \in Values
  BY <1>0 DEF Matched, Shape
<1>2. /\ lsq'[s].addr = o.value
      /\ \A t \in Slots : t # s => lsq'[t] = lsq[t]
  BY <1>1, LsqAddr DEF Shape
<1>3. LiveSlots' = LiveSlots /\ rob' = rob /\ Settled' = Settled
  BY Still, SettledSame DEF renameVars
<1>4. ~IsStore(ins[s].I)
  BY DEF IsLoad, IsStore
<1>5. \A i, j \in Ages : Nth(i).seq \in Nat /\ Nth(i) = rob[Slot(i)]
                         /\ (i < j => Nth(i).seq < Nth(j).seq)
  <2>1. \A i, j \in Ages : i < j => i \in 0 .. j - 1
    BY <1>0 DEF Ages
  <2>2. \A i \in Ages : Nth(i).seq \in Nat
    BY NthType DEF RenameInv, Ages
  <2> QED BY <1>0, <2>1, <2>2 DEF SeqOrder, SlotsAre
<1>6. ASSUME NEW j \in Ages PROVE j \in K <=> Slot(j) \in OlderStores(s)'
  <2>1. Slot(j) \in LiveSlots /\ ins[Slot(j)] = Ins(j)
    BY DEF LiveSlots, Ins
  <2>2. rob[Slot(j)].seq < rob[s].seq <=> j < k
    BY <1>0, <1>5 DEF Ages
  <2>3. j \in 0 .. k - 1 <=> j < k
    BY <1>0 DEF Ages
  <2>4. IsStore(Ins(j).I) => lsq'[Slot(j)] = lsq[Slot(j)]
    BY <1>0, <1>2, <1>4, <2>1
  <2> QED BY <1>2, <1>3, <2>1, <2>2, <2>3, <2>4 DEF KnownStores, OlderStores
<1>7. K \subseteq Ages /\ K \subseteq 0 .. robCount
  BY <1>0 DEF KnownStores, Ages
<1>8. CASE o.value \notin Addrs
  BY <1>2, <1>8 DEF Reads
<1>9. CASE o.value \in Addrs /\ K = {}
  <2>1. OlderStores(s)' = {}
    <3>1. \A t \in OlderStores(s)' : \E j \in Ages : t = Slot(j)
      BY <1>3 DEF OlderStores, LiveSlots
    <3> QED BY <1>6, <1>9, <3>1
  <2>2. v = Settled[o.value]
    BY <1>9 DEF LoadValue, Settled
  <2> QED BY <1>2, <1>3, <2>1, <2>2 DEF Reads
<1>10. CASE o.value \in Addrs /\ K # {}
  <2>1. PICK y : y = Youngest(K)
    OBVIOUS
  <2>2. y \in K /\ \A j \in K : j <= y
    BY <1>0, <1>7, <1>10, <2>1, YoungestIs
  <2>3. v = lsq[Slot(y)].data /\ lsq[Slot(y)].dataReady
    BY <1>10, <2>1 DEF LoadValue, Blocked
  <2>4. y \in Ages /\ Slot(y) \in OlderStores(s)'
    BY <1>6, <1>7, <2>2
  <2>5. ASSUME NEW t \in OlderStores(s)', Newest(t, s)' PROVE t = Slot(y)
    <3>1. PICK j \in Ages : t = Slot(j)
      BY <1>3 DEF OlderStores, LiveSlots
    <3>2. j \in K
      BY <1>6, <3>1
    <3>3. rob[Slot(y)].seq <= rob[t].seq
      BY <1>3, <2>4, <2>5 DEF Newest
    <3>4. ~(j < y)
      BY <1>5, <2>4, <3>1, <3>3
    <3>5. j = y
      BY <1>0, <2>2, <2>4, <3>2, <3>4 DEF Ages
    <3> QED BY <3>1, <3>5
  <2>6. lsq'[Slot(y)] = lsq[Slot(y)]
    <3>1. Slot(y) # s
      BY <1>4, <2>2 DEF KnownStores, Ins
    <3> QED BY <1>0, <1>2, <2>4, <3>1 DEF SlotsAre
  <2> QED BY <2>3, <2>4, <2>5, <2>6 DEF Reads
<1> QED BY <1>8, <1>9, <1>10

LEMMA InFlightNext ==
  ASSUME BackInv, SourcesReady, InFlightRight, RenameInv', [BackNext]_backVars
  PROVE  InFlightRight'
<1> USE DEF BackInv
<1>0. Matched' /\ LiveSlots \subseteq Slots
  BY MatchedNext, SlotFacts DEF RenameInv, SlotsAre
<1>1. ASSUME NEW o \in ops, o.slot \in LiveSlots'
      PROVE  /\ o.outcome = OutcomeOf(o.slot)'
             /\ o.unit # "load" => o.value = Result(o.slot)'.value
             /\ o.unit = "load" => Reads(o.slot, o.value)'
  <2>1. PICK s, v : s = o.slot /\ v = o.value
    OBVIOUS
  <2>2. s \in LiveSlots \cap LiveSlots' /\ Issued(s)
    BY <1>1, <2>1, HaveIssued
  <2>3. Result(s)' = Result(s) /\ OutcomeOf(s)' = OutcomeOf(s)
    BY <2>2, ResultStays
  <2>4. Result(o.slot)' = Result(s)' /\ OutcomeOf(o.slot)' = OutcomeOf(s)'
    BY <2>1
  <2>5. o.unit = "load" => Reads(o.slot, o.value)'
    <3> SUFFICES ASSUME o.unit = "load" PROVE Reads(s, v)'
      BY <2>1
    <3>1. IsLoad(ins[s].I) /\ lsq[s].addrValid
      BY <2>1 DEF Matched
    <3>2. Reads(s, v)
      BY <2>1 DEF InFlightRight
    <3> QED BY <2>2, <3>1, <3>2, ReadsStays
  <2> QED BY <2>1, <2>3, <2>4, <2>5 DEF InFlightRight
<1>2. CASE ops' \subseteq ops
  <2>1. \A o \in ops' : o \in ops /\ o.slot \in LiveSlots'
    BY <1>0, <1>2 DEF Matched
  <2> QED BY <1>1, <2>1 DEF InFlightRight
<1>3. CASE Issue
  <2>1. PICK q, x :
          /\ q \in iq
          /\ x = [seq |-> q.seq, slot |-> q.slot, pdst |-> rob[q.slot].pdst,
                  unit |-> IF IsMem(ins[q.slot].I) THEN "agu" ELSE "unit",
                  value |-> Execute(ins[q.slot].I, ins[q.slot].pc, val[q.ps1], val[q.ps2]).value,
                  outcome |-> [taken |-> Execute(ins[q.slot].I, ins[q.slot].pc,
                                                 val[q.ps1], val[q.ps2]).redirect,
                               target |-> Execute(ins[q.slot].I, ins[q.slot].pc,
                                                  val[q.ps1], val[q.ps2]).target]]
          /\ ops' = ops \cup {x}
          /\ UNCHANGED <<renameVars, ins, prf>>
    BY <1>3 DEF Issue
  <2>2. LiveSlots' = LiveSlots /\ Kept
    BY <2>1, Still
  <2>3. PICK s \in LiveSlots : s = q.slot
    BY <2>1 DEF Matched
  <2>4. Execute(ins[q.slot].I, ins[q.slot].pc, val[q.ps1], val[q.ps2]) = Result(s)
    BY <2>1, <2>3 DEF SourcesWatched, Result
  <2>5. Result(s)' = Result(s)
    BY <2>1, <2>2, <2>3 DEF Result, Kept, prf
  <2>6. x.slot = s /\ x.outcome = OutcomeOf(s) /\ x.value = Result(s).value /\ x.unit # "load"
    BY <2>1, <2>3, <2>4 DEF OutcomeOf
  <2>7. Result(x.slot)' = Result(s)' /\ OutcomeOf(x.slot)' = OutcomeOf(s)'
        /\ OutcomeOf(s)' = OutcomeOf(s)
    BY <2>5, <2>6 DEF OutcomeOf
  <2>8. /\ x.outcome = OutcomeOf(x.slot)'
        /\ x.unit # "load" => x.value = Result(x.slot)'.value
        /\ x.unit = "load" => Reads(x.slot, x.value)'
    BY <2>5, <2>6, <2>7
  <2>9. \A o \in ops : o.slot \in LiveSlots'
    BY <2>2 DEF Matched
  <2> QED BY <1>1, <2>1, <2>8, <2>9 DEF InFlightRight
<1>4. CASE AccessLoad
  <2>1. PICK o \in ops, k \in Ages :
          /\ o.unit = "agu" /\ IsLoad(ins[o.slot].I) /\ o.slot = Slot(k)
          /\ ~Blocked(k, o.value)
          /\ lsq' = [lsq EXCEPT ![o.slot].addrValid = TRUE, ![o.slot].addr = o.value]
          /\ ops' = (ops \ {o}) \cup {[o EXCEPT !.unit = "load", !.value = LoadValue(k, o.value)]}
          /\ UNCHANGED <<renameVars, ins, memory>>
    BY <1>4 DEF AccessLoad
  <2>2. PICK v : v = LoadValue(k, o.value)
    OBVIOUS
  <2>3. Reads(o.slot, v)'
    BY <2>1, <2>2, AccessReads
  <2>4. PICK x : x = [o EXCEPT !.unit = "load", !.value = v]
    OBVIOUS
  <2>5. x.unit = "load" /\ x.value = v /\ x.outcome = o.outcome /\ x.slot = o.slot
    <3>1. PICK U : U = Outcomes
      OBVIOUS
    <3>2. o \in [seq : Nat, slot : Slots, pdst : Pregs \cup {NoReg},
                    unit : {"unit", "agu", "load"}, value : Values, outcome : U]
      BY <3>1 DEF Shape
    <3> QED BY <2>4, <3>2
  <2>6. \A y \in ops : y.slot \in LiveSlots'
    BY <2>1, Still DEF Matched
  <2>7. o.outcome = OutcomeOf(o.slot)'
    BY <1>1, <2>6
  <2>8. /\ x.outcome = OutcomeOf(x.slot)'
        /\ x.unit # "load" => x.value = Result(x.slot)'.value
        /\ x.unit = "load" => Reads(x.slot, x.value)'
    BY <2>3, <2>5, <2>7
  <2>9. ops' = (ops \ {o}) \cup {x}
    BY <2>1, <2>2, <2>4
  <2> QED BY <1>1, <2>6, <2>8, <2>9 DEF InFlightRight
<1>5. CASE ~Issue /\ ~AccessLoad
  <2>1. ops' \subseteq ops
    BY <1>5, Kinds DEF Admits, CaptureStoreData, DrainStore, CommitFault, Resolves, Completes,
       Retires, backVars
  <2> QED BY <1>2, <2>1
<1> QED BY <1>3, <1>4, <1>5

LEMMA AddressesNext ==
  ASSUME BackInv, SourcesReady, InFlightRight, AddressesRight,
         RenameInv', [BackNext]_backVars
  PROVE  AddressesRight'
<1> USE DEF BackInv
<1>0. LiveSlots \subseteq Slots /\ SlotsAre
  BY SlotFacts DEF RenameInv, SlotsAre
<1> SUFFICES ASSUME NEW s \in LiveSlots', IsMem(ins'[s].I), lsq'[s].addrValid
             PROVE  lsq'[s].addr = Result(s)'.value
  BY DEF AddressesRight
<1>1. ASSUME s \in LiveSlots, lsq[s].addrValid, lsq'[s].addr = lsq[s].addr
      PROVE  lsq'[s].addr = Result(s)'.value
  <2>1. ins'[s] = ins[s]
    BY <1>1, EntryStays
  <2>2. Issued(s)
    BY <1>1, <2>1, HaveIssued
  <2> QED BY <1>1, <2>1, <2>2, ResultStays DEF AddressesRight
<1>2. ASSUME NEW o \in ops, s = o.slot, o.unit # "load", lsq'[s].addr = o.value
      PROVE  lsq'[s].addr = Result(s)'.value
  <2>1. s \in LiveSlots /\ Issued(s)
    BY <1>2, HaveIssued
  <2>2. o.value = Result(s).value
    BY <1>2 DEF InFlightRight
  <2> QED BY <1>2, <2>1, <2>2, ResultStays
<1>3. CASE \E new, I, pred : Admits(new, I, pred)
  <2>1. PICK new, I, pred : Admits(new, I, pred)
    BY <1>3
  <2>2. LiveSlots' = LiveSlots \cup {new} /\ lsq'[new].addrValid = FALSE
        /\ \A t \in LiveSlots : lsq'[t] = lsq[t]
    BY <2>1, AdmitsFacts DEF Admits
  <2> QED BY <1>1, <2>2
<1>4. CASE AccessLoad
  <2>1. PICK o \in ops : /\ o.unit = "agu"
                         /\ lsq' = [lsq EXCEPT ![o.slot].addrValid = TRUE, ![o.slot].addr = o.value]
                         /\ UNCHANGED renameVars
    BY <1>4 DEF AccessLoad
  <2>2. LiveSlots' = LiveSlots
    BY <2>1, Still
  <2>3. o.slot \in Slots /\ o.value \in Values
    BY <1>0 DEF Matched, Shape
  <2>4. lsq'[o.slot].addr = o.value /\ \A t \in Slots : t # o.slot => lsq'[t] = lsq[t]
    BY <2>1, <2>3, LsqAddr DEF Shape
  <2> QED BY <1>0, <1>1, <1>2, <2>1, <2>2, <2>4
<1>5. CASE \E o : Resolves(o)
  <2>1. PICK o : Resolves(o)
    BY <1>5
  <2>2. /\ o \in ops /\ o.unit = "agu" /\ LiveSlots' \subseteq LiveSlots
        /\ lsq' = [lsq EXCEPT ![o.slot].addrValid = TRUE, ![o.slot].addr = o.value]
    BY <2>1 DEF Resolves, Squashes, Shrinks
  <2>3. o.slot \in Slots /\ o.value \in Values
    BY <1>0, <2>2 DEF Matched, Shape
  <2>4. lsq'[o.slot].addr = o.value /\ \A t \in Slots : t # o.slot => lsq'[t] = lsq[t]
    BY <2>2, <2>3, LsqAddr DEF Shape
  <2> QED BY <1>0, <1>1, <1>2, <2>2, <2>4
<1>6. CASE CaptureStoreData
  <2>1. PICK k, t : /\ k \in Ages /\ t = Slot(k)
                    /\ lsq' = [lsq EXCEPT ![t].dataReady = TRUE, ![t].data = val[lsq[t].preg]]
                    /\ UNCHANGED renameVars
    BY <1>6 DEF CaptureStoreData
  <2>2. LiveSlots' = LiveSlots
    BY <2>1, Still
  <2>3. \A u \in Slots : lsq'[u].addrValid = lsq[u].addrValid /\ lsq'[u].addr = lsq[u].addr
    BY <1>0, <2>1 DEF Shape, LsqEntry
  <2> QED BY <1>0, <1>1, <2>2, <2>3
<1>7. CASE Issue \/ DrainStore \/ CommitFault \/ UNCHANGED backVars
  <2>1. UNCHANGED <<renameVars, lsq>>
    BY <1>7 DEF Issue, DrainStore, CommitFault, backVars
  <2> QED BY <1>1, <2>1, Still
<1>8. CASE Retires \/ \E o : Completes(o)
  BY <1>1, <1>8 DEF Retires, Completes, Squashes, Shrinks
<1> QED BY <1>3, <1>4, <1>5, <1>6, <1>7, <1>8, Kinds

(* Only a result that is written back finishes an entry that is no store.  *)
LEMMA DoneChanges ==
  ASSUME BackInv, RenameInv', [BackNext]_backVars,
         NEW s \in LiveSlots \cap LiveSlots', ~IsStore(ins[s].I)
  PROVE  done'[s] = done[s] \/ (done'[s] = TRUE /\ \E o : Completes(o) /\ o.slot = s)
<1> USE DEF BackInv
<1>0. LiveSlots \subseteq Slots /\ SlotsAre
  BY SlotFacts DEF RenameInv, SlotsAre
<1>1. CASE \E new, I, pred : Admits(new, I, pred)
  BY <1>1, AdmitsFacts
<1>2. CASE \E o : Resolves(o)
  <2>1. PICK o : Resolves(o)
    BY <1>2
  <2>2. o.slot # s /\ done' = [done EXCEPT ![o.slot] = lsq[o.slot].dataReady]
    BY <2>1 DEF Resolves
  <2> QED BY <1>0, <2>2 DEF Shape
<1>3. CASE CaptureStoreData
  <2>1. PICK k, t : /\ k \in Ages /\ t = Slot(k) /\ IsStore(Ins(k).I)
                    /\ done' = [done EXCEPT ![t] = lsq[t].addrValid]
    BY <1>3 DEF CaptureStoreData
  <2> QED BY <1>0, <2>1 DEF Shape, Ins
<1>4. CASE \E o : Completes(o)
  <2>1. PICK o : Completes(o)
    BY <1>4
  <2>2. done' = [done EXCEPT ![o.slot] = TRUE]
    BY <2>1 DEF Completes, Deliver
  <2> QED BY <1>0, <2>1, <2>2 DEF Shape
<1>5. CASE Issue \/ AccessLoad \/ DrainStore \/ CommitFault \/ Retires \/ UNCHANGED backVars
  BY <1>5 DEF Issue, AccessLoad, DrainStore, CommitFault, Retires, backVars
<1> QED BY <1>1, <1>2, <1>3, <1>4, <1>5, Kinds

LEMMA ResultsNext ==
  ASSUME BackInv, SourcesReady, InFlightRight, ResultsRight,
         RenameInv', [BackNext]_backVars
  PROVE  ResultsRight'
<1> USE DEF BackInv
<1>0. LiveSlots \subseteq Slots /\ SlotsAre /\ Dests'
  BY SlotFacts, DestsNext DEF RenameInv, SlotsAre
<1> SUFFICES ASSUME NEW s \in LiveSlots', done'[s], rob'[s].pdst # NoReg,
                    NEW v, v = val'[rob'[s].pdst]
             PROVE  IF IsLoad(ins'[s].I) THEN Reads(s, v)' ELSE v = Result(s)'.value
  BY DEF ResultsRight, Reads
<1>1. WritesRd(ins'[s].I)
  BY <1>0 DEF Dests
<1>2. ~IsSystem(ins'[s].I) /\ ~IsStore(ins'[s].I)
  BY <1>1 DEF WritesRd, IsSystem, IsStore
<1>3. CASE s \notin LiveSlots
  <2>1. CASE \E new, I, pred : Admits(new, I, pred)
    <3>1. PICK new, I, pred : Admits(new, I, pred)
      BY <2>1
    <3>2. s = new
      BY <1>3, <3>1 DEF Admits
    <3>3. ins'[s].I = I /\ done'[s] = IsSystem(I)
      BY <3>1, <3>2, AdmitsFacts
    <3> QED BY <1>2, <3>3
  <2>2. CASE ~\E new, I, pred : Admits(new, I, pred)
    <3>1. LiveSlots' \subseteq LiveSlots
      BY <2>2, OtherSteps, DispatchAdmits DEF Shrinks
    <3> QED BY <1>3, <3>1
  <2> QED BY <2>1, <2>2
<1>4. CASE s \in LiveSlots
  <2>1. /\ ins'[s] = ins[s] /\ rob'[s] = rob[s]
        /\ ~IsSystem(ins[s].I) /\ ~IsStore(ins[s].I)
    BY <1>2, <1>4, EntryStays
  <2>2. PICK p : p = rob[s].pdst
    OBVIOUS
  <2>3. p \in Pregs \ freeList /\ p # NoReg
    BY <1>4, <2>1, <2>2, PdstFacts, NamedIsUsed
  <2>4. ASSUME Issued(s),
               IF IsLoad(ins[s].I) THEN Reads(s, v) /\ lsq[s].addrValid
                                   ELSE v = Result(s).value
        PROVE  IF IsLoad(ins[s].I) THEN Reads(s, v)' ELSE v = Result(s)'.value
    <3>1. CASE IsLoad(ins[s].I)
      BY <1>4, <2>4, <3>1, ReadsStays
    <3>2. CASE ~IsLoad(ins[s].I)
      BY <1>4, <2>4, <3>2, ResultStays
    <3> QED BY <3>1, <3>2
  <2>5. v = val'[p]
    BY <2>1, <2>2
  <2>7. CASE done[s]
    <3>1. Issued(s) /\ ready[p]
      BY <1>4, <2>1, <2>2, <2>3, <2>7, HaveIssued DEF ReadyIffDone
    <3>2. ~(ended = "no" /\ CommitSyscall)
      <4> SUFFICES ASSUME ended = "no" /\ CommitSyscall PROVE FALSE
        OBVIOUS
      <4>1. Retires
        BY CommitRetires DEF Commits
      <4>2. robCount > 0 /\ IsSystem(RobHead.I)
        BY DEF CommitSyscall, IsSystem
      <4>3. LiveSlots' = {}
        BY <4>1, <4>2, SyscallAlone DEF Retires
      <4> QED BY <4>3
    <3>3. val'[p] = val[p]
      BY <2>3, <3>1, <3>2, ReadyValuesStay
    <3>4. IsLoad(ins[s].I) => lsq[s].addrValid
      BY <1>4, <2>7 DEF DoneMeans
    <3>5. IF IsLoad(ins[s].I) THEN Reads(s, v) /\ lsq[s].addrValid
                              ELSE v = Result(s).value
      BY <1>4, <2>2, <2>3, <2>5, <2>7, <3>3, <3>4 DEF ResultsRight
    <3> QED BY <2>1, <2>4, <3>1, <3>5
  <2>8. CASE ~done[s]
    <3>1. PICK o : Completes(o) /\ o.slot = s
      BY <1>4, <2>1, <2>8, DoneChanges
    <3>2. /\ o \in ops /\ o.unit \in {"unit", "load"}
          /\ val' = IF o.pdst = NoReg THEN val ELSE [val EXCEPT ![o.pdst] = o.value]
      BY <3>1 DEF Completes, Deliver, Shape
    <3>3. o.pdst = p /\ Issued(s)
          /\ (IsLoad(ins[s].I) => o.unit = "load" /\ lsq[s].addrValid)
          /\ (o.unit = "load" => IsLoad(ins[s].I))
      BY <2>2, <3>1, <3>2, HaveIssued DEF Matched, IsLoad, IsMem
    <3>4. v = o.value
      BY <2>3, <2>5, <3>2, <3>3 DEF Shape
    <3>5. IF IsLoad(ins[s].I) THEN Reads(s, v) /\ lsq[s].addrValid
                              ELSE v = Result(s).value
      BY <3>1, <3>2, <3>3, <3>4 DEF InFlightRight
    <3> QED BY <2>1, <2>4, <3>3, <3>5
  <2> QED BY <2>7, <2>8
<1> QED BY <1>3, <1>4
-----------------------------------------------------------------------------
(* The path. *)

(* An instruction that is no branch goes on to the next.                   *)
LEMMA NoRedirect ==
  ASSUME NEW I, ~IsBranch(I), NEW pc, NEW a, NEW b
  PROVE  Execute(I, pc, a, b).redirect = FALSE
<1>1. I.op # "jump" /\ I.op # "branch"
  BY DEF IsBranch
<1> QED BY <1>1 DEF Execute

LEMMA PlainFollow ==
  ASSUME NEW s, ~IsBranch(ins[s].I), ins[s].pred = NotTaken
  PROVE  Follow(s) = ins[s].pc + 1
<1>1. Result(s).redirect = FALSE
  BY NoRedirect DEF Result
<1>2. OutcomeOf(s).taken = FALSE /\ ins[s].pred.taken = FALSE
  BY <1>1 DEF OutcomeOf, NotTaken
<1> QED BY <1>2 DEF Follow, NextPc

LEMMA PlainFollowNext ==
  ASSUME NEW s, ~IsBranch(ins'[s].I), ins'[s].pred = NotTaken
  PROVE  Follow(s)' = ins'[s].pc + 1
<1>1. Result(s)'.redirect = FALSE
  BY NoRedirect DEF Result
<1>2. OutcomeOf(s)'.taken = FALSE /\ ins'[s].pred.taken = FALSE
  BY <1>1 DEF OutcomeOf, NotTaken
<1> QED BY <1>2 DEF Follow, NextPc

(* Only a result that is written back changes where the path goes on, and  *)
(* only if it was predicted to go elsewhere.                               *)
LEMMA FollowStays ==
  ASSUME BackInv, SourcesReady, InFlightRight, OnPath, RenameInv', [BackNext]_backVars,
         NEW s \in LiveSlots \cap LiveSlots',
         ~\E o : Completes(o) /\ o.slot = s
  PROVE  Follow(s)' = Follow(s)
<1>1. ins'[s] = ins[s]
  BY EntryStays
<1>2. CASE ~IsBranch(ins[s].I)
  <2>1. ins[s].pred = NotTaken
    BY <1>2 DEF OnPath
  <2> QED BY <1>1, <1>2, <2>1, PlainFollow, PlainFollowNext
<1>3. CASE IsBranch(ins[s].I)
  <2>1. ~IsStore(ins[s].I) /\ ~IsSystem(ins[s].I)
    BY <1>3 DEF IsBranch, IsStore, IsSystem
  <2>2. done'[s] = done[s]
    BY <2>1, DoneChanges
  <2>3. CASE done[s]
    <3>1. Issued(s)
      BY <2>1, <2>3, HaveIssued
    <3>2. OutcomeOf(s)' = OutcomeOf(s)
      BY <3>1, ResultStays
    <3> QED BY <1>1, <2>2, <3>2 DEF Follow
  <2>4. CASE ~done[s]
    BY <1>1, <2>2, <2>4 DEF Follow
  <2> QED BY <2>3, <2>4
<1> QED BY <1>2, <1>3

LEMMA FollowTurns ==
  ASSUME BackInv, SourcesReady, InFlightRight, OnPath, RenameInv', [BackNext]_backVars,
         NEW o, Completes(o)
  PROVE  Follow(o.slot)' = IF Mispredicted(ins[o.slot], o.outcome) THEN fpc'
                           ELSE Follow(o.slot)
<1>1. PICK s : s = o.slot
  OBVIOUS
<1>2. /\ o \in ops /\ o.unit # "agu" /\ s \in LiveSlots \cap LiveSlots' /\ s \in Slots
      /\ Issued(s) /\ ~done[s] /\ ~IsStore(ins[s].I)
  BY <1>1, HaveIssued, SlotFacts
     DEF Completes, BackInv, RenameInv, SlotsAre, Matched, Busy, Shape, IsMem, IsStore, IsLoad
<1>3. ins'[s] = ins[s] /\ OutcomeOf(s)' = OutcomeOf(s) /\ OutcomeOf(s) = o.outcome
  BY <1>1, <1>2, EntryStays, ResultStays DEF InFlightRight
<1>4. done'[s] = TRUE
  BY <1>1, <1>2 DEF Completes, Deliver, BackInv, Shape
<1>5. Follow(s)' = NextPc(ins[s].pc, o.outcome)
  BY <1>3, <1>4 DEF Follow
<1>6. CASE Mispredicted(ins[s], o.outcome)
  BY <1>1, <1>5, <1>6 DEF Completes
<1>7. CASE ~Mispredicted(ins[s], o.outcome)
  <2>1. CASE ~IsBranch(ins[s].I)
    <3>1. ins[s].pred = NotTaken
      BY <1>2, <2>1 DEF OnPath
    <3> QED BY <1>1, <1>3, <1>7, <2>1, <3>1, PlainFollow, PlainFollowNext
  <2>2. CASE IsBranch(ins[s].I)
    <3>1. /\ o.outcome.taken = ins[s].pred.taken
          /\ o.outcome.taken => o.outcome.target = ins[s].pred.target
      BY <1>7, <2>2 DEF Mispredicted
    <3>2. Follow(s) = NextPc(ins[s].pc, o.outcome)
      BY <1>2, <3>1 DEF Follow, NextPc
    <3> QED BY <1>1, <1>5, <1>7, <3>2
  <2> QED BY <2>1, <2>2
<1> QED BY <1>1, <1>6, <1>7

(* A result that is not written back by this step.                         *)
LEMMA OneCompletes ==
  ASSUME BackInv, NEW o, Completes(o)
  PROVE  o \in ops /\ o \notin ops' /\ \A x : Completes(x) => x = o
<1>1. o \in ops /\ ops' = {x \in ops : x.slot \in LiveSlots'} \ {o}
  BY DEF Completes
<1>2. ASSUME NEW x, Completes(x) PROVE x = o
  <2>1. x \in ops /\ x.slot \in LiveSlots' /\ x \notin ops'
    BY <1>2 DEF Completes
  <2> QED BY <1>1, <2>1
<1> QED BY <1>1, <1>2

LEMMA BelowLast ==
  ASSUME NEW n \in Nat, NEW c \in 0 .. n, NEW k \in 0 .. c - 1, k # c - 1
  PROVE  k \in 0 .. c - 2 /\ k \in 0 .. n - 1 /\ k # n - 1
OBVIOUS

LEMMA LastOf ==
  ASSUME NEW c \in Nat
  PROVE  /\ \A k \in 0 .. c - 2 : k \in 0 .. c - 1
         /\ \A n \in Nat : c - 1 \in 0 .. c - 1 /\ c \in 0 .. n =>
              /\ c - 1 \in 0 .. n - 1 /\ c > 0 /\ c - 1 + 1 = c
              /\ c - 1 = n - 1 <=> c = n
OBVIOUS

(* The path after a step that leaves the head of the buffer where it is    *)
(* and adds nothing.                                                       *)
LEMMA PathCut ==
  ASSUME BackInv, RenameInv', OnPath, [BackNext]_backVars,
         UNCHANGED <<robHead, ins>>, robCount' \in 0 .. robCount, LiveSlots' \subseteq LiveSlots,
         \A k \in 0 .. robCount' - 2 : Follow(Slot(k))' = Follow(Slot(k)),
         \A k \in 0 .. robCount' - 1 : k = robCount' - 1 => Follow(Slot(k))' = fpc'
  PROVE  OnPath'
<1>1. \A s \in LiveSlots' : ~IsBranch(ins'[s].I) => ins'[s].pred = NotTaken
  BY DEF OnPath
<1>2. \A k : Slot(k)' = Slot(k) /\ Ins(k)' = Ins(k)
  BY DEF Slot, Ins
<1>3. robCount \in Nat /\ robCount' \in Nat
  BY SlotFacts DEF BackInv, RenameInv, SlotsAre
<1>4. ASSUME NEW k \in Ages'
      PROVE  Follow(Slot(k))' = IF k = robCount' - 1 THEN fpc' ELSE Ins(k + 1)'.pc
  <2>1. k \in 0 .. robCount' - 1
    BY <1>4 DEF Ages
  <2>2. CASE k = robCount' - 1
    BY <2>1, <2>2
  <2>3. CASE k # robCount' - 1
    <3>0. PICK c, n : c \in Nat /\ n \in Nat /\ c <= n /\ c = robCount' /\ n = robCount
      BY <1>3
    <3>1. k \in 0 .. c - 2 /\ k \in 0 .. n - 1 /\ k # n - 1
      <4>1. k \in 0 .. c - 1 /\ k # c - 1
        BY <2>1, <2>3, <3>0
      <4> QED BY <3>0, <4>1, BelowLast
    <3>2. Follow(Slot(k))' = Ins(k + 1).pc
      BY <3>0, <3>1 DEF OnPath, Ages
    <3> QED BY <1>2, <2>3, <3>2
  <2> QED BY <2>2, <2>3
<1>5. \A k : Slot(k)' = Slot(k)
  BY <1>2
<1> QED BY <1>1, <1>4 DEF OnPath

LEMMA OnPathDispatch ==
  ASSUME BackInv, SourcesReady, InFlightRight, OnPath, RenameInv',
         ended = "no", Dispatch
  PROVE  OnPath'
<1> USE DEF BackInv
<1>0. [BackNext]_backVars
  BY DEF BackNext
<1>1. PICK new, I, pred : Admits(new, I, pred)
  BY DispatchAdmits
<1>2. PICK n : n = robCount
  OBVIOUS
<1>3. n \in Nat /\ robCount' = n + 1 /\ robHead' = robHead
  BY <1>2, SlotFacts DEF Dispatch, RenameDispatch, Alloc, RenameInv, SlotsAre
<1>4. /\ \A k : Slot(k)' = Slot(k)
      /\ Ages' = 0 .. n /\ Ages = 0 .. n - 1
  BY <1>2, <1>3 DEF Slot, Ages
<1>5. LiveSlots' = LiveSlots \cup {new} /\ new \notin LiveSlots /\ fpc' = NextPc(fpc, pred)
      /\ pred \in Predictions(I)
      /\ ins'[new] = [pc |-> fpc, I |-> I, pred |-> pred]
      /\ done'[new] = IsSystem(I)
      /\ \A s \in LiveSlots : ins'[s] = ins[s]
  <2>1. LiveSlots' = LiveSlots \cup {new} /\ new \in Slots \ LiveSlots
        /\ fpc' = NextPc(fpc, pred) /\ pred \in Predictions(I)
    BY <1>1 DEF Admits
  <2>2. /\ ins'[new] = [pc |-> fpc, I |-> I, pred |-> pred]
        /\ done'[new] = IsSystem(I)
    BY <1>1, <2>1 DEF Admits, Shape
  <2>3. \A s \in LiveSlots : ins'[s] = ins[s]
    BY <1>1, AdmitsFacts
  <2> QED BY <2>1, <2>2, <2>3
<1>6. \A k \in 0 .. n - 1 : Slot(k) \in LiveSlots /\ Slot(k) \in LiveSlots'
  BY <1>4, <1>5 DEF LiveSlots
<1>7. Slot(n) = new
  <2>1. new \in LiveSlots'
    BY <1>5
  <2>2. PICK k \in 0 .. n : new = Slot(k)
    BY <1>4, <2>1 DEF LiveSlots
  <2>3. k = n
    BY <1>3, <1>5, <1>6, <2>2
  <2> QED BY <2>2, <2>3
<1>8. ~IsBranch(I) => pred = NotTaken
  BY <1>5 DEF Predictions
<1>9. \A s \in LiveSlots' : ~IsBranch(ins'[s].I) => ins'[s].pred = NotTaken
  <2>1. ins'[new].I = I /\ ins'[new].pred = pred
    BY <1>5
  <2> QED BY <1>5, <1>8, <2>1 DEF OnPath
<1>10. ~\E o : Completes(o)
  <2>1. ~(LiveSlots' \subseteq LiveSlots)
    BY <1>5
  <2> QED BY <2>1 DEF Completes, Squashes, Shrinks
<1>11. \A k \in 0 .. n - 1 : Follow(Slot(k))' = IF k = n - 1 THEN fpc ELSE Ins(k + 1).pc
  <2> SUFFICES ASSUME NEW k \in 0 .. n - 1
               PROVE  Follow(Slot(k))' = IF k = n - 1 THEN fpc ELSE Ins(k + 1).pc
    OBVIOUS
  <2>1. PICK s : s = Slot(k)
    OBVIOUS
  <2>2. Follow(s)' = Follow(s)
    BY <1>0, <1>6, <1>10, <2>1, FollowStays
  <2>3. Follow(Slot(k)) = IF k = n - 1 THEN fpc ELSE Ins(k + 1).pc
    BY <1>2, <1>4 DEF OnPath
  <2>4. s = Slot(k)'
    BY <1>4, <2>1
  <2> QED BY <2>1, <2>2, <2>3, <2>4
<1>12. Follow(new)' = fpc'
  <2>1. ins'[new].pc = fpc /\ ins'[new].I = I /\ ins'[new].pred = pred
    BY <1>5
  <2>2. CASE IsSystem(I)
    <3>1. ~IsBranch(I)
      BY <2>2 DEF IsSystem, IsBranch
    <3>2. Follow(new)' = fpc + 1
      BY <1>8, <2>1, <3>1, PlainFollowNext
    <3> QED BY <1>5, <1>8, <3>1, <3>2 DEF NextPc, NotTaken
  <2>3. CASE ~IsSystem(I)
    <3>1. ~done'[new]
      BY <1>5, <2>3
    <3> QED BY <1>5, <2>1, <3>1 DEF Follow
  <2> QED BY <2>2, <2>3
<1>13. ASSUME NEW k \in Ages'
       PROVE  Follow(Slot(k))' = IF k = robCount' - 1 THEN fpc' ELSE Ins(k + 1)'.pc
  <2>1. CASE k = n
    BY <1>3, <1>4, <1>7, <1>12, <2>1
  <2>2. CASE k # n
    <3>1. k \in 0 .. n - 1 /\ k + 1 \in 0 .. n
      BY <1>3, <1>4, <1>13, <2>2
    <3>2. Ins(k + 1)'.pc = IF k = n - 1 THEN fpc ELSE Ins(k + 1).pc
      <4>1. CASE k = n - 1
        <5>1. Slot(k + 1)' = new
          BY <1>3, <1>4, <1>7, <4>1
        <5> QED BY <1>5, <4>1, <5>1 DEF Ins
      <4>2. CASE k # n - 1
        <5>1. k + 1 \in 0 .. n - 1
          BY <1>3, <3>1, <4>2
        <5>2. PICK s : s = Slot(k + 1) /\ s = Slot(k + 1)' /\ s \in LiveSlots
          BY <1>4, <1>6, <5>1
        <5> QED BY <1>5, <4>2, <5>2 DEF Ins
      <4> QED BY <4>1, <4>2
    <3> QED BY <1>3, <1>11, <2>2, <3>1, <3>2
  <2> QED BY <2>1, <2>2
<1> QED BY <1>9, <1>13 DEF OnPath

LEMMA OnPathCompletes ==
  ASSUME BackInv, SourcesReady, InFlightRight, OnPath, RenameInv', [BackNext]_backVars,
         NEW o, Completes(o)
  PROVE  OnPath'
<1> USE DEF BackInv
<1>1. o.slot \in LiveSlots /\ o.slot \in LiveSlots' /\ LiveSlots' \subseteq LiveSlots /\ ins' = ins
      /\ SeqOrder' /\ Kept
  BY HaveIssued DEF Completes, Squashes, Shrinks
<1>2. Follow(o.slot)' = IF Mispredicted(ins[o.slot], o.outcome) THEN fpc'
                        ELSE Follow(o.slot)
  BY FollowTurns
<1>3. \A s \in LiveSlots' : s # o.slot => Follow(s)' = Follow(s)
  <2> SUFFICES ASSUME NEW s \in LiveSlots', s # o.slot PROVE Follow(s)' = Follow(s)
    OBVIOUS
  <2>1. ~\E x : Completes(x) /\ x.slot = s
    BY OneCompletes
  <2> QED BY <1>1, <2>1, FollowStays
<1>4. SlotsAre /\ SlotsAre'
  BY SlotFacts, SlotFactsNext DEF RenameInv
<1>5. CASE Mispredicted(ins[o.slot], o.outcome)
  <2>1. /\ \A t \in LiveSlots' : rob[t].seq <= rob[o.slot].seq
        /\ robCount' \in 0 .. robCount /\ robHead' = robHead
    BY <1>5 DEF Completes
  <2>2. PICK c : c = robCount'
    OBVIOUS
  <2>3. c \in Nat /\ (\A k : Slot(k)' = Slot(k)) /\ LiveSlots' = {Slot(k) : k \in 0 .. c - 1}
    BY <1>4, <2>1, <2>2 DEF Slot, SlotsAre, LiveSlots, Ages
  <2>4. PICK j \in 0 .. c - 1 : o.slot = Slot(j)
    BY <1>1, <2>3
  <2>5. j = c - 1
    <3>1. c - 1 \in 0 .. c - 1 /\ Slot(c - 1) \in LiveSlots'
      BY <2>3, <2>4
    <3>2. rob[Slot(c - 1)].seq <= rob[Slot(j)].seq
      BY <2>1, <2>4, <3>1
    <3>3. Nth(c - 1).seq = rob[Slot(c - 1)].seq /\ Nth(j).seq = rob[Slot(j)].seq
      BY DEF Nth, Slot
    <3>4. c - 1 \in Ages /\ j \in 0 .. c - 1
      BY <1>4, <2>1, <2>2, <3>1 DEF Ages, SlotsAre
    <3>5. j # c - 1 => Nth(j).seq < Nth(c - 1).seq
      BY <3>1, <3>4 DEF SeqOrder
    <3>6. rob[Slot(j)].seq \in Nat /\ rob[Slot(c - 1)].seq \in Nat
      BY <1>1, <2>4, <3>1, SeqBySlot DEF RenameInv
    <3> QED BY <3>2, <3>3, <3>5, <3>6
  <2>6. \A k \in 0 .. robCount' - 2 : Follow(Slot(k))' = Follow(Slot(k))
    <3> SUFFICES ASSUME NEW k \in 0 .. c - 2 PROVE Follow(Slot(k))' = Follow(Slot(k))
      BY <2>2
    <3>1. PICK s : s = Slot(k) /\ s = Slot(k)'
      BY <2>3
    <3>2. k \in 0 .. c - 1 /\ c - 1 \in 0 .. c - 1 /\ k # c - 1
      BY <2>3
    <3>3. s \in LiveSlots' /\ s # o.slot
      BY <1>4, <2>2, <2>3, <2>4, <2>5, <3>1, <3>2 DEF SlotsAre, Ages
    <3> QED BY <1>3, <3>1, <3>3
  <2>7. \A k \in 0 .. robCount' - 1 : k = robCount' - 1 => Follow(Slot(k))' = fpc'
    <3>1. PICK s : s = Slot(c - 1) /\ s = Slot(c - 1)'
      BY <2>3
    <3>2. Follow(s)' = fpc'
      BY <1>2, <1>5, <2>4, <2>5, <3>1
    <3> QED BY <2>2, <3>1, <3>2
  <2> QED BY <1>1, <2>1, <2>6, <2>7, PathCut
<1>6. CASE ~Mispredicted(ins[o.slot], o.outcome)
  <2>1. LiveSlots' = LiveSlots /\ UNCHANGED <<renameVars, fpc>>
    BY <1>6 DEF Completes
  <2>2. robCount' = robCount /\ robHead' = robHead /\ fpc' = fpc
    BY <2>1 DEF renameVars
  <2>3. \A k \in Ages : Follow(Slot(k))' = Follow(Slot(k))
    <3> SUFFICES ASSUME NEW k \in Ages PROVE Follow(Slot(k))' = Follow(Slot(k))
      OBVIOUS
    <3>1. PICK s : s = Slot(k) /\ s = Slot(k)'
      BY <2>2 DEF Slot
    <3>2. s \in LiveSlots'
      BY <2>1, <3>1 DEF LiveSlots
    <3> QED BY <1>2, <1>3, <1>6, <3>1, <3>2
  <2>4. robCount' \in 0 .. robCount
    BY <1>4, <2>2 DEF SlotsAre
  <2>5. \A k \in 0 .. robCount' - 2 : Follow(Slot(k))' = Follow(Slot(k))
    BY <1>4, <2>2, <2>3 DEF Ages, SlotsAre
  <2>6. \A k \in 0 .. robCount' - 1 : k = robCount' - 1 => Follow(Slot(k))' = fpc'
    BY <1>4, <2>2, <2>3 DEF Ages, SlotsAre, OnPath
  <2> QED BY <1>1, <2>2, <2>4, <2>5, <2>6, PathCut
<1> QED BY <1>5, <1>6

LEMMA OnPathNext ==
  ASSUME BackInv, SourcesReady, InFlightRight, OnPath, RenameInv', [BackNext]_backVars
  PROVE  OnPath'
<1> USE DEF BackInv
<1>0. SlotsAre /\ SlotsAre'
  BY SlotFacts, SlotFactsNext DEF RenameInv
<1>1. CASE ended = "no" /\ Dispatch
  BY <1>1, OnPathDispatch
<1>2. CASE \E o : Completes(o)
  BY <1>2, OnPathCompletes
<1>3. CASE ~(ended = "no" /\ Dispatch) /\ ~\E o : Completes(o)
  <2>1. LiveSlots' \subseteq LiveSlots /\ ins' = ins
    BY <1>3, OtherSteps DEF Shrinks
  <2>2. \A s \in LiveSlots' : Follow(s)' = Follow(s)
    BY <1>3, <2>1, FollowStays
  <2>3. PICK c : c = robCount' /\ c \in Nat /\ Ages' = 0 .. c - 1
    BY <1>0 DEF SlotsAre, Ages
  <2>4. ASSUME robHead' = robHead, c \in 0 .. robCount,
               c > 0 => fpc' = IF c = robCount THEN fpc ELSE Ins(c).pc
        PROVE  OnPath'
    <3>1. \A k : Slot(k)' = Slot(k)
      BY <2>4 DEF Slot
    <3>2. \A k \in 0 .. c - 1 : Follow(Slot(k))' = Follow(Slot(k))
      <4> SUFFICES ASSUME NEW k \in 0 .. c - 1 PROVE Follow(Slot(k))' = Follow(Slot(k))
        OBVIOUS
      <4>1. PICK s : s = Slot(k) /\ s = Slot(k)'
        BY <3>1
      <4>2. s \in LiveSlots'
        BY <2>3, <4>1 DEF LiveSlots
      <4> QED BY <2>2, <4>1, <4>2
    <3>3. \A k \in 0 .. robCount' - 2 : Follow(Slot(k))' = Follow(Slot(k))
      <4> SUFFICES ASSUME NEW k \in 0 .. c - 2 PROVE Follow(Slot(k))' = Follow(Slot(k))
        BY <2>3
      <4>1. k \in 0 .. c - 1
        BY <2>3, LastOf
      <4> QED BY <3>2, <4>1
    <3>4. \A k \in 0 .. robCount' - 1 : k = robCount' - 1 => Follow(Slot(k))' = fpc'
      <4> SUFFICES ASSUME c - 1 \in 0 .. c - 1
                   PROVE  Follow(Slot(c - 1))' = fpc'
        BY <2>3
      <4>1. PICK n : n = robCount /\ n \in Nat /\ c \in 0 .. n
        BY <1>0, <2>4 DEF SlotsAre
      <4>2. /\ c - 1 \in 0 .. n - 1 /\ c > 0 /\ c - 1 + 1 = c
            /\ (c - 1 = n - 1 <=> c = n)
        BY <4>1, LastOf
      <4>3. Follow(Slot(c - 1)) = IF c = robCount THEN fpc ELSE Ins(c).pc
        BY <4>1, <4>2 DEF OnPath, Ages
      <4> QED BY <2>4, <3>2, <4>2, <4>3
    <3>5. robCount' \in 0 .. robCount
      BY <2>3, <2>4
    <3> QED BY <2>1, <2>4, <3>3, <3>4, <3>5, PathCut
  <2>5. ASSUME UNCHANGED renameVars, fpc' = fpc
        PROVE  OnPath'
    <3>1. robHead' = robHead /\ robCount' = robCount
      BY <2>5 DEF renameVars
    <3> QED BY <1>0, <2>3, <2>4, <2>5, <3>1 DEF SlotsAre
  <2>6. CASE \E o : Resolves(o)
    <3>1. PICK o : Resolves(o)
      BY <2>6
    <3>2. CASE UNCHANGED <<renameVars, fpc>>
      BY <2>5, <3>2
    <3>3. CASE robCount' \in Ages /\ fpc' = Ins(c).pc /\ robHead' = robHead
      <4>1. c \in 0 .. robCount /\ c # robCount
        BY <1>0, <2>3, <3>3 DEF Ages, SlotsAre
      <4> QED BY <2>4, <3>3, <4>1
    <3>4. \/ UNCHANGED <<renameVars, fpc>>
          \/ robCount' \in Ages /\ fpc' = Ins(robCount').pc /\ robHead' = robHead
      BY <3>1 DEF Resolves
    <3> QED BY <2>3, <3>2, <3>3, <3>4
  <2>7. CASE Retires
    <3>1. /\ robCount \in Nat /\ robCount > 0 /\ c = robCount - 1 /\ fpc' = fpc
          /\ \A k \in 0 .. robCount - 1 : Slot(k)' = Slot(k + 1)
      BY <2>3, <2>7, <1>0, Retire DEF Retires, SlotsAre
    <3>2. \A s \in LiveSlots' : ~IsBranch(ins'[s].I) => ins'[s].pred = NotTaken
      BY <2>1 DEF OnPath
    <3>3. ASSUME NEW k \in Ages'
          PROVE  Follow(Slot(k))' = IF k = robCount' - 1 THEN fpc' ELSE Ins(k + 1)'.pc
      <4>1. /\ k \in 0 .. robCount - 1 /\ k + 1 \in 0 .. robCount - 1 /\ k + 1 \in Ages
            /\ (k = c - 1 <=> k + 1 = robCount - 1)
        BY <2>3, <3>1, <3>3 DEF Ages
      <4>2. PICK s : s = Slot(k)' /\ s = Slot(k + 1)
        BY <3>1, <4>1
      <4>3. s \in LiveSlots'
        BY <3>3, <4>2 DEF LiveSlots
      <4>4. Follow(s)' = IF k = c - 1 THEN fpc ELSE Ins(k + 1 + 1).pc
        BY <2>2, <4>1, <4>2, <4>3 DEF OnPath
      <4>5. k # c - 1 => Ins(k + 1)' = Ins(k + 1 + 1)
        <5>1. k # c - 1 => Slot(k + 1)' = Slot(k + 1 + 1)
          BY <3>1, <4>1
        <5> QED BY <2>1, <5>1 DEF Ins
      <4> QED BY <2>3, <3>1, <4>2, <4>4, <4>5
    <3> QED BY <3>2, <3>3 DEF OnPath
  <2>8. CASE Issue \/ AccessLoad \/ CaptureStoreData \/ DrainStore \/ CommitFault
             \/ UNCHANGED backVars
    <3>1. UNCHANGED renameVars /\ fpc' = fpc
      BY <2>8 DEF Issue, AccessLoad, CaptureStoreData, DrainStore, CommitFault, backVars
    <3> QED BY <2>5, <3>1
  <2>9. ~\E new, I, pred : Admits(new, I, pred)
    BY <2>1 DEF Admits
  <2> QED BY <1>3, <2>6, <2>7, <2>8, <2>9, Kinds
<1> QED BY <1>1, <1>2, <1>3

LEMMA RefInvStarts == BackInit => RefInv
<1> SUFFICES ASSUME BackInit PROVE RefInv
  OBVIOUS
<1>1. BackInv
  BY BackInitInv
<1>2. robCount = 0 /\ ops = {} /\ Ages = {} /\ LiveSlots = {}
  BY DEF BackInit, RenameInit, Ages, LiveSlots
<1> QED BY <1>1, <1>2 DEF RefInv, SourcesReady, InFlightRight, AddressesRight, ResultsRight, OnPath

LEMMA RefInvNext == RefInv /\ [BackNext]_backVars => RefInv' /\ RenameInv'
<1> SUFFICES ASSUME RefInv, [BackNext]_backVars PROVE RefInv' /\ RenameInv'
  OBVIOUS
<1>1. /\ BackInv /\ SourcesReady /\ InFlightRight /\ AddressesRight /\ ResultsRight /\ OnPath
  BY DEF RefInv
<1>2. RenameInv' /\ BackInv'
  BY <1>1, RenameInvNext, BackInvNext
<1>3. SourcesReady' /\ InFlightRight' /\ AddressesRight' /\ ResultsRight' /\ OnPath'
  BY <1>1, <1>2, SourcesReadyNext, InFlightNext, AddressesNext, ResultsNext, OnPathNext
<1> QED BY <1>2, <1>3 DEF RefInv
-----------------------------------------------------------------------------
(* The architectural registers: what the map names with everything in      *)
(* flight undone. *)

(* Nothing in flight writes a register the oldest map names, so all of     *)
(* these have their values.                                                *)
LEMMA OldestReady ==
  ASSUME BackInv, NEW r \in ArchRegs
  PROVE  Undo(0)[r] \in Pregs \ freeList /\ ready[Undo(0)[r]]
<1> USE DEF BackInv
<1>0. SlotsAre /\ UndoIs /\ robCount \in Nat
  BY SlotFacts, UndoFacts DEF RenameInv, SlotsAre
<1>1. \/ /\ \A j \in 0 .. robCount - 1 : ~Writes(j, r)
         /\ Undo(0)[r] = map[r]
      \/ \E j \in 0 .. robCount - 1 :
           /\ Writes(j, r) /\ \A i \in 0 .. j - 1 : ~Writes(i, r)
           /\ Undo(0)[r] = Nth(j).prevPhys
  BY <1>0 DEF UndoIs
<1>2. ASSUME NEW j \in 0 .. robCount - 1, Writes(j, r)
      PROVE  Nth(j).prevPhys \in Displaced /\ Nth(j).prevPhys \notin Mapped /\ j \in WritersFrom(0)
             /\ Nth(j).rd = r
  BY <1>0, <1>2 DEF Displaced, WritersFrom, Writes, RenameInv, NamedOnce
<1>3. Undo(0)[r] \in Named
  BY <1>1, <1>2 DEF Named, Mapped
<1>4. ASSUME NEW s \in LiveSlots, rob[s].pdst = Undo(0)[r]
      PROVE  FALSE
  <2>1. PICK k \in Ages : s = Slot(k) /\ Nth(k) = rob[s]
    BY <1>0 DEF LiveSlots, SlotsAre
  <2>2. Nth(k).pdst # NoReg
    BY <1>3, <1>4, <2>1, NamedIsUsed, RenameAssumption DEF Pregs, NoReg
  <2>3. Writes(k, Nth(k).rd) /\ k \in 0 .. robCount - 1
    BY <2>2 DEF Writes, Ages
  <2>4. CASE Nth(k).rd \in ArchRegs /\ map[Nth(k).rd] = Nth(k).pdst
    <3>1. Undo(0)[r] \in Mapped
      BY <1>4, <2>1, <2>4 DEF Mapped
    <3>2. (\A j \in 0 .. robCount - 1 : ~Writes(j, r)) /\ map[Nth(k).rd] = map[r]
      BY <1>1, <1>2, <1>4, <2>1, <2>4, <3>1
    <3>3. Nth(k).rd = r
      BY <2>4, <3>2 DEF RenameInv, NamedOnce
    <3> QED BY <2>3, <3>2, <3>3
  <2>5. CASE \E j \in k + 1 .. robCount - 1 :
               Writes(j, Nth(k).rd) /\ Nth(j).prevPhys = Nth(k).pdst
    <3>1. PICK j \in k + 1 .. robCount - 1 :
               Writes(j, Nth(k).rd) /\ Nth(j).prevPhys = Nth(k).pdst
      BY <2>5
    <3>2. j \in 0 .. robCount - 1 /\ k < j
      BY <2>3, <3>1
    <3>3. j \in WritersFrom(0) /\ Nth(j).prevPhys \notin Mapped /\ Nth(j).rd = Nth(k).rd
      BY <3>1, <3>2 DEF WritersFrom, Writes, RenameInv, NamedOnce
    <3>4. PICK i \in 0 .. robCount - 1 : /\ Writes(i, r) /\ \A x \in 0 .. i - 1 : ~Writes(x, r)
                                         /\ Undo(0)[r] = Nth(i).prevPhys
      BY <1>1, <1>4, <2>1, <3>1, <3>3 DEF Mapped
    <3>5. i = j
      BY <1>2, <1>4, <2>1, <3>1, <3>3, <3>4 DEF RenameInv, NamedOnce
    <3>6. Writes(k, r) /\ k \in 0 .. i - 1
      BY <1>2, <2>3, <3>2, <3>3, <3>4, <3>5
    <3> QED BY <3>4, <3>6
  <2> QED BY <2>1, <2>2, <2>4, <2>5, PdstNamed
<1>5. Undo(0)[r] \in Pregs \ freeList
  BY <1>3, NamedIsUsed
<1> QED BY <1>4, <1>5 DEF ReadyIffDone

(* What the map just behind the head says.                                 *)
LEMMA UndoSecond ==
  ASSUME RenameInv, robCount > 0, NEW r \in ArchRegs
  PROVE  Undo(1)[r] = IF Writes(0, r) THEN Nth(0).pdst ELSE Undo(0)[r]
<1>0. UndoIs /\ robCount \in Nat /\ 0 \in 0 .. robCount - 1 /\ 1 \in 0 .. robCount
      /\ 0 \in 0 .. robCount
  BY SlotFacts, UndoFacts DEF RenameInv, SlotsAre
<1>1. CASE Writes(0, r)
  <2>1. CASE \A i \in 1 .. robCount - 1 : ~Writes(i, r)
    <3>1. Undo(1)[r] = map[r]
      BY <1>0, <2>1 DEF UndoIs
    <3>2. map[r] = Nth(0).pdst
      BY <1>0, <1>1, <2>1 DEF RenameInv, MappingChain
    <3> QED BY <1>1, <3>1, <3>2
  <2>2. CASE \E i \in 1 .. robCount - 1 : Writes(i, r)
    <3>1. PICK j \in 1 .. robCount - 1 : Writes(j, r) /\ \A i \in 1 .. j - 1 : ~Writes(i, r)
      BY <1>0, <2>2 DEF UndoIs
    <3>2. Undo(1)[r] = Nth(j).prevPhys
      BY <1>0, <3>1 DEF UndoIs
    <3>3. Nth(j).prevPhys = Nth(0).pdst
      BY <1>0, <1>1, <3>1 DEF RenameInv, MappingChain
    <3> QED BY <1>1, <3>2, <3>3
  <2> QED BY <2>1, <2>2
<1>2. CASE ~Writes(0, r)
  <2>1. CASE \A i \in 1 .. robCount - 1 : ~Writes(i, r)
    <3>1. \A i \in 0 .. robCount - 1 : ~Writes(i, r)
      BY <1>0, <1>2, <2>1
    <3> QED BY <1>0, <1>2, <2>1, <3>1 DEF UndoIs
  <2>2. CASE \E i \in 1 .. robCount - 1 : Writes(i, r)
    <3>1. PICK j \in 1 .. robCount - 1 : Writes(j, r) /\ \A i \in 1 .. j - 1 : ~Writes(i, r)
      BY <1>0, <2>2 DEF UndoIs
    <3>2. j \in 0 .. robCount - 1 /\ \A i \in 0 .. j - 1 : ~Writes(i, r)
      BY <1>0, <1>2, <3>1
    <3>3. Undo(1)[r] = Nth(j).prevPhys /\ Undo(0)[r] = Nth(j).prevPhys
      BY <1>0, <3>1, <3>2 DEF UndoIs
    <3> QED BY <1>2, <3>3
  <2> QED BY <2>1, <2>2
<1> QED BY <1>1, <1>2

LEMMA OldestMapStays ==
  ASSUME BackInv, RenameInv', [BackNext]_backVars, ~(ended = "no" /\ Commits)
  PROVE  Undo(0)' = Undo(0)
<1>0. RenameTypeOK /\ RenameTypeOK' /\ robCount \in Nat /\ 0 \in 0 .. robCount
  BY SlotFacts DEF BackInv, RenameInv, SlotsAre
<1>1. ASSUME NEW seq, RenameRecover(seq)
      PROVE  Undo(0)' = Undo(0)
  <2>1. PICK keep \in 0 .. robCount :
          map' = Undo(keep) /\ robCount' = keep /\ UNCHANGED <<rob, robHead>>
    BY <1>1 DEF RenameRecover
  <2>2. 0 \in 0 .. keep
    BY <1>0, <2>1
  <2> QED BY <1>0, <2>1, <2>2, SquashUndo
<1>2. ASSUME UNCHANGED renameVars
      PROVE  Undo(0)' = Undo(0)
  BY <1>2 DEF renameVars, Undo, OldestWriter, Writes, Nth
<1>3. CASE ended = "no" /\ Dispatch
  <2>1. PICK new, I, pred : Admits(new, I, pred)
    BY <1>3, DispatchAdmits
  <2>2. I = code[fpc] /\ I.rd \in ArchRegs
    BY <2>1 DEF Admits, Instructions
  <2>3. PICK rd : rd = IF WritesRd(I) THEN I.rd ELSE NoReg
    OBVIOUS
  <2>4. RenameDispatch(rd)
    BY <1>3, <2>2, <2>3 DEF Dispatch
  <2>5. PICK p \in (IF HasDest(rd) THEN freeList ELSE {NoReg}) : Alloc(rd, p)
    BY <2>4 DEF RenameDispatch
  <2>6. robCount < RobSize
    BY <2>4 DEF RenameDispatch
  <2>7. p = NoReg <=> ~HasDest(rd)
    BY RenameAssumption, <1>0, <2>5 DEF RenameTypeOK, Pregs, NoReg
  <2>8. HasDest(rd) => rd \in ArchRegs
    BY <2>2, <2>3 DEF HasDest
  <2> QED BY <1>0, <2>5, <2>6, <2>7, <2>8, AllocUndo
<1>4. CASE ended = "no" /\ Writeback
  BY <1>1, <1>2, <1>4 DEF Writeback
<1>5. CASE ended = "no" /\ ResolveStore
  BY <1>1, <1>2, <1>5 DEF ResolveStore
<1>6. CASE Issue \/ AccessLoad \/ CaptureStoreData \/ DrainStore \/ CommitFault
           \/ UNCHANGED backVars
  BY <1>2, <1>6 DEF Issue, AccessLoad, CaptureStoreData, DrainStore, CommitFault, backVars
<1> QED BY <1>3, <1>4, <1>5, <1>6 DEF BackNext, BackStep, Commits
-----------------------------------------------------------------------------
(* The in-order machine behind the state of the core. *)

RefPc   == IF robCount > 0 THEN RobHead.pc ELSE IF ended = "halted" THEN fpc - 1 ELSE fpc
RefRegs == [r \in ArchRegs |-> val[Undo(0)[r]]]
RefMem  == IF ended = "halted" THEN mem ELSE Settled

(* Everything but a commit is no step of that machine.                     *)
LEMMA QuietStep ==
  ASSUME RefInv, RenameInv', [BackNext]_backVars, ~(ended = "no" /\ Commits)
  PROVE  /\ UNCHANGED <<RefPc, RefRegs, RefMem, code, rec>>
         /\ ended' = ended \/ (ended = "no" /\ CommitFault)
<1>0. BackInv /\ OnPath /\ robCount \in Nat
  BY SlotFacts DEF RefInv, BackInv, RenameInv, SlotsAre
<1>1. UNCHANGED <<code, rec>> /\ (ended' = ended \/ (ended = "no" /\ CommitFault))
  BY DEF BackNext, BackStep, Commits, Dispatch, Issue, AccessLoad, ResolveStore,
         CaptureStoreData, DrainStore, Writeback, CommitFault, backVars
<1>2. RefRegs' = RefRegs
  <2>1. ASSUME NEW r \in ArchRegs PROVE val'[Undo(0)[r]] = val[Undo(0)[r]]
    <3>1. Undo(0)[r] \in Pregs \ freeList /\ ready[Undo(0)[r]]
      BY <1>0, OldestReady
    <3>2. ~(ended = "no" /\ CommitSyscall)
      BY DEF Commits
    <3> QED BY <1>0, <3>1, <3>2, ReadyValuesStay
  <2>2. Undo(0)' = Undo(0)
    BY <1>0, OldestMapStays
  <2> QED BY <2>1, <2>2 DEF RefRegs
<1>3. RefMem' = RefMem
  <2>1. CASE ended = "no" /\ DrainStore
    <3>1. Settled' = Settled /\ ended' = ended
      BY <1>0, <2>1, SettledDrain DEF BackInv, DrainStore
    <3> QED BY <2>1, <3>1 DEF RefMem
  <2>2. CASE ~(ended = "no" /\ DrainStore)
    <3>1. UNCHANGED memory
      BY <2>2 DEF BackNext, BackStep, Commits, Dispatch, Issue, AccessLoad, ResolveStore,
                  CaptureStoreData, Writeback, CommitFault, backVars
    <3>2. Settled' = Settled /\ mem' = mem
      BY <3>1, SettledSame DEF memory
    <3>3. ended' = "halted" <=> ended = "halted"
      BY <1>1 DEF CommitFault
    <3> QED BY <3>2, <3>3 DEF RefMem
  <2> QED BY <2>1, <2>2
<1>4. RefPc' = RefPc
  <2>1. CASE ended = "no" /\ Dispatch
    <3>1. PICK new, I, pred : Admits(new, I, pred)
      BY <1>0, <2>1, DispatchAdmits
    <3>2. robCount' = robCount + 1 /\ robHead' = robHead /\ robCount' > 0
      BY <1>0, <2>1 DEF Dispatch, RenameDispatch, Alloc
    <3>3. Slot(0)' = Slot(0)
      BY <3>2 DEF Slot
    <3>4. CASE robCount > 0
      <4>1. Slot(0) \in LiveSlots
        BY <1>0, <3>4 DEF LiveSlots, Ages
      <4>2. ins'[Slot(0)] = ins[Slot(0)]
        BY <1>0, <3>1, <4>1, AdmitsFacts
      <4> QED BY <3>2, <3>3, <3>4, <4>2 DEF RefPc, RobHead, Ins
    <3>5. CASE robCount = 0
      <4>1. LiveSlots = {} /\ Slot(0)' \in LiveSlots'
        BY <1>0, <3>2, <3>5 DEF LiveSlots, Ages
      <4>2. Slot(0)' = new
        BY <3>1, <4>1 DEF Admits
      <4>3. ins'[new] = [pc |-> fpc, I |-> I, pred |-> pred]
        <5>1. /\ ins' = [ins EXCEPT ![new] = [pc |-> fpc, I |-> I, pred |-> pred]]
              /\ new \in Slots
          BY <3>1 DEF Admits
        <5>2. DOMAIN ins = Slots
          BY <1>0 DEF BackInv, Shape
        <5> QED BY <5>1, <5>2
      <4>4. ins'[new].pc = fpc
        BY <4>3
      <4> QED BY <2>1, <3>2, <3>5, <4>2, <4>4 DEF RefPc, RobHead, Ins
    <3> QED BY <1>0, <3>4, <3>5
  <2>2. CASE UNCHANGED <<renameVars, ins, fpc>>
    <3>1. ended' = "halted" <=> ended = "halted"
      BY <1>1 DEF CommitFault
    <3> QED BY <2>2, <3>1 DEF RefPc, RobHead, Ins, Slot, renameVars
  <2>3. ASSUME NEW s \in LiveSlots', robHead' = robHead, ins' = ins, robCount > 0
        PROVE  RefPc' = RefPc
    <3>1. Ages' # {}
      BY <2>3 DEF LiveSlots
    <3>2. robCount' \in Nat
      BY SlotFactsNext DEF RenameInv, SlotsAre
    <3>3. robCount' > 0
      BY <3>1, <3>2 DEF Ages
    <3> QED BY <2>3, <3>3 DEF RefPc, RobHead, Ins, Slot
  <2>4. ASSUME NEW s \in LiveSlots PROVE robCount > 0
    BY <1>0, <2>4 DEF LiveSlots, Ages
  <2>5. CASE \E o : Completes(o)
    <3>1. PICK o : Completes(o)
      BY <2>5
    <3>2. o.slot \in LiveSlots' /\ o.slot \in LiveSlots /\ ins' = ins
      BY <1>0, <3>1, HaveIssued DEF Completes
    <3>3. UNCHANGED <<renameVars, fpc>> \/ robHead' = robHead
      BY <3>1 DEF Completes
    <3> QED BY <2>2, <2>3, <2>4, <3>2, <3>3
  <2>6. CASE \E o : Resolves(o)
    <3>1. PICK o : Resolves(o)
      BY <2>6
    <3>2. o.slot \in LiveSlots' /\ o.slot \in LiveSlots /\ ins' = ins
      BY <1>0, <3>1, HaveIssued DEF Resolves
    <3>3. UNCHANGED <<renameVars, fpc>> \/ robHead' = robHead
      BY <3>1 DEF Resolves
    <3> QED BY <2>2, <2>3, <2>4, <3>2, <3>3
  <2>7. CASE Issue \/ AccessLoad \/ CaptureStoreData \/ DrainStore \/ CommitFault
             \/ UNCHANGED backVars
    <3>1. UNCHANGED <<renameVars, ins, fpc>>
      BY <2>7 DEF Issue, AccessLoad, CaptureStoreData, DrainStore, CommitFault, backVars
    <3> QED BY <2>2, <3>1
  <2> QED BY <1>0, <2>1, <2>5, <2>6, <2>7, WritebackCompletes, ResolveResolves
          DEF BackNext, BackStep, Commits
<1> QED BY <1>1, <1>2, <1>3, <1>4

(* What the in-order machine is about to do is the head of the buffer, and *)
(* once done its result is that machine's.                                 *)
LEMMA HeadIs ==
  ASSUME RefInv, robCount > 0
  PROVE  /\ robHead \in LiveSlots /\ robHead \in Slots /\ Slot(0) = robHead
         /\ Nth(0) = rob[robHead] /\ RobHead = ins[robHead]
         /\ RefPc = ins[robHead].pc /\ code[RefPc] = ins[robHead].I
         /\ ins[robHead].I \in Instructions
         /\ Before(robHead) = Undo(0)
         /\ OlderStores(robHead) = {}
<1> USE DEF RefInv, BackInv
<1>1. SlotsAre /\ 0 \in Ages
  BY SlotFacts DEF RenameInv, SlotsAre, Ages
<1>2. robHead \in LiveSlots /\ robHead \in Slots /\ Slot(0) = robHead
      /\ Nth(0) = rob[robHead] /\ Before(robHead) = Undo(0)
  BY <1>1 DEF SlotsAre, LiveSlots
<1>3. RobHead = ins[robHead] /\ RefPc = ins[robHead].pc
  BY <1>2 DEF RobHead, Ins, RefPc
<1>4. code[RefPc] = ins[robHead].I /\ ins[robHead].I \in Instructions
  BY <1>1, <1>2, <1>3, LiveIns DEF Shape, SlotsAre
<1>5. OlderStores(robHead) = {}
  <2> SUFFICES ASSUME NEW t \in LiveSlots, rob[t].seq < rob[robHead].seq PROVE FALSE
    BY DEF OlderStores
  <2>1. rob[t].seq \in Nat /\ rob[robHead].seq \in Nat
    BY <1>2, SeqBySlot DEF RenameInv
  <2>2. t # robHead => rob[robHead].seq < rob[t].seq
    BY SeqBySlot DEF RenameInv
  <2> QED BY <2>1, <2>2
<1> QED BY <1>2, <1>3, <1>4, <1>5

LEMMA HeadExecuted ==
  ASSUME RefInv, robCount > 0
  PROVE  Reference!Now = ins[robHead].I /\ Reference!Executed = Result(robHead)
<1>1. Reference!Now = ins[robHead].I
  BY HeadIs DEF Reference!Now, RefPc
<1>2. PICK I, pc : I = ins[robHead].I /\ pc = ins[robHead].pc
  OBVIOUS
<1>3. I \in Instructions /\ RefPc = pc /\ I.rs1 \in ArchRegs /\ I.rs2 \in ArchRegs
  BY <1>2, HeadIs DEF Instructions
<1>4. Result(robHead) = Execute(I, pc, RefRegs[I.rs1], RefRegs[I.rs2])
  BY <1>2, <1>3, HeadIs DEF Result, RefRegs
<1>5. I.op \in {"alu", "load", "store", "branch", "jump", "sys", "show", "halt"}
  BY <1>3 DEF Instructions
<1>6. Execute(I, pc, RefRegs[I.rs1], RefRegs[I.rs2])
      = Execute(I, pc, IF UsesRs1(I) THEN RefRegs[I.rs1] ELSE 0,
                       IF UsesRs2(I) THEN RefRegs[I.rs2] ELSE 0)
  BY <1>5, ExecuteSame
<1>7. Reference!Executed = Execute(I, pc, IF UsesRs1(I) THEN RefRegs[I.rs1] ELSE 0,
                                          IF UsesRs2(I) THEN RefRegs[I.rs2] ELSE 0)
  BY <1>1, <1>2, <1>3
     DEF Reference!Executed, Reference!Execute, Reference!UsesRs1, Reference!UsesRs2,
         Reference!IsMem, Execute, UsesRs1, UsesRs2, IsMem, RefPc, RefRegs
<1> QED BY <1>1, <1>4, <1>6, <1>7

(* Its outcome is where the path goes on.                                  *)
LEMMA PathAtHead ==
  ASSUME RefInv, RenameInv', robCount > 0, done[robHead], Retires
  PROVE  /\ ended' = "no" =>
              RefPc' = IF Result(robHead).redirect THEN Result(robHead).target ELSE RefPc + 1
         /\ robCount' = 0 => fpc' = NextPc(RefPc, OutcomeOf(robHead))
<1> USE DEF RefInv, BackInv
<1>1. /\ robCount \in Nat /\ robCount' = robCount - 1 /\ fpc' = fpc /\ ins' = ins
      /\ \A k \in 0 .. robCount - 1 : Slot(k)' = Slot(k + 1)
  BY SlotFacts, Retire DEF Retires, RenameInv, SlotsAre
<1>2. /\ Follow(Slot(0)) = IF 0 = robCount - 1 THEN fpc ELSE Ins(1).pc
      /\ Slot(0) = robHead /\ RefPc = ins[robHead].pc
  <2>1. 0 \in Ages
    BY <1>1 DEF Ages
  <2>2. Follow(Slot(0)) = IF 0 = robCount - 1 THEN fpc ELSE Ins(0 + 1).pc
    BY <2>1 DEF OnPath
  <2> HIDE DEF RefInv, BackInv
  <2>3. Slot(0) = robHead /\ RefPc = ins[robHead].pc
    BY HeadIs
  <2> QED BY <2>2, <2>3
<1>3. Follow(robHead) = NextPc(RefPc, OutcomeOf(robHead))
  BY <1>2 DEF Follow
<1>4. NextPc(RefPc, OutcomeOf(robHead))
      = IF Result(robHead).redirect THEN Result(robHead).target ELSE RefPc + 1
  BY DEF NextPc, OutcomeOf
<1>5. CASE robCount = 1
  <2>1. robCount' = 0 /\ fpc' = Follow(robHead)
    BY <1>1, <1>2, <1>5
  <2>2. ended' = "no" => RefPc' = fpc'
    BY <2>1 DEF RefPc
  <2> QED BY <1>3, <1>4, <2>1, <2>2
<1>6. CASE robCount # 1
  <2>1. robCount' > 0 /\ Slot(0)' = Slot(1) /\ Follow(robHead) = Ins(1).pc
    BY <1>1, <1>2, <1>6
  <2>2. RefPc' = Ins(1).pc
    BY <1>1, <2>1 DEF RefPc, RobHead, Ins
  <2> QED BY <1>3, <1>4, <2>1, <2>2
<1> QED BY <1>5, <1>6

(* The register a commit makes architectural.                              *)
LEMMA RegsAtHead ==
  ASSUME RefInv, RenameInv', robCount > 0, RenameCommit, val' = val
  PROVE  RefRegs' = IF rob[robHead].pdst # NoReg
                    THEN [RefRegs EXCEPT ![ins[robHead].I.rd] = val[rob[robHead].pdst]]
                    ELSE RefRegs
<1> USE DEF RefInv, BackInv
<1>1. PICK n : n = robCount /\ n \in Nat /\ n > 0 /\ 0 \in 0 .. n - 1
  BY SlotFacts DEF RenameInv, SlotsAre
<1>2. Undo(0)' = Undo(0 + 1)
  BY <1>1, CommitUndo DEF RenameInv
<1>3. \A r \in ArchRegs : Undo(0)'[r] = IF Writes(0, r) THEN rob[robHead].pdst ELSE Undo(0)[r]
  BY <1>2, HeadIs, UndoSecond
<1>4. RefRegs' = [r \in ArchRegs |-> val[Undo(0)'[r]]]
  BY DEF RefRegs
<1>5. \A r \in ArchRegs : RefRegs'[r] = IF Writes(0, r) THEN val[rob[robHead].pdst] ELSE RefRegs[r]
  BY <1>3, <1>4 DEF RefRegs
<1>6. \A r : Writes(0, r) <=> rob[robHead].pdst # NoReg /\ ins[robHead].I.rd = r
  BY HeadIs DEF Dests, Writes
<1> QED BY <1>4, <1>5, <1>6 DEF RefRegs

LEMMA PlainStep ==
  ASSUME RefInv, RenameInv', [BackNext]_backVars, ended = "no", CommitPlain
  PROVE  Reference!Plain
<1> USE DEF RefInv, BackInv
<1>1. Retires /\ robCount > 0 /\ done[robHead] /\ val' = val /\ ended' = ended
      /\ RenameCommit /\ mem' = mem
  BY CommitRetires DEF Commits, CommitPlain, prf
<1>2. PICK I, x, v, w : /\ I = ins[robHead].I /\ x = Result(robHead)
                        /\ v = val[rob[robHead].pdst]
                        /\ w = (rob[robHead].pdst # NoReg)
  OBVIOUS
<1>3. Reference!Now = I /\ Reference!Executed = x /\ I = RobHead.I
  BY <1>1, <1>2, HeadExecuted, HeadIs
<1>4. ~IsSystem(I)
  BY <1>3 DEF CommitPlain
<1>5. IsMem(I) => lsq[robHead].addr = x.value /\ x.value \in Addrs
  <2> SUFFICES ASSUME IsMem(I) PROVE lsq[robHead].addr = x.value /\ x.value \in Addrs
    OBVIOUS
  <2>1. lsq[robHead].addr \in Addrs
    BY <1>3 DEF CommitPlain, Faults
  <2>2. lsq[robHead].addrValid
    BY <1>1, <1>2, HeadIs DEF DoneMeans, IsMem, IsLoad, IsStore
  <2> QED BY <1>1, <1>2, <2>1, <2>2, HeadIs DEF AddressesRight
<1>6. RefMem = Settled /\ RefMem' = Settled'
  BY <1>1 DEF RefMem
<1>7. w <=> WritesRd(I) /\ I.rd # 0
  BY <1>1, <1>2, HeadIs DEF Dests
<1>8. w => v = IF IsLoad(I) THEN RefMem[x.value] ELSE x.value
  <2> SUFFICES ASSUME w PROVE v = IF IsLoad(I) THEN RefMem[x.value] ELSE x.value
    OBVIOUS
  <2>1. IF IsLoad(I) THEN Reads(robHead, v) ELSE v = x.value
    BY <1>1, <1>2, HeadIs DEF ResultsRight
  <2>2. IsLoad(I) => v = Settled[lsq[robHead].addr]
    BY <1>1, <1>5, <2>1, HeadIs DEF Reads, IsLoad, IsMem
  <2> QED BY <1>5, <1>6, <2>1, <2>2 DEF IsLoad, IsMem
<1>9. IsStore(I) => lsq[robHead].data = RefRegs[I.rs2] /\ lsq[robHead].data \in Values
  <2> SUFFICES ASSUME IsStore(I) PROVE lsq[robHead].data = RefRegs[I.rs2]
                                       /\ lsq[robHead].data \in Values
    OBVIOUS
  <2>1. lsq[robHead].dataReady
    BY <1>1, <1>2, HeadIs DEF DoneMeans
  <2>2. lsq[robHead].data = val[lsq[robHead].preg] /\ lsq[robHead].preg = Undo(0)[I.rs2]
    BY <1>1, <1>2, <2>1, HeadIs DEF DataWatched
  <2>3. I.rs2 \in ArchRegs
    BY <1>1, <1>2, HeadIs DEF Instructions
  <2>4. lsq[robHead].data \in Values
    BY <1>1, HeadIs DEF Shape, LsqEntry
  <2> QED BY <2>2, <2>3, <2>4 DEF RefRegs
<1>10. RefMem' = IF IsStore(I) THEN [RefMem EXCEPT ![x.value] = RefRegs[I.rs2]] ELSE RefMem
  <2>1. CASE IsStore(I)
    <3>1. sb' = Append(sb, [addr |-> x.value, data |-> RefRegs[I.rs2]])
      BY <1>3, <1>5, <1>9, <2>1 DEF CommitPlain, IsStore, IsMem
    <3>2. x.value \in Addrs /\ RefRegs[I.rs2] \in Values
      BY <1>5, <1>9, <2>1 DEF IsStore, IsMem
    <3> QED BY <1>1, <1>6, <2>1, <3>1, <3>2, SettledAppend
  <2>2. CASE ~IsStore(I)
    <3>1. UNCHANGED memory
      BY <1>1, <1>3, <2>2 DEF CommitPlain, memory
    <3> QED BY <1>6, <2>2, <3>1, SettledSame
  <2> QED BY <2>1, <2>2
<1>11. RefRegs' = IF w THEN [RefRegs EXCEPT ![I.rd] = v] ELSE RefRegs
  BY <1>1, <1>2, RegsAtHead
<1>12. rec' = [pc |-> RefPc,
               wrote |-> IF w THEN {<<"reg", I.rd, v>>}
                         ELSE IF IsStore(I) THEN {<<"mem", x.value, RefRegs[I.rs2]>>} ELSE {}]
  <2>1. rec' = [pc |-> RefPc,
                wrote |-> IF w THEN {<<"reg", I.rd, v>>}
                          ELSE IF IsStore(I)
                          THEN {<<"mem", lsq[robHead].addr, lsq[robHead].data>>} ELSE {}]
    BY <1>1, <1>2, <1>3, HeadIs DEF CommitPlain
  <2> QED BY <1>5, <1>9, <2>1 DEF IsStore, IsMem
<1>13. RefPc' = IF x.redirect THEN x.target ELSE RefPc + 1
  BY <1>1, <1>2, PathAtHead
<1>14. PICK result : result = IF IsLoad(I) THEN RefMem[x.value] ELSE x.value
  OBVIOUS
<1>15. /\ RefRegs' = IF WritesRd(I) /\ I.rd # 0 THEN [RefRegs EXCEPT ![I.rd] = result] ELSE RefRegs
       /\ rec' = [pc |-> RefPc,
                  wrote |-> IF WritesRd(I) /\ I.rd # 0 THEN {<<"reg", I.rd, result>>}
                            ELSE IF IsStore(I) THEN {<<"mem", x.value, RefRegs[I.rs2]>>} ELSE {}]
  BY <1>7, <1>8, <1>11, <1>12, <1>14
<1> HIDE DEF RefInv, BackInv
<1> QED BY <1>1, <1>3, <1>4, <1>5, <1>10, <1>13, <1>14, <1>15
        DEF Reference!Plain, Reference!IsLoad, Reference!IsStore, Reference!IsMem,
            Reference!IsSystem, Reference!WritesRd, Reference!Addrs, Addrs,
            IsLoad, IsStore, IsMem, IsSystem, WritesRd, RefPc, RefRegs, RefMem

(* A system instruction has the machine to itself, and memory too.         *)
LEMMA SystemHead ==
  ASSUME RefInv, robCount > 0, IsSystem(RobHead.I)
  PROVE  /\ robCount = 1 /\ done[robHead] /\ LiveSlots = {robHead}
         /\ Undo(0) = map /\ RefRegs = [r \in ArchRegs |-> val[map[r]]]
         /\ sb = <<>> /\ Settled = mem
         /\ ~Result(robHead).redirect
<1> USE DEF RefInv, BackInv
<1>1. /\ robHead \in LiveSlots /\ Nth(0) = rob[robHead] /\ RobHead = ins[robHead]
  BY HeadIs
<1>2. robCount = 1 /\ LiveSlots = {robHead}
  BY SyscallAlone
<1>3. done[robHead] /\ sb = <<>>
  BY <1>1 DEF DoneMeans, SystemsAlone
<1>4. \A j \in 0 .. robCount - 1, r \in ArchRegs : ~Writes(j, r)
  <2>1. ~WritesRd(RobHead.I)
    BY DEF IsSystem, WritesRd
  <2>2. \A r \in ArchRegs : ~Writes(0, r)
    BY <1>1, <2>1 DEF Dests, Writes
  <2> QED BY <1>2, <2>2
<1>5. Undo(0) = map
  <2>1. Undo(0) = [r \in ArchRegs |-> map[r]]
    BY <1>4 DEF Undo
  <2> QED BY <2>1 DEF RenameInv, RenameTypeOK
<1>6. Settled = mem
  <2>1. Len(sb) = 0
    BY <1>3
  <2>2. \A a \in Addrs : Buffered(a) = {}
    BY <2>1 DEF Buffered
  <2>3. Settled = [a \in Addrs |-> mem[a]]
    BY <2>2 DEF Settled
  <2> QED BY <2>3 DEF Shape
<1>7. ~Result(robHead).redirect
  <2>1. ~IsBranch(ins[robHead].I)
    BY <1>1 DEF IsBranch, IsSystem
  <2> QED BY <2>1, NoRedirect DEF Result
<1> QED BY <1>2, <1>3, <1>5, <1>6, <1>7 DEF RefRegs

LEMMA FaultStep ==
  ASSUME RefInv, RenameInv', [BackNext]_backVars, ended = "no", CommitFault
  PROVE  Reference!OutOfRange
<1> USE DEF RefInv, BackInv
<1>1. robCount > 0 /\ ended' = "failed"
  BY DEF CommitFault
<1>2. PICK I : I = Reference!Now /\ I = RobHead.I /\ I = ins[robHead].I
  BY <1>1, HeadIs, HeadExecuted
<1>3. \/ IsMem(I) /\ Reference!Executed.value \notin Addrs
      \/ I.op = "show" /\ RefRegs[A0] \notin Addrs
  <2>1. CASE done[robHead] /\ Faults
    <3>1. IsMem(I) /\ lsq[robHead].addr \notin Addrs
      BY <1>2, <2>1 DEF Faults
    <3>2. lsq[robHead].addrValid
      BY <1>1, <1>2, <2>1, <3>1, HeadIs DEF DoneMeans, IsMem, IsLoad, IsStore
    <3>3. lsq[robHead].addr = Result(robHead).value
      BY <1>1, <1>2, <3>1, <3>2, HeadIs DEF AddressesRight
    <3> QED BY <1>1, <3>1, <3>3, HeadExecuted
  <2>2. CASE I.op = "show" /\ val[map[A0]] \notin Addrs
    <3>1. IsSystem(RobHead.I) /\ A0 \in ArchRegs
      BY <1>2, <2>2, BackendAssumption DEF IsSystem
    <3>2. RefRegs[A0] = val[map[A0]]
      BY <1>1, <3>1, SystemHead
    <3> QED BY <2>2, <3>2
  <2> QED BY <1>2, <2>1, <2>2 DEF CommitFault
<1>4. UNCHANGED <<RefPc, RefRegs, RefMem, rec>>
  <2>1. ~(ended = "no" /\ Commits)
    <3>1. ended' = "failed" /\ Shape'
      BY <1>1, ShapeNext
    <3>2. robCount' = robCount
      BY DEF CommitFault, renameVars
    <3>3. robCount \in Nat
      BY SlotFacts DEF RenameInv, SlotsAre
    <3> QED BY <3>2, <3>3 DEF Commits, CommitPlain, CommitSyscall, CommitShow, CommitHalt, RenameCommit
  <2> QED BY <2>1, QuietStep
<1> HIDE DEF RefInv, BackInv
<1> QED BY <1>1, <1>2, <1>3, <1>4
        DEF Reference!OutOfRange, Reference!IsMem, Reference!Addrs, IsMem, Addrs,
            RefPc, RefRegs, RefMem

LEMMA SystemStep ==
  ASSUME RefInv, RenameInv', [BackNext]_backVars, ended = "no",
         CommitSyscall \/ CommitShow \/ CommitHalt
  PROVE  Reference!Syscall \/ Reference!Show \/ Reference!Halt
<1> USE DEF RefInv, BackInv
<1>1. robCount > 0 /\ IsSystem(RobHead.I) /\ RenameCommit /\ UNCHANGED <<sb, mem, fpc>>
  BY DEF CommitSyscall, CommitShow, CommitHalt, IsSystem, memory
<1>2. Retires
  BY CommitRetires DEF Commits
<1>3. PICK I : I = Reference!Now /\ I = RobHead.I /\ I = ins[robHead].I /\ RefPc = RobHead.pc
               /\ RefPc \in Int
  <2>1. robHead \in LiveSlots /\ LiveSlots \subseteq Slots
    BY <1>1, HeadIs, SlotFacts DEF RenameInv, SlotsAre
  <2>2. ins[robHead].pc \in Int
    BY <2>1, LiveIns, IsaAssumption DEF Pcs
  <2> QED BY <1>1, <2>2, HeadIs, HeadExecuted
<1>4. /\ robCount = 1 /\ robCount' = 0 /\ done[robHead]
      /\ RefRegs = [r \in ArchRegs |-> val[map[r]]] /\ sb = <<>> /\ Settled = mem
      /\ Undo(0) = map
      /\ ~Result(robHead).redirect
  BY <1>1, SystemHead DEF RenameCommit
<1>5. fpc' = RefPc + 1 /\ (ended' = "no" => RefPc' = RefPc + 1)
  BY <1>1, <1>2, <1>4, PathAtHead DEF NextPc, OutcomeOf
<1>6. Settled' = Settled /\ Settled' = mem'
  BY <1>1, <1>4, SettledSame DEF memory
<1>7. RefMem' = RefMem
  BY <1>1, <1>4, <1>6 DEF RefMem
<1>8. RefRegs' = [r \in ArchRegs |-> val'[map[r]]]
  <2>1. Undo(0)' = map' /\ map' = map
    <3>1. Undo(0)' = [r \in ArchRegs |-> map'[r]]
      BY <1>4 DEF Undo
    <3> QED BY <1>1, <3>1 DEF RenameCommit, RenameInv, RenameTypeOK
  <2> QED BY <2>1 DEF RefRegs
<1>9. A0 \in ArchRegs
  BY BackendAssumption
<1>10. CASE CommitSyscall
  <2>1. PICK input \in Values : /\ val' = [val EXCEPT ![map[A0]] = input]
                                /\ rec' = [pc |-> RobHead.pc, wrote |-> {<<"reg", A0, input>>}]
                                /\ RobHead.I.op = "sys" /\ ended' = ended
    BY <1>10 DEF CommitSyscall
  <2>2. RefRegs' = [RefRegs EXCEPT ![A0] = input]
    <3>1. map[A0] \in Pregs /\ DOMAIN val = Pregs
          /\ \A r \in ArchRegs : map[r] = map[A0] => r = A0
      BY <1>9 DEF RenameInv, RenameTypeOK, NamedOnce, Shape
    <3> QED BY <1>4, <1>8, <1>9, <2>1, <3>1
  <2>3. RefPc' = RefPc + 1
    BY <1>5, <2>1
  <2> HIDE DEF RefInv, BackInv
  <2>4. Reference!Syscall
    BY <1>3, <1>7, <2>1, <2>2, <2>3
       DEF Reference!Syscall, Reference!Values, Values, RefPc, RefRegs, RefMem
  <2> QED BY <2>4
<1>11. CASE CommitShow
  <2>1. PICK addr : /\ addr = val[map[A0]] /\ addr \in Addrs /\ RobHead.I.op = "show"
                    /\ rec' = [pc |-> RobHead.pc, wrote |-> {<<"out", addr, mem[addr]>>}]
                    /\ val' = val /\ ended' = ended
    BY <1>11 DEF CommitShow, prf
  <2>2. RefRegs[A0] = addr /\ RefMem[addr] = mem[addr] /\ RefRegs' = RefRegs
    BY <1>4, <1>8, <1>9, <2>1 DEF RefMem
  <2>3. RefPc' = RefPc + 1
    BY <1>5, <2>1
  <2>4. /\ I.op = "show" /\ RefRegs[A0] \in Addrs
        /\ rec' = [pc |-> RefPc, wrote |-> {<<"out", RefRegs[A0], RefMem[RefRegs[A0]]>>}]
    BY <1>3, <2>1, <2>2
  <2> HIDE DEF RefInv, BackInv
  <2>5. Reference!Show
    BY <1>3, <1>7, <2>1, <2>2, <2>3, <2>4
       DEF Reference!Show, Reference!Addrs, Addrs, RefPc, RefRegs, RefMem
  <2> QED BY <2>5
<1>12. CASE CommitHalt
  <2>1. /\ RobHead.I.op = "halt" /\ ended' = "halted" /\ val' = val
        /\ rec' = [pc |-> RobHead.pc, wrote |-> {}]
    BY <1>12 DEF CommitHalt, prf
  <2>2. RefRegs' = RefRegs
    BY <1>4, <1>8, <2>1
  <2>3. RefPc' = RefPc
    <3>1. RefPc' = fpc' - 1
      BY <1>4, <2>1 DEF RefPc
    <3> QED BY <1>3, <1>5, <3>1
  <2> HIDE DEF RefInv, BackInv
  <2>4. Reference!Halt
    BY <1>3, <1>7, <2>1, <2>2, <2>3 DEF Reference!Halt, RefPc, RefRegs, RefMem
  <2> QED BY <2>4
<1> QED BY <1>10, <1>11, <1>12

LEMMA StepRefines ==
  RefInv /\ [BackNext]_backVars => [Reference!INext]_(Reference!ivars)
<1> SUFFICES ASSUME RefInv, [BackNext]_backVars
             PROVE  [Reference!INext]_(Reference!ivars)
  OBVIOUS
<1>1. RenameInv'
  BY RefInvNext
<1>2. CASE ended = "no" /\ Commits
  <2>1. code' = code
    BY <1>2 DEF Commits, CommitPlain, CommitSyscall, CommitShow, CommitHalt
  <2>2. Reference!Plain \/ Reference!Syscall \/ Reference!Show \/ Reference!Halt
    BY <1>1, <1>2, PlainStep, SystemStep DEF Commits
  <2> QED BY <1>2, <2>1, <2>2 DEF Reference!INext
<1>3. CASE ~(ended = "no" /\ Commits)
  <2>1. /\ UNCHANGED <<RefPc, RefRegs, RefMem, code, rec>>
        /\ ended' = ended \/ (ended = "no" /\ CommitFault)
    BY <1>1, <1>3, QuietStep
  <2>2. CASE ended' = ended
    BY <2>1, <2>2 DEF Reference!ivars, RefPc, RefRegs, RefMem
  <2>3. CASE ended = "no" /\ CommitFault
    BY <1>1, <2>1, <2>3, FaultStep DEF Reference!INext
  <2> QED BY <2>1, <2>2, <2>3
<1> QED BY <1>2, <1>3

LEMMA StartRefines == BackInit => Reference!IInit
<1> SUFFICES ASSUME BackInit PROVE Reference!IInit
  OBVIOUS
<1>1. /\ robCount = 0 /\ map = [r \in ArchRegs |-> r] /\ fpc = 0 /\ ended = "no"
      /\ sb = <<>> /\ mem = InitMem /\ val = [p \in Pregs |-> 0]
      /\ rec = [pc |-> -1, wrote |-> {}]
  BY DEF BackInit, RenameInit
<1>2. RefPc = 0
  BY <1>1 DEF RefPc
<1>3. RefRegs = [r \in ArchRegs |-> 0]
  <2>1. Undo(0) = [r \in ArchRegs |-> r]
    BY <1>1 DEF Undo
  <2>2. \A r \in ArchRegs : r \in Pregs
    BY RenameAssumption DEF ArchRegs, Pregs
  <2> QED BY <1>1, <2>1, <2>2 DEF RefRegs
<1>4. RefMem = InitMem
  <2>1. \A a \in Addrs : Buffered(a) = {}
    BY <1>1 DEF Buffered
  <2>2. Settled = [a \in Addrs |-> InitMem[a]]
    BY <1>1, <2>1 DEF Settled
  <2> QED BY <1>1, <2>2, IsaAssumption DEF RefMem, Addrs
<1> QED BY <1>1, <1>2, <1>3, <1>4
        DEF Reference!IInit, Reference!NoRecord, ArchRegs, RefPc, RefRegs, RefMem

(* The out-of-order core, with its renaming, its speculation on branches   *)
(* and on loads, its replays and its store buffer, commits what the        *)
(* functional model executes, in the same order and with the same records, *)
(* and ends as it does (the differential check of sim/main.cpp), for every *)
(* program and every size of every structure.                              *)
THEOREM OutOfOrderIsInOrder == BackSpec => RefinesInOrder
<1>1. BackSpec => []RefInv
  BY RefInvStarts, RefInvNext, PTL DEF BackSpec
<1> QED
  BY <1>1, StartRefines, StepRefines, PTL DEF BackSpec, RefinesInOrder, Reference!ISpec
=============================================================================
