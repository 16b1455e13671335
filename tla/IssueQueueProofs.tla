-------------------------- MODULE IssueQueueProofs --------------------------
(***************************************************************************)
(* The bitmaps and rows of the issue queue stay consistent and implement a *)
(* set of instructions with what they need, and every scan of a bitmap     *)
(* visits its slots in age order, which is the program's for the ready.    *)
(*                                                                         *)
(* The invariants need one fact the queue does not itself keep: the slots  *)
(* of the reorder buffer hold increasing sequence numbers from the head    *)
(* on, also those whose instruction has left the queue.                    *)
(***************************************************************************)
EXTENDS IssueQueue, RingProofs, FiniteSetTheorems, SequenceTheorems

Ages == 0 .. count - 1
Entries == [seq : 0 .. MaxSeq, ps1 : Pregs, ps2 : Pregs]

Shape ==
  /\ occupied \subseteq Slots
  /\ e \in [Slots -> Entries]
  /\ IsFiniteSet(occupied) /\ n = Cardinality(occupied) /\ n <= Capacity
  /\ wait1 \in [Pregs -> SUBSET Slots] /\ wait2 \in [Pregs -> SUBSET Slots]
  /\ head \in Slots /\ count \in 0 .. RobSize /\ seq \in 0 .. MaxSeq

(* The live slots hold increasing sequence numbers.                        *)
SlotsOrdered ==
  /\ \A i \in Ages : /\ 1 <= e[Slot(i)].seq /\ e[Slot(i)].seq <= seq
                     /\ \A j \in 0 .. i - 1 : e[Slot(j)].seq < e[Slot(i)].seq
  /\ \A s \in occupied : \E i \in Ages : s = Slot(i)

RowsMatch ==
  /\ \A p \in Pregs : /\ wait1[p] = {s \in blocked1 : e[s].ps1 = p}
                      /\ wait2[p] = {s \in blocked2 : e[s].ps2 = p}
  /\ blocked1 \subseteq occupied /\ blocked2 \subseteq occupied
  /\ ready = occupied \ (blocked1 \cup blocked2)

IqInv == Shape /\ SlotsOrdered /\ RowsMatch /\ NoLostWakeup

LEMMA SlotTypes ==
  ASSUME Shape
  PROVE  /\ RobSize \in Nat /\ count \in Nat /\ count <= RobSize
         /\ head \in 0 .. RobSize - 1 /\ Slots = 0 .. RobSize - 1
         /\ \A i \in 0 .. RobSize : Slot(i) \in Slots
         /\ \A i, j \in 0 .. RobSize - 1 : Slot(i) = Slot(j) => i = j
         /\ Slot(0) = head
<1>1. /\ RobSize \in Nat /\ count \in Nat /\ count <= RobSize
      /\ head \in 0 .. RobSize - 1 /\ Slots = 0 .. RobSize - 1
  BY IssueQueueAssumption DEF Shape, Slots
<1>2. \A i \in 0 .. RobSize : Slot(i) \in Slots
  BY <1>1, IndexInRange DEF Slot
<1>3. \A i, j \in 0 .. RobSize - 1 : Slot(i) = Slot(j) => i = j
  BY <1>1, IndexInjective DEF Slot
<1>4. Slot(0) = head
  BY <1>1 DEF Slot, IndexOf
<1> QED BY <1>1, <1>2, <1>3, <1>4

LEMMA LiveEntries ==
  ASSUME Shape
  PROVE  \A i \in Ages : Slot(i) \in Slots /\ e[Slot(i)] \in Entries
                       /\ e[Slot(i)].seq \in 0 .. MaxSeq
<1> TAKE i \in Ages
<1>1. i \in 0 .. RobSize
  BY SlotTypes DEF Ages
<1>2. Slot(i) \in Slots
  BY <1>1, SlotTypes
<1>3. e[Slot(i)] \in Entries
  BY <1>2 DEF Shape
<1> QED BY <1>2, <1>3 DEF Entries

(* Waiting slots are live slots, of different instructions.                *)
LEMMA SeqsDiffer ==
  ASSUME Shape, SlotsOrdered
  PROVE  /\ \A s \in occupied : e[s].seq \in 1 .. MaxSeq /\ e[s].seq <= seq
         /\ \A s, t \in occupied : e[s].seq = e[t].seq => s = t
<1>0. count \in Nat /\ Ages = 0 .. count - 1 /\ seq \in 0 .. MaxSeq /\ MaxSeq \in Nat
  BY SlotTypes, IssueQueueAssumption DEF Ages, Shape
<1>1. \A i \in Ages : e[Slot(i)].seq \in 0 .. MaxSeq
  BY LiveEntries
<1>2. ASSUME NEW s \in occupied PROVE e[s].seq \in 1 .. MaxSeq /\ e[s].seq <= seq
  <2>1. PICK i \in Ages : s = Slot(i)
    BY DEF SlotsOrdered
  <2>2. 1 <= e[Slot(i)].seq /\ e[Slot(i)].seq <= seq /\ e[Slot(i)].seq \in 0 .. MaxSeq
    BY <1>1 DEF SlotsOrdered
  <2> QED BY <1>0, <2>1, <2>2
<1>3. ASSUME NEW s \in occupied, NEW t \in occupied, e[s].seq = e[t].seq PROVE s = t
  <2>1. PICK i \in Ages, j \in Ages : s = Slot(i) /\ t = Slot(j)
    BY DEF SlotsOrdered
  <2>2. (i < j => e[Slot(i)].seq < e[Slot(j)].seq) /\ (j < i => e[Slot(j)].seq < e[Slot(i)].seq)
    BY <1>0 DEF SlotsOrdered
  <2>3. e[Slot(i)].seq \in Int /\ e[Slot(j)].seq \in Int
    BY <1>0, <1>1
  <2>4. i = j
    BY <1>0, <1>3, <2>1, <2>2, <2>3
  <2> QED BY <2>1, <2>4
<1> QED BY <1>2, <1>3

(* What a release does to a consistent queue.                              *)
LEMMA ReleaseKeeps ==
  ASSUME Shape, RowsMatch, NoLostWakeup, NEW S, S \subseteq occupied, Release(S),
         UNCHANGED <<head, seq, prfReady>>, count' \in 0 .. RobSize
  PROVE  /\ Shape' /\ RowsMatch' /\ NoLostWakeup'
         /\ occupied' = occupied \ S /\ e' = e
<1>1. e' = e /\ occupied' = occupied \ S /\ blocked1' = blocked1 \ S /\ blocked2' = blocked2 \ S
      /\ ready' = ready \ S /\ n' = n - Cardinality(S)
  BY DEF Release
<1>2. \A p \in Pregs : /\ wait1'[p] = wait1[p] \ {s \in S \cap blocked1 : e[s].ps1 = p}
                       /\ wait2'[p] = wait2[p] \ {s \in S \cap blocked2 : e[s].ps2 = p}
  BY DEF Release, Forgotten, Shape, RowsMatch
<1>3. RowsMatch'
  <2>1. ASSUME NEW p \in Pregs
        PROVE  /\ wait1'[p] = {s \in blocked1' : e'[s].ps1 = p}
               /\ wait2'[p] = {s \in blocked2' : e'[s].ps2 = p}
    BY <1>1, <1>2 DEF RowsMatch
  <2>2. /\ blocked1' \subseteq occupied' /\ blocked2' \subseteq occupied'
        /\ ready' = occupied' \ (blocked1' \cup blocked2')
    BY <1>1 DEF RowsMatch
  <2> QED BY <2>1, <2>2 DEF RowsMatch
<1>4. NoLostWakeup'
  BY <1>1 DEF NoLostWakeup
<1>5. IsFiniteSet(occupied') /\ n' = Cardinality(occupied') /\ n' <= Capacity
  <2>1. IsFiniteSet(S) /\ IsFiniteSet(occupied \ S) /\ occupied \cap S = S
    BY FS_Subset DEF Shape
  <2>2. Cardinality(occupied \ S) = Cardinality(occupied) - Cardinality(S)
    BY <2>1, FS_Difference DEF Shape
  <2>3. Cardinality(S) \in Nat /\ n \in Nat
    BY <2>1, FS_CardinalityType DEF Shape
  <2> QED BY <1>1, <2>1, <2>2, <2>3, IssueQueueAssumption DEF Shape
<1>6. wait1' \in [Pregs -> SUBSET Slots] /\ wait2' \in [Pregs -> SUBSET Slots]
  BY DEF Release, Forgotten, Shape
<1>7. Shape'
  BY <1>1, <1>5, <1>6 DEF Shape
<1> QED BY <1>1, <1>3, <1>4, <1>7

LEMMA DispatchKeeps ==
  ASSUME IqInv, NEW ps1 \in Pregs, NEW ps2 \in Pregs, NEW uses1 \in BOOLEAN,
         NEW uses2 \in BOOLEAN, NEW dest, Dispatch(ps1, ps2, uses1, uses2, dest),
         NEW new, new = Slot(count),
         NEW q, q = [seq |-> seq + 1, ps1 |-> ps1, ps2 |-> ps2],
         NEW r1, r1 = (~uses1 \/ ps1 \in prfReady), NEW r2, r2 = (~uses2 \/ ps2 \in prfReady)
  PROVE  /\ IqInv'
         /\ seq + 1 \in 1 .. MaxSeq
         /\ occupied' = occupied \cup {new} /\ new \notin occupied
         /\ e'[new] = q /\ \A s \in occupied : e'[s] = e[s] /\ s # new
         /\ blocked1' = IF r1 THEN blocked1 ELSE blocked1 \cup {new}
         /\ blocked2' = IF r2 THEN blocked2 ELSE blocked2 \cup {new}
<1> USE DEF IqInv
<1>0. /\ RobSize \in Nat /\ count \in Nat /\ count < RobSize /\ new \in Slots
      /\ seq \in 0 .. MaxSeq /\ MaxSeq \in Nat /\ seq < MaxSeq /\ n # Capacity
  BY SlotTypes, IssueQueueAssumption DEF Dispatch, Full, Shape
<1>1. /\ e' = [e EXCEPT ![new] = q] /\ occupied' = occupied \cup {new}
      /\ wait1' = Waits(wait1, ps1, new, r1) /\ wait2' = Waits(wait2, ps2, new, r2)
      /\ blocked1' = IF r1 THEN blocked1 ELSE blocked1 \cup {new}
      /\ blocked2' = IF r2 THEN blocked2 ELSE blocked2 \cup {new}
      /\ ready' = IF r1 /\ r2 THEN ready \cup {new} ELSE ready
      /\ n' = n + 1 /\ seq' = seq + 1 /\ count' = count + 1 /\ head' = head
      /\ prfReady' = prfReady \ dest
  BY DEF Dispatch, Track
<1>2. q \in Entries /\ q.seq = seq + 1 /\ q.ps1 = ps1 /\ q.ps2 = ps2
  BY <1>0 DEF Entries
<1>3. \A i \in Ages : Slot(i) # new
  BY <1>0, SlotTypes DEF Ages
<1>4. new \notin occupied
  BY <1>3 DEF SlotsOrdered
<1>5. e'[new] = q /\ e' \in [Slots -> Entries] /\ \A s : s \in Slots /\ s # new => e'[s] = e[s]
  BY <1>0, <1>1, <1>2 DEF Shape
<1>6. \A s \in occupied : e'[s] = e[s] /\ s # new
  BY <1>4, <1>5 DEF Shape
<1>7. RowsMatch'
  <2>1. \A s \in blocked1 \cup blocked2 : s # new /\ e'[s] = e[s]
    BY <1>6 DEF RowsMatch
  <2>2. ASSUME NEW p \in Pregs PROVE wait1'[p] = {s \in blocked1' : e'[s].ps1 = p}
    <3>1. wait1[p] = {s \in blocked1 : e[s].ps1 = p}
      BY DEF RowsMatch
    <3>2. CASE r1
      BY <1>1, <2>1, <3>1, <3>2 DEF Waits
    <3>3. CASE ~r1
      <4>1. wait1'[p] = IF p = ps1 THEN wait1[p] \cup {new} ELSE wait1[p]
        BY <1>1, <3>3 DEF Waits, Shape
      <4> QED BY <1>1, <1>2, <1>5, <2>1, <3>1, <3>3, <4>1
    <3> QED BY <3>2, <3>3
  <2>3. ASSUME NEW p \in Pregs PROVE wait2'[p] = {s \in blocked2' : e'[s].ps2 = p}
    <3>1. wait2[p] = {s \in blocked2 : e[s].ps2 = p}
      BY DEF RowsMatch
    <3>2. CASE r2
      BY <1>1, <2>1, <3>1, <3>2 DEF Waits
    <3>3. CASE ~r2
      <4>1. wait2'[p] = IF p = ps2 THEN wait2[p] \cup {new} ELSE wait2[p]
        BY <1>1, <3>3 DEF Waits, Shape
      <4> QED BY <1>1, <1>2, <1>5, <2>1, <3>1, <3>3, <4>1
    <3> QED BY <3>2, <3>3
  <2>4. blocked1' \subseteq occupied' /\ blocked2' \subseteq occupied'
    BY <1>1 DEF RowsMatch
  <2>5. ready' = occupied' \ (blocked1' \cup blocked2')
    BY <1>1, <1>4 DEF RowsMatch
  <2> QED BY <2>2, <2>3, <2>4, <2>5 DEF RowsMatch
<1>8. NoLostWakeup'
  <2>1. \A s \in occupied : e'[s] = e[s]
    BY <1>6
  <2>2. ~r1 => ps1 \notin prfReady
    OBVIOUS
  <2>3. ~r2 => ps2 \notin prfReady
    OBVIOUS
  <2>4. ASSUME NEW s \in blocked1' PROVE e'[s].ps1 \notin prfReady'
    BY <1>1, <1>2, <1>5, <2>1, <2>2 DEF NoLostWakeup, RowsMatch
  <2>5. ASSUME NEW s \in blocked2' PROVE e'[s].ps2 \notin prfReady'
    BY <1>1, <1>2, <1>5, <2>1, <2>3 DEF NoLostWakeup, RowsMatch
  <2> QED BY <2>4, <2>5 DEF NoLostWakeup
<1>9. Shape'
  <2>1. IsFiniteSet(occupied') /\ Cardinality(occupied') = n + 1
    BY <1>1, <1>4, FS_AddElement DEF Shape
  <2>2. n \in Nat
    BY FS_CardinalityType DEF Shape
  <2>3. wait1' \in [Pregs -> SUBSET Slots] /\ wait2' \in [Pregs -> SUBSET Slots]
    BY <1>0, <1>1 DEF Waits, Shape
  <2>4. n' <= Capacity
    BY <1>0, <1>1, <2>2, IssueQueueAssumption DEF Shape
  <2>5. occupied' \subseteq Slots /\ head' \in Slots /\ count' \in 0 .. RobSize
        /\ seq' \in 0 .. MaxSeq
    BY <1>0, <1>1 DEF Shape
  <2> QED BY <1>1, <1>5, <2>1, <2>3, <2>4, <2>5 DEF Shape
<1>10. SlotsOrdered'
  <2>1. \A k : Slot(k)' = Slot(k)
    BY <1>1 DEF Slot
  <2>2. \A i \in Ages : e'[Slot(i)] = e[Slot(i)] /\ Slot(i) \in Slots /\ e[Slot(i)].seq \in Int
    <3>1. \A i \in Ages : Slot(i) \in Slots /\ e[Slot(i)].seq \in Int
      BY LiveEntries
    <3> QED BY <1>3, <1>5, <3>1
  <2>3. Ages' = 0 .. count /\ Ages = 0 .. count - 1
    BY <1>0, <1>1 DEF Ages
  <2>4. ASSUME NEW i \in Ages'
        PROVE  /\ 1 <= e'[Slot(i)].seq /\ e'[Slot(i)].seq <= seq'
               /\ \A j \in 0 .. i - 1 : e'[Slot(j)].seq < e'[Slot(i)].seq
    <3>1. CASE i = count
      <4>1. e'[Slot(i)].seq = seq + 1
        BY <1>2, <1>5, <3>1
      <4>2. \A j \in 0 .. i - 1 : e'[Slot(j)].seq <= seq /\ e'[Slot(j)].seq \in Int
        BY <2>2, <2>3, <3>1 DEF SlotsOrdered
      <4> QED BY <1>0, <1>1, <4>1, <4>2
    <3>2. CASE i # count
      <4>1. i \in Ages /\ \A j \in 0 .. i - 1 : j \in Ages
        BY <1>0, <2>3, <3>2
      <4>2. 1 <= e[Slot(i)].seq /\ e[Slot(i)].seq <= seq
            /\ \A j \in 0 .. i - 1 : e[Slot(j)].seq < e[Slot(i)].seq
        BY <4>1 DEF SlotsOrdered
      <4> QED BY <1>0, <1>1, <2>2, <4>1, <4>2
    <3> QED BY <3>1, <3>2
  <2>5. ASSUME NEW s \in occupied' PROVE \E i \in Ages' : s = Slot(i)
    <3>1. CASE s = new
      BY <1>0, <2>3, <3>1
    <3>2. CASE s \in occupied
      <4>1. PICK i \in Ages : s = Slot(i)
        BY <3>2 DEF SlotsOrdered
      <4>2. i \in Ages'
        BY <1>0, <2>3
      <4> QED BY <4>1, <4>2
    <3> QED BY <1>1, <3>1, <3>2
  <2> QED BY <2>1, <2>4, <2>5 DEF SlotsOrdered
<1> QED BY <1>0, <1>1, <1>4, <1>5, <1>6, <1>7, <1>8, <1>9, <1>10

LEMMA IssueKeeps ==
  ASSUME IqInv, NEW s \in Slots, Issue(s)
  PROVE  /\ IqInv'
         /\ s \in occupied /\ Needs(s) = {}
         /\ occupied' = occupied \ {s} /\ e' = e
         /\ blocked1' = blocked1 /\ blocked2' = blocked2
<1> USE DEF IqInv
<1>1. s \in occupied /\ s \notin blocked1 /\ s \notin blocked2
  BY DEF Issue, RowsMatch
<1>2. Release({s}) /\ UNCHANGED <<head, count, seq, prfReady>>
  BY DEF Issue
<1>3. count' \in 0 .. RobSize
  BY <1>2 DEF Shape
<1>4. Shape' /\ RowsMatch' /\ NoLostWakeup' /\ occupied' = occupied \ {s} /\ e' = e
  BY <1>1, <1>2, <1>3, ReleaseKeeps
<1>5. SlotsOrdered'
  <2>1. Ages' = Ages /\ \A k : Slot(k)' = Slot(k)
    BY <1>2 DEF Ages, Slot
  <2> QED BY <1>2, <1>4, <2>1 DEF SlotsOrdered
<1> QED BY <1>1, <1>2, <1>4, <1>5 DEF Release, Needs

LEMMA WritebackKeeps ==
  ASSUME IqInv, NEW p \in Pregs, Writeback(p)
  PROVE  /\ IqInv'
         /\ occupied' = occupied /\ e' = e
         /\ blocked1' = {s \in blocked1 : e[s].ps1 # p}
         /\ blocked2' = {s \in blocked2 : e[s].ps2 # p}
<1> USE DEF IqInv
<1>1. /\ wait1' = [wait1 EXCEPT ![p] = {}] /\ wait2' = [wait2 EXCEPT ![p] = {}]
      /\ blocked1' = blocked1 \ wait1[p] /\ blocked2' = blocked2 \ wait2[p]
      /\ ready' = ready \cup Unblocked(wait1[p], wait2[p])
      /\ prfReady' = prfReady \cup {p}
      /\ UNCHANGED <<e, occupied, n, head, count, seq>>
  BY DEF Writeback, Wakeup
<1>2. /\ wait1[p] = {s \in blocked1 : e[s].ps1 = p}
      /\ wait2[p] = {s \in blocked2 : e[s].ps2 = p}
  BY DEF RowsMatch
<1>3. /\ blocked1' = {s \in blocked1 : e[s].ps1 # p}
      /\ blocked2' = {s \in blocked2 : e[s].ps2 # p}
  BY <1>1, <1>2
<1>4. RowsMatch'
  <2>1. ASSUME NEW r \in Pregs PROVE /\ wait1'[r] = {s \in blocked1' : e'[s].ps1 = r}
                                     /\ wait2'[r] = {s \in blocked2' : e'[s].ps2 = r}
    BY <1>1, <1>3 DEF RowsMatch, Shape
  <2>2. ready' = occupied' \ (blocked1' \cup blocked2')
    BY <1>1, <1>2 DEF RowsMatch, Unblocked
  <2> QED BY <1>1, <2>1, <2>2 DEF RowsMatch
<1>5. NoLostWakeup'
  BY <1>1, <1>3 DEF NoLostWakeup
<1>6. Shape'
  BY <1>1 DEF Shape
<1>7. SlotsOrdered'
  <2>1. Ages' = Ages /\ \A k : Slot(k)' = Slot(k)
    BY <1>1 DEF Ages, Slot
  <2> QED BY <1>1, <2>1 DEF SlotsOrdered
<1> QED BY <1>1, <1>3, <1>4, <1>5, <1>6, <1>7

LEMMA SquashKeeps ==
  ASSUME IqInv, NEW k \in Ages, Squash(k), NEW x, x = e[Slot(k)].seq - 1
  PROVE  /\ IqInv'
         /\ x \in 0 .. MaxSeq
         /\ occupied' = {s \in occupied : e[s].seq <= x} /\ e' = e
         /\ blocked1' = blocked1 \ Younger(k) /\ blocked2' = blocked2 \ Younger(k)
<1> USE DEF IqInv
<1>0. /\ RobSize \in Nat /\ count \in Nat /\ count <= RobSize /\ k \in 0 .. count - 1
      /\ MaxSeq \in Nat /\ seq \in 0 .. MaxSeq
  BY SlotTypes, IssueQueueAssumption DEF Ages, Shape
<1>1. \A i \in Ages : e[Slot(i)].seq \in 1 .. MaxSeq
  <2>1. \A i \in Ages : e[Slot(i)].seq \in 0 .. MaxSeq
    BY LiveEntries
  <2> QED BY <1>0, <2>1 DEF SlotsOrdered
<1>2. x \in 0 .. MaxSeq
  BY <1>0, <1>1
<1>3. Younger(k) \subseteq occupied /\ Younger(k) = {s \in occupied : e[s].seq > x}
  BY DEF Younger
<1>4. Release(Younger(k)) /\ count' = k /\ UNCHANGED <<head, seq, prfReady>>
  BY DEF Squash
<1>5. Shape' /\ RowsMatch' /\ NoLostWakeup' /\ occupied' = occupied \ Younger(k) /\ e' = e
  BY <1>0, <1>3, <1>4, ReleaseKeeps
<1>6. occupied' = {s \in occupied : e[s].seq <= x}
  BY <1>2, <1>3, <1>5, SeqsDiffer
<1>7. SlotsOrdered'
  <2>1. Ages' = 0 .. k - 1 /\ \A i : Slot(i)' = Slot(i)
    BY <1>4 DEF Ages, Slot
  <2>2. \A i \in 0 .. k - 1 : i \in Ages
    BY <1>0 DEF Ages
  <2>3. ASSUME NEW s \in occupied' PROVE \E i \in 0 .. k - 1 : s = Slot(i)
    <3>1. PICK i \in Ages : s = Slot(i)
      BY <1>6 DEF SlotsOrdered
    <3>2. k < i => e[Slot(k)].seq < e[Slot(i)].seq
      BY <1>0, <3>1 DEF SlotsOrdered, Ages
    <3>3. e[Slot(i)].seq <= e[Slot(k)].seq - 1
      BY <1>6, <3>1
    <3>4. ~(k < i) /\ k # i
      BY <1>1, <3>2, <3>3
    <3>5. i \in 0 .. k - 1
      BY <1>0, <3>1, <3>4 DEF Ages
    <3> QED BY <3>1, <3>5
  <2> QED BY <1>4, <1>5, <2>1, <2>2, <2>3 DEF SlotsOrdered
<1> QED BY <1>2, <1>4, <1>5, <1>6, <1>7 DEF Release

LEMMA CommitKeeps ==
  ASSUME IqInv, Commit
  PROVE  IqInv' /\ UNCHANGED <<e, occupied, blocked1, blocked2>>
<1> USE DEF IqInv
<1>1. /\ count > 0 /\ head \notin occupied /\ head' = Slot(1) /\ count' = count - 1
      /\ UNCHANGED <<e, occupied, ready, blocked1, blocked2, wait1, wait2, n, seq, prfReady>>
  BY DEF Commit, qvars
<1>2. /\ RobSize \in Nat /\ count \in Nat /\ count <= RobSize /\ head \in 0 .. RobSize - 1
      /\ Slot(1) \in Slots /\ Slot(0) = head
  BY <1>1, SlotTypes
<1>3. \A k \in 0 .. RobSize - 1 : Slot(k)' = Slot(k + 1)
  BY <1>1, <1>2, IndexShift DEF Slot
<1>4. Shape'
  BY <1>1, <1>2 DEF Shape
<1>5. RowsMatch' /\ NoLostWakeup'
  BY <1>1 DEF RowsMatch, NoLostWakeup
<1>6. Ages' = 0 .. count - 2 /\ Ages = 0 .. count - 1
  BY <1>1, <1>2 DEF Ages
<1>7. SlotsOrdered'
  <2>1. ASSUME NEW i \in Ages'
        PROVE  /\ 1 <= e[Slot(i)'].seq /\ e[Slot(i)'].seq <= seq
               /\ \A j \in 0 .. i - 1 : e[Slot(j)'].seq < e[Slot(i)'].seq
    <3>1. i + 1 \in Ages /\ Slot(i)' = Slot(i + 1)
      BY <1>2, <1>3, <1>6
    <3>2. ASSUME NEW j \in 0 .. i - 1 PROVE e[Slot(j)'].seq < e[Slot(i)'].seq
      <4>1. j + 1 \in 0 .. (i + 1) - 1 /\ Slot(j)' = Slot(j + 1)
        BY <1>2, <1>3, <1>6
      <4> QED BY <3>1, <4>1 DEF SlotsOrdered
    <3> QED BY <3>1, <3>2 DEF SlotsOrdered
  <2>2. ASSUME NEW s \in occupied PROVE \E i \in Ages' : s = Slot(i)'
    <3>1. PICK i \in Ages : s = Slot(i)
      BY DEF SlotsOrdered
    <3>2. i # 0
      BY <1>1, <1>2, <3>1
    <3>3. i - 1 \in Ages' /\ i - 1 \in 0 .. RobSize - 1 /\ (i - 1) + 1 = i
      BY <1>2, <1>6, <3>2
    <3>4. Slot(i - 1)' = s
      BY <1>3, <3>1, <3>3
    <3> QED BY <3>3, <3>4
  <2> QED BY <1>1, <2>1, <2>2 DEF SlotsOrdered
<1> QED BY <1>1, <1>4, <1>5, <1>7

LEMMA IqInvStarts == QInit => IqInv
<1> SUFFICES ASSUME QInit PROVE IqInv
  OBVIOUS
<1>1. RobSize \in Nat \ {0} /\ Capacity \in 1 .. RobSize /\ MaxSeq \in Nat
  BY IssueQueueAssumption
<1>2. NoEntry \in Entries
  BY <1>1, IssueQueueAssumption DEF NoEntry, Entries
<1>3. Shape
  BY <1>1, <1>2, FS_EmptySet DEF QInit, Shape, Slots, Nowhere
<1>4. SlotsOrdered
  BY <1>1 DEF QInit, SlotsOrdered, Ages
<1>5. RowsMatch /\ NoLostWakeup
  BY DEF QInit, RowsMatch, NoLostWakeup, Nowhere
<1> QED BY <1>3, <1>4, <1>5 DEF IqInv

LEMMA IqInvNext == IqInv /\ [QNext]_ivars => IqInv'
<1> SUFFICES ASSUME IqInv, [QNext]_ivars PROVE IqInv'
  OBVIOUS
<1>1. CASE \E ps1, ps2 \in Pregs, uses1, uses2 \in BOOLEAN,
              dest \in {{}} \cup {{p} : p \in Pregs} : Dispatch(ps1, ps2, uses1, uses2, dest)
  BY <1>1, DispatchKeeps
<1>2. CASE \E s \in Slots : Issue(s)
  BY <1>2, IssueKeeps
<1>3. CASE \E p \in Pregs : Writeback(p)
  BY <1>3, WritebackKeeps
<1>4. CASE \E k \in 0 .. count - 1 : Squash(k)
  <2>1. PICK k \in Ages : Squash(k)
    BY <1>4 DEF Ages
  <2> QED BY <2>1, SquashKeeps
<1>5. CASE Commit
  BY <1>5, CommitKeeps
<1>6. CASE UNCHANGED ivars
  BY <1>6 DEF ivars, qvars, IqInv, Shape, SlotsOrdered, RowsMatch, NoLostWakeup, Ages, Slot
<1> QED BY <1>1, <1>2, <1>3, <1>4, <1>5, <1>6 DEF QNext

(* Every operation of core/iq.h (allocate with track, release, wakeup,     *)
(* flushYounger) keeps the inductive invariant.                            *)
THEOREM QueueInvariant == QSpec => []IqInv
BY IqInvStarts, IqInvNext, PTL DEF QSpec

(* Whatever is dispatched, issued, woken and squashed, and however the     *)
(* ring has turned: the rows name exactly the blocked slots, the ready     *)
(* slots are the waiting ones that are blocked on nothing, and the waiting *)
(* slots are live and in program order (allocate, track, release, wakeup   *)
(* and flushYounger of core/iq.h).                                         *)
THEOREM QueueConsistent == QSpec => []QueueExact
<1>1. IqInv => QueueExact
  <2> SUFFICES ASSUME IqInv PROVE QueueExact
    OBVIOUS
  <2> USE DEF IqInv
  <2>1. QueueTypeOK
    BY DEF QueueTypeOK, Shape, RowsMatch, Entries
  <2>2. RowsExact
    BY <2>1 DEF RowsExact, RowsMatch
  <2>3. SlotsInProgramOrder
    <3> SUFFICES ASSUME NEW s \in occupied
                 PROVE  \E i \in Ages : /\ s = Slot(i)
                                        /\ \A j \in 0 .. i - 1 : e[Slot(j)].seq < e[s].seq
      BY DEF SlotsInProgramOrder, Ages
    <3>1. PICK i \in Ages : s = Slot(i)
      BY DEF SlotsOrdered
    <3> QED BY <3>1 DEF SlotsOrdered
  <2> QED BY <2>2, <2>3 DEF QueueExact
<1> QED BY <1>1, QueueInvariant, PTL

(* No instruction waits for a value that is already written: a wakeup that *)
(* passes while an instruction is being dispatched is never missed.        *)
THEOREM NoneOverslept == QSpec => []NoLostWakeup
<1>1. IqInv => NoLostWakeup
  BY DEF IqInv
<1> QED BY <1>1, QueueInvariant, PTL
-----------------------------------------------------------------------------
(* The queue as a set of instructions with what they need *)

WaitingNow == {[seq |-> e[s].seq, needs |-> Needs(s)] : s \in occupied}

(* An instruction whose slot is not touched needs what it needed.          *)
LEMMA NeedsKept ==
  ASSUME NEW s, e'[s] = e[s], s \in blocked1' <=> s \in blocked1,
         s \in blocked2' <=> s \in blocked2
  PROVE  Needs(s)' = Needs(s)
BY DEF Needs

LEMMA EnterStep ==
  ASSUME IqInv, NEW ps1 \in Pregs, NEW ps2 \in Pregs, NEW uses1 \in BOOLEAN,
         NEW uses2 \in BOOLEAN, NEW dest, Dispatch(ps1, ps2, uses1, uses2, dest)
  PROVE  \E s \in 1 .. MaxSeq, needs \in SUBSET Pregs : Abstract!Enter(s, needs)
<1>0. PICK new, q, r1, r2 :
        /\ new = Slot(count) /\ q = [seq |-> seq + 1, ps1 |-> ps1, ps2 |-> ps2]
        /\ r1 = (~uses1 \/ ps1 \in prfReady) /\ r2 = (~uses2 \/ ps2 \in prfReady)
  OBVIOUS
<1>1. /\ seq + 1 \in 1 .. MaxSeq
      /\ occupied' = occupied \cup {new} /\ new \notin occupied
      /\ e'[new] = q /\ \A s \in occupied : e'[s] = e[s] /\ s # new
      /\ blocked1' = (IF r1 THEN blocked1 ELSE blocked1 \cup {new})
      /\ blocked2' = (IF r2 THEN blocked2 ELSE blocked2 \cup {new})
  BY <1>0, DispatchKeeps
<1>2. \A s \in occupied : Needs(s)' = Needs(s) /\ e'[s].seq = e[s].seq
  BY <1>1, NeedsKept
<1>3. PICK needs \in SUBSET Pregs : needs = Needs(new)'
  BY DEF Needs
<1>4. e'[new].seq = seq + 1
  BY <1>0, <1>1
<1>5. WaitingNow' = WaitingNow \cup {[seq |-> seq + 1, needs |-> needs]}
  BY <1>1, <1>2, <1>3, <1>4 DEF WaitingNow
<1>6. \A o \in WaitingNow : o.seq # seq + 1
  <2>1. seq \in Int /\ \A s \in occupied : e[s].seq \in 1 .. MaxSeq /\ e[s].seq <= seq
    BY SeqsDiffer DEF IqInv, Shape
  <2> QED BY <2>1 DEF WaitingNow
<1>7. Abstract!Enter(seq + 1, needs)
  BY <1>5, <1>6 DEF Abstract!Enter, WaitingNow
<1> QED BY <1>1, <1>3, <1>7

LEMMA LeaveStep ==
  ASSUME IqInv, NEW s \in Slots, Issue(s)
  PROVE  \E o \in WaitingNow : Abstract!Leave(o)
<1>1. /\ s \in occupied /\ Needs(s) = {} /\ occupied' = occupied \ {s} /\ e' = e
      /\ blocked1' = blocked1 /\ blocked2' = blocked2
  BY IssueKeeps
<1>2. \A t : Needs(t)' = Needs(t)
  BY <1>1, NeedsKept
<1>3. PICK o : o = [seq |-> e[s].seq, needs |-> {}]
  OBVIOUS
<1>4. o \in WaitingNow /\ o.needs = {} /\ o.seq = e[s].seq
  BY <1>1, <1>3 DEF WaitingNow
<1>5. \A t \in occupied : t # s => e[t].seq # e[s].seq
  BY <1>1, SeqsDiffer DEF IqInv
<1>6. WaitingNow' = WaitingNow \ {o}
  <2>1. WaitingNow' = {[seq |-> e[t].seq, needs |-> Needs(t)] : t \in occupied \ {s}}
    BY <1>1, <1>2 DEF WaitingNow
  <2>2. \A t \in occupied : [seq |-> e[t].seq, needs |-> Needs(t)] = o <=> t = s
    BY <1>1, <1>3, <1>5
  <2> QED BY <2>1, <2>2 DEF WaitingNow
<1> QED BY <1>4, <1>6 DEF Abstract!Leave, WaitingNow

LEMMA WrittenStep ==
  ASSUME IqInv, NEW p \in Pregs, Writeback(p)
  PROVE  Abstract!Written(p)
<1>1. /\ occupied' = occupied /\ e' = e
      /\ blocked1' = {s \in blocked1 : e[s].ps1 # p}
      /\ blocked2' = {s \in blocked2 : e[s].ps2 # p}
  BY WritebackKeeps
<1>2. \A s : Needs(s)' = Needs(s) \ {p}
  BY <1>1 DEF Needs
<1>3. \A s : [[seq |-> e[s].seq, needs |-> Needs(s)] EXCEPT !.needs = @ \ {p}]
               = [seq |-> e'[s].seq, needs |-> Needs(s)']
  BY <1>1, <1>2
<1>4. WaitingNow' = {[o EXCEPT !.needs = @ \ {p}] : o \in WaitingNow}
  <2>1. ASSUME NEW x \in WaitingNow' PROVE \E o \in WaitingNow : x = [o EXCEPT !.needs = @ \ {p}]
    <3>1. PICK s \in occupied : x = [seq |-> e'[s].seq, needs |-> Needs(s)']
      BY <1>1 DEF WaitingNow
    <3>2. [seq |-> e[s].seq, needs |-> Needs(s)] \in WaitingNow
      BY DEF WaitingNow
    <3> QED BY <1>3, <3>1, <3>2
  <2>2. ASSUME NEW o \in WaitingNow PROVE [o EXCEPT !.needs = @ \ {p}] \in WaitingNow'
    <3>1. PICK s \in occupied : o = [seq |-> e[s].seq, needs |-> Needs(s)]
      BY DEF WaitingNow
    <3>2. [seq |-> e'[s].seq, needs |-> Needs(s)'] \in WaitingNow'
      BY <1>1 DEF WaitingNow
    <3> QED BY <1>3, <3>1, <3>2
  <2> QED BY <2>1, <2>2
<1> QED BY <1>4 DEF Abstract!Written, WaitingNow

LEMMA SquashStep ==
  ASSUME IqInv, NEW k \in Ages, Squash(k)
  PROVE  \E x \in 1 .. MaxSeq \cup {0} : Abstract!Squash(x)
<1>0. PICK x : x = e[Slot(k)].seq - 1
  OBVIOUS
<1>1. /\ x \in 0 .. MaxSeq /\ occupied' = {s \in occupied : e[s].seq <= x} /\ e' = e
      /\ blocked1' = blocked1 \ Younger(k) /\ blocked2' = blocked2 \ Younger(k)
  BY <1>0, SquashKeeps
<1>2. ASSUME NEW s \in occupied' PROVE Needs(s)' = Needs(s)
  <2>1. e[s].seq \in Int /\ e[s].seq <= x
    BY <1>1, SeqsDiffer DEF IqInv
  <2>2. s \notin Younger(k)
    BY <1>0, <1>1, <2>1 DEF Younger
  <2> QED BY <1>1, <2>2, NeedsKept
<1>3. WaitingNow' = {o \in WaitingNow : o.seq <= x}
  <2>1. ASSUME NEW o \in WaitingNow' PROVE o \in WaitingNow /\ o.seq <= x
    <3>1. PICK s \in occupied' : o = [seq |-> e[s].seq, needs |-> Needs(s)]
      BY <1>1, <1>2 DEF WaitingNow
    <3>2. s \in occupied /\ e[s].seq <= x /\ o.seq = e[s].seq
      BY <1>1, <3>1
    <3> QED BY <3>1, <3>2 DEF WaitingNow
  <2>2. ASSUME NEW o \in WaitingNow, o.seq <= x PROVE o \in WaitingNow'
    <3>1. PICK s \in occupied : o = [seq |-> e[s].seq, needs |-> Needs(s)]
      BY DEF WaitingNow
    <3>2. s \in occupied'
      BY <1>1, <2>2, <3>1
    <3>3. o = [seq |-> e'[s].seq, needs |-> Needs(s)']
      BY <1>1, <1>2, <3>1, <3>2
    <3> QED BY <3>2, <3>3 DEF WaitingNow
  <2> QED BY <2>1, <2>2
<1> QED BY <1>1, <1>3, IssueQueueAssumption DEF Abstract!Squash, WaitingNow

(* The bitmaps and rows implement a set of instructions with what they     *)
(* need: an instruction leaves exactly when it needs nothing, whether it   *)
(* waits on one register twice or on two that are written in either order, *)
(* and a flush by sequence number takes exactly the squashed ones          *)
(* (core/iq.h).                                                            *)
THEOREM BitmapsImplementWaiting == QSpec => RefinesWaiting
<1>1. QInit => Abstract!WInit
  BY DEF QInit, Abstract!WInit
<1>2. IqInv /\ [QNext]_ivars => [Abstract!WNext]_WaitingNow
  <2> SUFFICES ASSUME IqInv, [QNext]_ivars PROVE Abstract!WNext \/ UNCHANGED WaitingNow
    OBVIOUS
  <2>1. CASE \E ps1, ps2 \in Pregs, uses1, uses2 \in BOOLEAN,
                dest \in {{}} \cup {{p} : p \in Pregs} : Dispatch(ps1, ps2, uses1, uses2, dest)
    BY <2>1, EnterStep DEF Abstract!WNext
  <2>2. CASE \E s \in Slots : Issue(s)
    BY <2>2, LeaveStep DEF Abstract!WNext, WaitingNow
  <2>3. CASE \E p \in Pregs : Writeback(p)
    BY <2>3, WrittenStep DEF Abstract!WNext
  <2>4. CASE \E k \in 0 .. count - 1 : Squash(k)
    <3>1. PICK k \in Ages : Squash(k)
      BY <2>4 DEF Ages
    <3> QED BY <3>1, SquashStep DEF Abstract!WNext
  <2>5. CASE Commit
    <3>1. UNCHANGED <<e, occupied, blocked1, blocked2>>
      BY <2>5, CommitKeeps
    <3> QED BY <3>1 DEF WaitingNow, Needs
  <2>6. CASE UNCHANGED ivars
    BY <2>6 DEF ivars, qvars, WaitingNow, Needs
  <2> QED BY <2>1, <2>2, <2>3, <2>4, <2>5, <2>6 DEF QNext
<1> QED
  BY <1>1, <1>2, QueueInvariant, PTL DEF QSpec, RefinesWaiting, Abstract!WSpec, WaitingNow
-----------------------------------------------------------------------------
(* Slots and the words of a bitmap                                         *)

(* Division by the word size, as the solvers use it.                       *)
LEMMA WordPlace ==
  ASSUME NEW s \in Nat
  PROVE  /\ s \div W \in Nat /\ s % W \in 0 .. W - 1 /\ W \in Nat /\ 0 < W
         /\ W * (s \div W) \in Nat /\ s = W * (s \div W) + (s % W)
<1>1. W \in Nat /\ 0 < W
  BY SlotSetAssumption
<1>2. s \div W \in Nat /\ s % W \in 0 .. W - 1 /\ s = W * (s \div W) + (s % W)
  <2>1. s % W \in 0 .. W - 1
    BY <1>1
  <2>2. s = W * (s \div W) + (s % W)
    BY <1>1
  <2>3. s \div W \in Nat
    BY <1>1
  <2> QED BY <2>1, <2>2, <2>3
<1>3. W * (s \div W) \in Nat
  BY <1>1, <1>2
<1> QED BY <1>1, <1>2, <1>3

LEMMA TimesGrows ==
  ASSUME NEW a \in Nat, NEW b \in Nat, a < b
  PROVE  W * a \in Nat /\ W * b \in Nat /\ W * a + W <= W * b
<1>1. W \in Nat
  BY SlotSetAssumption
<1>2. PICK d \in Nat : b = a + 1 + d
  <2>1. b - a - 1 \in Nat /\ b = a + 1 + (b - a - 1)
    OBVIOUS
  <2> QED BY <2>1
<1>3. W * b = W * a + W + W * d
  BY <1>1, <1>2
<1>4. W * a \in Nat /\ W * b \in Nat /\ W * d \in Nat
  BY <1>1
<1> QED BY <1>1, <1>3, <1>4

LEMMA WordUnique ==
  ASSUME NEW a \in Nat, NEW x \in 0 .. W - 1
  PROVE  /\ W * a + x \in Nat
         /\ (W * a + x) \div W = a /\ (W * a + x) % W = x
<1>1. W \in Nat /\ 0 < W
  BY SlotSetAssumption
<1>2. W * a \in Nat
  BY <1>1
<1> QED BY <1>1, <1>2

(* A later word holds later slots, and a word holds its slots in order.    *)
LEMMA WordOrder ==
  ASSUME NEW a \in Nat, NEW b \in Nat
  PROVE  /\ a \div W \in Nat /\ b \div W \in Nat
         /\ a % W \in 0 .. W - 1 /\ b % W \in 0 .. W - 1
         /\ a \div W < b \div W => a < b
         /\ a \div W = b \div W => (a < b <=> a % W < b % W)
<1>1. /\ a \div W \in Nat /\ a % W \in 0 .. W - 1 /\ W \in Nat /\ 0 < W
      /\ W * (a \div W) \in Nat /\ a = W * (a \div W) + (a % W)
  BY WordPlace
<1>2. /\ b \div W \in Nat /\ b % W \in 0 .. W - 1
      /\ W * (b \div W) \in Nat /\ b = W * (b \div W) + (b % W)
  BY WordPlace
<1>3. a \div W < b \div W => W * (a \div W) + W <= W * (b \div W)
  BY <1>1, <1>2, TimesGrows
<1> DEFINE wa == W * (a \div W)
           wb == W * (b \div W)
           ra == a % W
           rb == b % W
           da == a \div W
           db == b \div W
<1>4. /\ da \in Nat /\ db \in Nat /\ ra \in 0 .. W - 1 /\ rb \in 0 .. W - 1
      /\ W \in Nat /\ wa \in Nat /\ wb \in Nat /\ a = wa + ra /\ b = wb + rb
      /\ (da < db => wa + W <= wb) /\ (da = db => wa = wb)
  BY <1>1, <1>2, <1>3
<1> HIDE DEF wa, wb, ra, rb, da, db
<1>5. /\ (da < db => a < b)
      /\ (da = db => (a < b <=> ra < rb))
  BY <1>4
<1> QED BY <1>1, <1>2, <1>5 DEF ra, rb, da, db

(* Distances around a ring.                                                *)
LEMMA AgeIs ==
  ASSUME NEW cap \in Nat \ {0}, NEW h \in 0 .. cap - 1, NEW s \in 0 .. cap - 1
  PROVE  /\ Age(s, cap, h) \in 0 .. cap - 1
         /\ Age(s, cap, h) = IF s >= h THEN s - h ELSE s - h + cap
BY DEF Age
-----------------------------------------------------------------------------
Pieces == [up : BOOLEAN, slots : SUBSET Nat]
Before(piece, a, b) == IF piece.up THEN a < b ELSE a > b

LEMMA Rekey ==
  ASSUME NEW scan, NEW k1, NEW k2, Visits(scan, k1), DOMAIN k1 = DOMAIN k2,
         \A a, b \in DOMAIN k1 : k1[a] < k1[b] => k2[a] < k2[b]
  PROVE  Visits(scan, k2)
<1>1. \A i \in DOMAIN scan : scan[i].slots \subseteq DOMAIN k1
  BY DEF Visits
<1> QED BY <1>1 DEF Visits

(* One scan after another.                                                 *)
LEMMA VisitsJoin ==
  ASSUME NEW p \in Seq(Pieces), NEW q \in Seq(Pieces),
         NEW A, NEW B, NEW key,
         DOMAIN key = A \cup B,
         Visits(p, [s \in A |-> key[s]]), Visits(q, [s \in B |-> key[s]]),
         \A a \in A, b \in B : key[a] < key[b]
  PROVE  p \o q \in Seq(Pieces) /\ Visits(p \o q, key)
<1> DEFINE r == p \o q
           m == Len(p)
           k == Len(q)
<1>1. /\ r \in Seq(Pieces) /\ Len(r) = m + k /\ m \in Nat /\ k \in Nat
      /\ DOMAIN p = 1 .. m /\ DOMAIN q = 1 .. k /\ DOMAIN r = 1 .. m + k
      /\ \A i \in 1 .. m : r[i] = p[i]
      /\ \A i \in 1 .. k : r[m + i] = q[i]
  <2>1. r \in Seq(Pieces) /\ Len(r) = m + k /\ m \in Nat /\ k \in Nat
    BY ConcatProperties
  <2>2. \A i \in 1 .. m + k : r[i] = IF i <= m THEN p[i] ELSE q[i - m]
    BY ConcatProperties
  <2>3. \A i \in 1 .. m : r[i] = p[i]
    BY <2>1, <2>2
  <2>4. \A i \in 1 .. k : r[m + i] = q[i]
    <3> TAKE i \in 1 .. k
    <3>1. m + i \in 1 .. m + k /\ ~(m + i <= m) /\ (m + i) - m = i
      BY <2>1
    <3> QED BY <2>2, <3>1
  <2>5. DOMAIN p = 1 .. m /\ DOMAIN q = 1 .. k /\ DOMAIN r = 1 .. m + k
    BY <2>1
  <2> QED BY <2>1, <2>3, <2>4, <2>5
<1>2. /\ UNION {p[i].slots : i \in 1 .. m} = A
      /\ \A i \in 1 .. m : \A a, b \in p[i].slots : a \in A /\ b \in A /\ (Before(p[i], a, b) => key[a] < key[b])
      /\ \A i, j \in 1 .. m : i < j => \A a \in p[i].slots, b \in p[j].slots : key[a] < key[b]
  <2>1. UNION {p[i].slots : i \in 1 .. m} = A
    BY <1>1 DEF Visits, Before
  <2>2. \A i \in 1 .. m : p[i].slots \subseteq A
    BY <2>1
  <2> QED BY <1>1, <2>1, <2>2 DEF Visits, Before
<1>3. /\ UNION {q[i].slots : i \in 1 .. k} = B
      /\ \A i \in 1 .. k : \A a, b \in q[i].slots : a \in B /\ b \in B /\ (Before(q[i], a, b) => key[a] < key[b])
      /\ \A i, j \in 1 .. k : i < j => \A a \in q[i].slots, b \in q[j].slots : key[a] < key[b]
  <2>1. UNION {q[i].slots : i \in 1 .. k} = B
    BY <1>1 DEF Visits, Before
  <2>2. \A i \in 1 .. k : q[i].slots \subseteq B
    BY <2>1
  <2> QED BY <1>1, <2>1, <2>2 DEF Visits, Before
<1> HIDE DEF r, m, k
<1>4. \A i \in 1 .. m + k : \/ i \in 1 .. m
                            \/ \E j \in 1 .. k : i = m + j
  <2> TAKE i \in 1 .. m + k
  <2>1. CASE i <= m
    BY <1>1, <2>1
  <2>2. CASE ~(i <= m)
    <3>1. i - m \in 1 .. k /\ i = m + (i - m)
      BY <1>1, <2>2
    <3> QED BY <3>1
  <2> QED BY <2>1, <2>2
<1>5. UNION {r[i].slots : i \in 1 .. m + k} = A \cup B
  <2>1. ASSUME NEW s \in A PROVE s \in UNION {r[i].slots : i \in 1 .. m + k}
    <3>1. PICK i \in 1 .. m : s \in p[i].slots
      BY <1>2
    <3>2. i \in 1 .. m + k /\ r[i] = p[i]
      BY <1>1
    <3> QED BY <3>1, <3>2
  <2>2. ASSUME NEW s \in B PROVE s \in UNION {r[i].slots : i \in 1 .. m + k}
    <3>1. PICK i \in 1 .. k : s \in q[i].slots
      BY <1>3
    <3>2. m + i \in 1 .. m + k /\ r[m + i] = q[i]
      BY <1>1
    <3> QED BY <3>1, <3>2
  <2>3. ASSUME NEW i \in 1 .. m + k PROVE r[i].slots \subseteq A \cup B
    <3>1. CASE i \in 1 .. m
      BY <1>1, <1>2, <3>1
    <3>2. CASE \E j \in 1 .. k : i = m + j
      BY <1>1, <1>3, <3>2
    <3> QED BY <1>4, <3>1, <3>2
  <2> QED BY <2>1, <2>2, <2>3
<1>6. ASSUME NEW i \in 1 .. m + k, NEW a \in r[i].slots, NEW b \in r[i].slots, Before(r[i], a, b)
      PROVE  key[a] < key[b]
  <2>1. CASE i \in 1 .. m
    BY <1>1, <1>2, <1>6, <2>1
  <2>2. CASE \E j \in 1 .. k : i = m + j
    BY <1>1, <1>3, <1>6, <2>2
  <2> QED BY <1>4, <2>1, <2>2
<1>7. ASSUME NEW i \in 1 .. m + k, NEW j \in 1 .. m + k, i < j, NEW a \in r[i].slots, NEW b \in r[j].slots
      PROVE  key[a] < key[b]
  <2>1. CASE i \in 1 .. m /\ j \in 1 .. m
    BY <1>1, <1>2, <1>7, <2>1
  <2>2. CASE i \in 1 .. m /\ \E l \in 1 .. k : j = m + l
    <3>1. a \in A
      BY <1>1, <1>2, <2>2
    <3>2. b \in B
      BY <1>1, <1>3, <2>2
    <3> QED BY <3>1, <3>2
  <2>3. CASE (\E l \in 1 .. k : i = m + l) /\ (\E l \in 1 .. k : j = m + l)
    <3>1. PICK x \in 1 .. k, y \in 1 .. k : i = m + x /\ j = m + y
      BY <2>3
    <3>2. x < y
      BY <1>1, <1>7, <3>1
    <3>3. a \in q[x].slots /\ b \in q[y].slots
      BY <1>1, <1>7, <3>1
    <3> QED BY <1>3, <3>2, <3>3
  <2>4. CASE (\E l \in 1 .. k : i = m + l) /\ j \in 1 .. m
    BY <1>1, <1>7, <2>4
  <2> QED BY <1>4, <2>1, <2>2, <2>3, <2>4
<1>8. Visits(r, key)
  BY <1>1, <1>5, <1>6, <1>7 DEF Visits, Before
<1> QED BY <1>1, <1>8 DEF r
-----------------------------------------------------------------------------
(* The slots before f of the word that ends the range.                     *)
LEMMA BelowIs ==
  ASSUME NEW f \in Nat \ {0}, NEW x \in 0 .. W - 1
  PROVE  x \in Below(f % W) <=> x <= (f - 1) % W
<1> DEFINE q == f \div W
           r == f % W
<1>1. /\ q \in Nat /\ r \in 0 .. W - 1 /\ W \in Nat /\ 0 < W
      /\ W * q \in Nat /\ f = W * q + r
  BY WordPlace
<1> HIDE DEF q, r
<1>2. CASE r = 0
  <2>1. q # 0
    BY <1>1, <1>2
  <2>2. PICK a \in Nat : q = a + 1
    <3>1. q - 1 \in Nat /\ q = (q - 1) + 1
      BY <1>1, <2>1
    <3> QED BY <3>1
  <2>3. W * q = W * a + W /\ W * a \in Nat
    BY <1>1, <2>2
  <2>4. f - 1 = W * a + (W - 1) /\ W - 1 \in 0 .. W - 1
    BY <1>1, <1>2, <2>3
  <2>5. (f - 1) % W = W - 1
    BY <2>4, WordUnique
  <2>6. Below(r) = 0 .. W - 1
    BY <1>2 DEF Below
  <2> QED BY <1>1, <2>5, <2>6 DEF r
<1>3. CASE r # 0
  <2>1. f - 1 = W * q + (r - 1) /\ r - 1 \in 0 .. W - 1
    BY <1>1, <1>3
  <2>2. (f - 1) % W = r - 1
    BY <1>1, <2>1, WordUnique
  <2>3. Below(r) = {i \in 0 .. W - 1 : i < r}
    BY <1>3 DEF Below
  <2> QED BY <1>1, <2>2, <2>3 DEF r
<1> QED BY <1>2, <1>3

LEMMA CutIs ==
  ASSUME NEW S \in SUBSET Nat, NEW b \in Nat, NEW f \in Nat, b < f,
         NEW w \in (b \div W) .. ((f - 1) \div W)
  PROVE  Cut(S, w, b, f) = {s \in S : s \div W = w /\ b <= s /\ s < f}
<1>0. f \in Nat \ {0} /\ f - 1 \in Nat
  OBVIOUS
<1>1. ASSUME NEW s \in S, s \div W = w
      PROVE  /\ (w = b \div W => s % W \in From(b % W)) <=> b <= s
             /\ (w = (f - 1) \div W => s % W \in Below(f % W)) <=> s < f
  <2>1. /\ s \div W \in Nat /\ s % W \in 0 .. W - 1
        /\ b \div W \in Nat /\ b % W \in 0 .. W - 1
        /\ b \div W < s \div W => b < s
        /\ b \div W = s \div W => (s < b <=> s % W < b % W)
    BY WordOrder
  <2>2. /\ (f - 1) \div W \in Nat /\ (f - 1) % W \in 0 .. W - 1
        /\ s \div W < (f - 1) \div W => s < f - 1
        /\ s \div W = (f - 1) \div W => (f - 1 < s <=> (f - 1) % W < s % W)
    BY <1>0, WordOrder
  <2>3. s % W \in Below(f % W) <=> s % W <= (f - 1) % W
    BY <1>0, <2>1, BelowIs
  <2>4. s % W \in From(b % W) <=> b % W <= s % W
    BY <2>1 DEF From
  <2>5. s \in Nat
    OBVIOUS
  <2> DEFINE ds == s \div W
             rs == s % W
             db == b \div W
             rb == b % W
             df == (f - 1) \div W
             rf == (f - 1) % W
  <2>6. /\ ds \in Nat /\ rs \in Nat /\ db \in Nat /\ rb \in Nat /\ df \in Nat /\ rf \in Nat
        /\ w = ds /\ w \in db .. df
        /\ db < ds => b < s
        /\ db = ds => (s < b <=> rs < rb)
        /\ ds < df => s < f - 1
        /\ ds = df => (f - 1 < s <=> rf < rs)
        /\ (s % W \in Below(f % W)) = (rs <= rf)
        /\ (s % W \in From(b % W)) = (rb <= rs)
    BY <1>1, <2>1, <2>2, <2>3, <2>4
  <2> HIDE DEF ds, rs, db, rb, df, rf
  <2>7. /\ (w = db => rb <= rs) <=> b <= s
        /\ (w = df => rs <= rf) <=> s < f
    BY <2>5, <2>6
  <2> QED BY <2>6, <2>7 DEF db, df
<1>2. Cut(S, w, b, f) = {s \in S : /\ s \div W = w
                                   /\ w = b \div W => s % W \in From(b % W)
                                   /\ w = (f - 1) \div W => s % W \in Below(f % W)}
  BY DEF Cut, Masked, Word
<1> QED BY <1>1, <1>2
-----------------------------------------------------------------------------
Up(T)   == [s \in T |-> s]
Down(T) == [s \in T |-> -s]

LEMMA OneWord ==
  ASSUME NEW X \in SUBSET Nat
  PROVE  /\ <<Rising(X)>> \in Seq(Pieces) /\ Visits(<<Rising(X)>>, Up(X))
<1>1. Rising(X) \in Pieces /\ Rising(X).slots = X /\ Rising(X).up = TRUE
  BY DEF Rising, Pieces
<1>2. \A x \in Pieces : <<x>> \in Seq(Pieces) /\ DOMAIN <<x>> = {1} /\ <<x>>[1] = x
  OBVIOUS
<1>3. DOMAIN Up(X) = X /\ \A s \in X : Up(X)[s] = s /\ s \in Nat
  BY DEF Up
<1> DEFINE scan == <<Rising(X)>>
<1>4. /\ scan \in Seq(Pieces) /\ DOMAIN scan = {1}
      /\ scan[1].slots = X /\ scan[1].up = TRUE
  BY <1>1, <1>2
<1> HIDE DEF scan
<1>5. UNION {scan[i].slots : i \in {1}} = X
  BY <1>4
<1>6. Visits(scan, Up(X))
  BY <1>3, <1>4, <1>5 DEF Visits
<1> QED BY <1>4, <1>6 DEF scan

LEMMA NoWords ==
  /\ <<>> \in Seq(Pieces)
  /\ Visits(<<>>, Up({})) /\ Visits(<<>>, Down({}))
BY DEF Visits, Up, Down

(* Words scanned one after another, each whole.                            *)
LEMMA RunUp ==
  ASSUME NEW k \in Nat, NEW c \in Int, NEW T \in SUBSET Nat,
         \A s \in T : s \div W \in c + 1 .. c + k,
         NEW scan, scan = [i \in 1 .. k |-> Rising({s \in T : s \div W = c + i})]
  PROVE  scan \in Seq(Pieces) /\ Visits(scan, Up(T))
<1>1. scan \in Seq(Pieces) /\ DOMAIN scan = 1 .. k
  <2>0. \A i \in 1 .. k : Rising({s \in T : s \div W = c + i}) \in Pieces
    BY DEF Rising, Pieces
  <2>1. scan \in [1 .. k -> Pieces]
    BY <2>0
  <2>2. DOMAIN scan = 1 .. k
    BY <2>1
  <2>3. Seq(Pieces) = UNION {[1 .. m -> Pieces] : m \in Nat}
    BY SeqDef
  <2>4. scan \in Seq(Pieces)
    BY <2>1, <2>3, Zenon
  <2> QED BY <2>2, <2>4
<1>2. \A i \in 1 .. k :
         /\ scan[i].up = TRUE /\ scan[i].slots = {s \in T : s \div W = c + i}
         /\ scan[i].slots \in SUBSET T
         /\ \A s \in scan[i].slots : s \in Nat /\ s \div W = c + i
  BY DEF Rising
<1>3. DOMAIN Up(T) = T /\ \A s \in T : Up(T)[s] = s /\ s \in Nat
  BY DEF Up
<1>4. UNION {scan[i].slots : i \in 1 .. k} = T
  <2>0. \A i \in 1 .. k : scan[i].slots \subseteq T
    BY <1>2
  <2> SUFFICES ASSUME NEW s \in T PROVE \E i \in 1 .. k : s \in scan[i].slots
    BY <2>0, Zenon
  <2>1. s \div W \in c + 1 .. c + k
    OBVIOUS
  <2>2. PICK d \in c + 1 .. c + k : d = s \div W
    BY <2>1
  <2>3. d - c \in 1 .. k /\ c + (d - c) = d
    BY <2>2
  <2>4. s \in scan[d - c].slots
    BY <1>2, <2>2, <2>3
  <2> QED BY <2>3, <2>4
<1>5. ASSUME NEW i \in 1 .. k, NEW a \in scan[i].slots, NEW b \in scan[i].slots, Before(scan[i], a, b)
      PROVE  Up(T)[a] < Up(T)[b]
  BY <1>2, <1>3, <1>5 DEF Before
<1>6. ASSUME NEW i \in 1 .. k, NEW j \in 1 .. k, i < j, NEW a \in scan[i].slots, NEW b \in scan[j].slots
      PROVE  Up(T)[a] < Up(T)[b]
  <2>1. a \in T /\ b \in T /\ a \in Nat /\ b \in Nat /\ a \div W = c + i /\ b \div W = c + j
    BY <1>2
  <2>2. a \div W < b \div W
    BY <1>6, <2>1
  <2>3. a < b
    BY <2>1, <2>2, WordOrder
  <2> QED BY <1>3, <2>1, <2>3
<1> QED BY <1>1, <1>3, <1>4, <1>5, <1>6 DEF Visits, Before

LEMMA RunDown ==
  ASSUME NEW k \in Nat, NEW c \in Int, NEW T \in SUBSET Nat,
         \A s \in T : s \div W \in c - k .. c - 1,
         NEW scan, scan = [i \in 1 .. k |-> Falling({s \in T : s \div W = c - i})]
  PROVE  scan \in Seq(Pieces) /\ Visits(scan, Down(T))
<1>1. scan \in Seq(Pieces) /\ DOMAIN scan = 1 .. k
  <2>0. \A i \in 1 .. k : Falling({s \in T : s \div W = c - i}) \in Pieces
    BY DEF Falling, Pieces
  <2>1. scan \in [1 .. k -> Pieces]
    BY <2>0
  <2>2. DOMAIN scan = 1 .. k
    BY <2>1
  <2>3. Seq(Pieces) = UNION {[1 .. m -> Pieces] : m \in Nat}
    BY SeqDef
  <2>4. scan \in Seq(Pieces)
    BY <2>1, <2>3, Zenon
  <2> QED BY <2>2, <2>4
<1>2. \A i \in 1 .. k :
         /\ scan[i].up = FALSE /\ scan[i].slots = {s \in T : s \div W = c - i}
         /\ scan[i].slots \in SUBSET T
         /\ \A s \in scan[i].slots : s \in Nat /\ s \div W = c - i
  BY DEF Falling
<1>3. DOMAIN Down(T) = T /\ \A s \in T : Down(T)[s] = -s /\ s \in Nat
  BY DEF Down
<1>4. UNION {scan[i].slots : i \in 1 .. k} = T
  <2>0. \A i \in 1 .. k : scan[i].slots \subseteq T
    BY <1>2
  <2> SUFFICES ASSUME NEW s \in T PROVE \E i \in 1 .. k : s \in scan[i].slots
    BY <2>0, Zenon
  <2>1. s \div W \in c - k .. c - 1
    OBVIOUS
  <2>2. PICK d \in c - k .. c - 1 : d = s \div W
    BY <2>1
  <2>3. c - d \in 1 .. k /\ c - (c - d) = d
    BY <2>2
  <2>4. s \in scan[c - d].slots
    BY <1>2, <2>2, <2>3
  <2> QED BY <2>3, <2>4
<1>5. ASSUME NEW i \in 1 .. k, NEW a \in scan[i].slots, NEW b \in scan[i].slots, Before(scan[i], a, b)
      PROVE  Down(T)[a] < Down(T)[b]
  <2>1. a > b
    BY <1>2, <1>5 DEF Before
  <2>2. a \in T /\ b \in T /\ a \in Nat /\ b \in Nat
    BY <1>2
  <2> QED BY <1>3, <2>1, <2>2
<1>6. ASSUME NEW i \in 1 .. k, NEW j \in 1 .. k, i < j, NEW a \in scan[i].slots, NEW b \in scan[j].slots
      PROVE  Down(T)[a] < Down(T)[b]
  <2>1. a \in T /\ b \in T /\ a \in Nat /\ b \in Nat /\ a \div W = c - i /\ b \div W = c - j
    BY <1>2
  <2>2. b \div W < a \div W
    BY <1>6, <2>1
  <2>3. b < a
    BY <2>1, <2>2, WordOrder
  <2> QED BY <1>3, <2>1, <2>3
<1> QED BY <1>1, <1>3, <1>4, <1>5, <1>6 DEF Visits, Before

(* The slots of S from b up to, but not with, f.                           *)
Between(S, b, f) == {s \in S : b <= s /\ s < f}

LEMMA RangeVisited ==
  ASSUME NEW S \in SUBSET Nat, NEW b \in Nat, NEW f \in Nat, b <= f
  PROVE  /\ Forward(S, b, f) \in Seq(Pieces)
         /\ Visits(Forward(S, b, f), Up(Between(S, b, f)))
         /\ Backward(S, b, f) \in Seq(Pieces)
         /\ Visits(Backward(S, b, f), Down(Between(S, b, f)))
<1> DEFINE T == Between(S, b, f)
           first == b \div W
           last == (f - 1) \div W
           k == last - first + 1
<1>1. CASE b = f
  <2>1. T = {}
    <3>1. \A s \in S : s \in Nat /\ ~(b <= s /\ s < b)
      OBVIOUS
    <3> QED BY <1>1, <3>1 DEF Between
  <2> QED BY <1>1, <2>1, NoWords DEF Forward, Backward
<1>2. CASE b < f
  <2>1. f - 1 \in Nat /\ f - 1 >= b
    BY <1>2
  <2>2. /\ first \in Nat /\ last \in Nat
        /\ \A s \in T : s \in Nat /\ s \div W \in first .. last
    <3>1. first \in Nat /\ last \in Nat
      BY <2>1, WordOrder
    <3>2. ASSUME NEW s \in T PROVE s \in Nat /\ s \div W \in first .. last
      <4>1. s \in Nat /\ b <= s /\ s <= f - 1
        BY DEF Between
      <4>2. s \div W \in Nat /\ (s \div W < first => s < b) /\ (last < s \div W => f - 1 < s)
        BY <2>1, <4>1, WordOrder
      <4> QED BY <2>1, <3>1, <4>1, <4>2
    <3> QED BY <3>1, <3>2
  <2>3. first <= last
    <3>1. last < first => f - 1 < b
      BY <2>1, WordOrder
    <3> QED BY <2>1, <2>2, <3>1
  <2>4. \A w \in first .. last : Cut(S, w, b, f) = {s \in T : s \div W = w}
    <3> TAKE w \in first .. last
    <3>1. Cut(S, w, b, f) = {s \in S : s \div W = w /\ b <= s /\ s < f}
      BY <1>2, CutIs
    <3> QED BY <3>1 DEF Between
  <2>5. T \in SUBSET Nat
    BY <2>2
  <2>6. /\ Forward(S, b, f) = [i \in 1 .. k |-> Rising(Cut(S, first + i - 1, b, f))]
        /\ Backward(S, b, f) = [i \in 1 .. k |-> Falling(Cut(S, last - i + 1, b, f))]
    BY <1>2 DEF Forward, Backward
  <2> HIDE DEF first, last, T
  <2>7. k \in Nat /\ first - 1 \in Int /\ last + 1 \in Int
    BY <2>2, <2>3
  <2>8. Forward(S, b, f) = [i \in 1 .. k |-> Rising({s \in T : s \div W = (first - 1) + i})]
    <3>1. ASSUME NEW i \in 1 .. k
          PROVE  Cut(S, first + i - 1, b, f) = {s \in T : s \div W = (first - 1) + i}
      <4>1. first + i - 1 \in first .. last /\ first + i - 1 = (first - 1) + i
        BY <2>2, <2>3
      <4> QED BY <2>4, <4>1
    <3> QED BY <2>6, <3>1
  <2>9. Backward(S, b, f) = [i \in 1 .. k |-> Falling({s \in T : s \div W = (last + 1) - i})]
    <3>1. ASSUME NEW i \in 1 .. k
          PROVE  Cut(S, last - i + 1, b, f) = {s \in T : s \div W = (last + 1) - i}
      <4>1. last - i + 1 \in first .. last /\ last - i + 1 = (last + 1) - i
        BY <2>2, <2>3
      <4> QED BY <2>4, <4>1
    <3> QED BY <2>6, <3>1
  <2>10. /\ \A s \in T : s \div W \in (first - 1) + 1 .. (first - 1) + k
         /\ \A s \in T : s \div W \in (last + 1) - k .. (last + 1) - 1
    BY <2>2, <2>3
  <2>11. Forward(S, b, f) \in Seq(Pieces) /\ Visits(Forward(S, b, f), Up(T))
    BY <2>5, <2>7, <2>8, <2>10, RunUp
  <2>12. Backward(S, b, f) \in Seq(Pieces) /\ Visits(Backward(S, b, f), Down(T))
    BY <2>5, <2>7, <2>9, <2>10, RunDown
  <2> QED BY <2>11, <2>12 DEF T
<1>3. b = f \/ b < f
  OBVIOUS
<1> QED BY <1>1, <1>2, <1>3

AgesOf(T, cap, h) == [s \in T |-> Age(s, cap, h)]

(* Slots on one side of the head grow older as they grow.                  *)
LEMMA AgesUp ==
  ASSUME NEW cap \in Nat \ {0}, NEW h \in 0 .. cap - 1, NEW T \in SUBSET (0 .. cap - 1),
         (\A s \in T : h <= s) \/ (\A s \in T : s < h),
         NEW p, Visits(p, Up(T))
  PROVE  Visits(p, AgesOf(T, cap, h))
<1>1. DOMAIN Up(T) = T /\ DOMAIN AgesOf(T, cap, h) = T
      /\ \A s \in T : Up(T)[s] = s /\ AgesOf(T, cap, h)[s] = Age(s, cap, h)
  BY DEF Up, AgesOf
<1>2. \A s \in T : s \in Nat /\ Age(s, cap, h) = IF s >= h THEN s - h ELSE s - h + cap
  BY AgeIs
<1>3. \A a, b \in T : a < b => Age(a, cap, h) < Age(b, cap, h)
  BY <1>2
<1>4. \A a, b \in DOMAIN Up(T) : Up(T)[a] < Up(T)[b] => AgesOf(T, cap, h)[a] < AgesOf(T, cap, h)[b]
  <2> SUFFICES ASSUME NEW a \in T, NEW b \in T, Up(T)[a] < Up(T)[b]
               PROVE  AgesOf(T, cap, h)[a] < AgesOf(T, cap, h)[b]
    BY <1>1
  <2>1. a < b
    BY <1>1
  <2>2. Age(a, cap, h) < Age(b, cap, h)
    BY <1>3, <2>1
  <2> QED BY <1>1, <2>2
<1> QED BY <1>1, <1>4, Rekey

LEMMA AgesJoin ==
  ASSUME NEW cap \in Nat \ {0}, NEW h \in 0 .. cap - 1,
         NEW A \in SUBSET (0 .. cap - 1), NEW B \in SUBSET (0 .. cap - 1),
         NEW p \in Seq(Pieces), NEW q \in Seq(Pieces),
         Visits(p, AgesOf(A, cap, h)), Visits(q, AgesOf(B, cap, h)),
         \A a \in A, b \in B : Age(a, cap, h) < Age(b, cap, h)
  PROVE  p \o q \in Seq(Pieces) /\ Visits(p \o q, AgesOf(A \cup B, cap, h))
<1> DEFINE key == AgesOf(A \cup B, cap, h)
<1>1. DOMAIN key = A \cup B /\ \A s \in A \cup B : key[s] = Age(s, cap, h)
  BY DEF AgesOf
<1>2. [s \in A |-> key[s]] = AgesOf(A, cap, h) /\ [s \in B |-> key[s]] = AgesOf(B, cap, h)
  BY <1>1 DEF AgesOf
<1>3. \A a \in A, b \in B : key[a] < key[b]
  BY <1>1
<1> HIDE DEF key
<1>4. Visits(p, [s \in A |-> key[s]]) /\ Visits(q, [s \in B |-> key[s]])
  BY <1>2
<1>5. p \o q \in Seq(Pieces) /\ Visits(p \o q, key)
  BY <1>1, <1>3, <1>4, VisitsJoin
<1> QED BY <1>5 DEF key

(* From the head to the end of the ring, then from its start to the head.  *)
LEMMA AroundRing ==
  ASSUME NEW cap \in Nat \ {0}, NEW h \in 0 .. cap - 1, NEW S \in SUBSET (0 .. cap - 1),
         NEW p \in Seq(Pieces), NEW q \in Seq(Pieces),
         Visits(p, Up(Between(S, h, cap))), Visits(q, Up(Between(S, 0, h)))
  PROVE  Visits(p \o q, AgesOf(S, cap, h))
<1> DEFINE A == Between(S, h, cap)
           B == Between(S, 0, h)
<1>1. /\ A \in SUBSET (0 .. cap - 1) /\ B \in SUBSET (0 .. cap - 1) /\ A \cup B = S
      /\ (\A s \in A : h <= s) /\ (\A s \in B : s < h)
  <2>1. \A s \in S : s \in 0 .. cap - 1 /\ 0 <= s /\ s < cap /\ (h <= s \/ s < h)
    OBVIOUS
  <2> QED BY <2>1, Zenon DEF Between
<1> HIDE DEF A, B
<1>2. Visits(p, AgesOf(A, cap, h)) /\ Visits(q, AgesOf(B, cap, h))
  <2>1. Visits(p, Up(A)) /\ Visits(q, Up(B))
    BY DEF A, B
  <2> QED BY <1>1, <2>1, AgesUp
<1>3. ASSUME NEW a \in A, NEW b \in B PROVE Age(a, cap, h) < Age(b, cap, h)
  <2>1. a \in 0 .. cap - 1 /\ b \in 0 .. cap - 1 /\ h <= a /\ b < h
    BY <1>1
  <2>2. Age(a, cap, h) = a - h /\ Age(b, cap, h) = b - h + cap
    BY <2>1, AgeIs
  <2> QED BY <2>1, <2>2
<1> QED BY <1>1, <1>2, <1>3, AgesJoin

LEMMA VisitExact ==
  ASSUME NEW cap \in Nat \ {0}, NEW h \in 0 .. cap - 1, NEW S \in SUBSET (0 .. cap - 1)
  PROVE  Visits(Visit(S, cap, h), AgesOf(S, cap, h))
<1>0. S \in SUBSET Nat /\ h \in Nat /\ cap \in Nat /\ h <= cap /\ 0 <= h
  OBVIOUS
<1>1. CASE cap <= W
  <2>1. \A s \in S : s \div W = 0 /\ s % W = s /\ s \in 0 .. W - 1
    <3> TAKE s \in S
    <3>1. s \in 0 .. W - 1 /\ W \in Nat
      BY <1>1, SlotSetAssumption
    <3>2. W * 0 + s = s
      BY <3>1
    <3>3. (W * 0 + s) \div W = 0 /\ (W * 0 + s) % W = s
      BY <3>1, WordUnique
    <3> QED BY <3>1, <3>2, <3>3
  <2>2. Word(S, 0) = S
    BY <2>1 DEF Word
  <2>3. Masked(S, From(h)) = Between(S, h, cap)
    <3>1. \A s \in S : s < cap /\ (s % W \in From(h) <=> h <= s)
      BY <2>1 DEF From
    <3> QED BY <3>1, Zenon DEF Masked, Between
  <2>4. {s \in S : s < h} = Between(S, 0, h)
    <3>1. \A s \in S : 0 <= s
      OBVIOUS
    <3> QED BY <3>1, Zenon DEF Between
  <2>5. Visit(S, cap, h) = <<Rising(Between(S, h, cap)), Rising(Between(S, 0, h))>>
    BY <1>1, <2>2, <2>3, <2>4 DEF Visit
  <2>6. Between(S, h, cap) \in SUBSET Nat /\ Between(S, 0, h) \in SUBSET Nat
        /\ Rising(Between(S, h, cap)) \in Pieces /\ Rising(Between(S, 0, h)) \in Pieces
    BY <1>0 DEF Between, Rising, Pieces
  <2>7. \A x, y \in Pieces : <<x, y>> = <<x>> \o <<y>>
    <3> TAKE x, y \in Pieces
    <3> DEFINE p == <<x>>
               q == <<y>>
               r == <<x, y>>
    <3>1. /\ p \in Seq(Pieces) /\ Len(p) = 1 /\ p[1] = x
          /\ q \in Seq(Pieces) /\ Len(q) = 1 /\ q[1] = y
          /\ r \in Seq(Pieces) /\ Len(r) = 2 /\ r[1] = x /\ r[2] = y
      OBVIOUS
    <3> HIDE DEF p, q, r
    <3>2. /\ p \o q \in Seq(Pieces) /\ Len(p \o q) = 2
          /\ \A i \in 1 .. Len(p) + Len(q) :
               (p \o q)[i] = IF i <= Len(p) THEN p[i] ELSE q[i - Len(p)]
      <4>1. /\ p \o q \in Seq(Pieces) /\ Len(p \o q) = Len(p) + Len(q)
            /\ \A i \in 1 .. Len(p) + Len(q) :
                 (p \o q)[i] = IF i <= Len(p) THEN p[i] ELSE q[i - Len(p)]
        BY <3>1, ConcatProperties
      <4> QED BY <3>1, <4>1
    <3> DEFINE z == p \o q
    <3>3. /\ z \in Seq(Pieces) /\ Len(z) = Len(r)
          /\ z[1] = r[1] /\ z[2] = r[2]
      BY <3>1, <3>2
    <3> HIDE DEF z
    <3>4. \A i \in 1 .. Len(z) : z[i] = r[i]
      BY <3>1, <3>3
    <3>5. z = r
      BY <3>1, <3>3, <3>4, SeqEqual
    <3> QED BY <3>5 DEF z, p, q, r
  <2>8. Visit(S, cap, h) = <<Rising(Between(S, h, cap))>> \o <<Rising(Between(S, 0, h))>>
    BY <2>5, <2>6, <2>7, Zenon
  <2> QED BY <2>6, <2>8, OneWord, AroundRing
<1>2. CASE ~(cap <= W)
  <2>1. Visit(S, cap, h) = Forward(S, h, cap) \o Forward(S, 0, h)
    BY <1>2 DEF Visit
  <2> QED BY <1>0, <2>1, RangeVisited, AroundRing
<1> QED BY <1>1, <1>2

LEMMA OlderExact ==
  ASSUME NEW cap \in Nat \ {0}, NEW h \in 0 .. cap - 1, NEW f \in 0 .. cap - 1,
         NEW S \in SUBSET (0 .. cap - 1), NEW key,
         key = [s \in {x \in S : Age(x, cap, h) < Age(f, cap, h)} |-> -Age(s, cap, h)]
  PROVE  Visits(VisitOlder(S, cap, h, f), key)
<1>0. S \in SUBSET Nat /\ h \in Nat /\ f \in Nat /\ cap \in Nat /\ h <= cap /\ 0 <= f
  OBVIOUS
<1>1. \A s \in S \cup {f} : /\ s \in Nat /\ s < cap
                            /\ Age(s, cap, h) = IF s >= h THEN s - h ELSE s - h + cap
  BY AgeIs
<1>2. CASE f >= h
  <2>1. VisitOlder(S, cap, h, f) = Backward(S, h, f)
    BY <1>2 DEF VisitOlder
  <2> DEFINE A == Between(S, h, f)
  <2>2. DOMAIN key = A
    <3>1. \A s \in S : Age(s, cap, h) < Age(f, cap, h) <=> h <= s /\ s < f
      BY <1>0, <1>1, <1>2
    <3>2. DOMAIN key = {x \in S : Age(x, cap, h) < Age(f, cap, h)}
      OBVIOUS
    <3> QED BY <3>1, <3>2, Zenon DEF Between
  <2>3. \A s \in A : s \in Nat /\ h <= s /\ key[s] = -(s - h)
    BY <1>1, <2>2 DEF Between
  <2>4. DOMAIN Down(A) = A /\ \A s \in A : Down(A)[s] = -s
    BY DEF Down
  <2>5. Visits(Backward(S, h, f), Down(A))
    BY <1>0, <1>2, RangeVisited
  <2> HIDE DEF A
  <2>6. \A a, b \in DOMAIN Down(A) : Down(A)[a] < Down(A)[b] => key[a] < key[b]
    BY <1>0, <2>3, <2>4
  <2>7. DOMAIN Down(A) = DOMAIN key
    BY <2>2, <2>4
  <2>8. Visits(Backward(S, h, f), key)
    BY <2>5, <2>6, <2>7, Rekey
  <2> QED BY <2>1, <2>8
<1>3. CASE f < h
  <2>1. VisitOlder(S, cap, h, f) = Backward(S, 0, f) \o Backward(S, h, cap)
    BY <1>0, <1>3 DEF VisitOlder
  <2> DEFINE A == Between(S, 0, f)
             B == Between(S, h, cap)
  <2>2. DOMAIN key = A \cup B
    <3>1. \A s \in S : Age(s, cap, h) < Age(f, cap, h)
                       <=> (0 <= s /\ s < f) \/ (h <= s /\ s < cap)
      BY <1>0, <1>1, <1>3
    <3>2. DOMAIN key = {x \in S : Age(x, cap, h) < Age(f, cap, h)}
      OBVIOUS
    <3>3. A = {s \in S : 0 <= s /\ s < f} /\ B = {s \in S : h <= s /\ s < cap}
      BY DEF Between
    <3> HIDE DEF A, B
    <3> QED BY <3>1, <3>2, <3>3, Zenon
  <2>3. /\ \A s \in A : s \in Nat /\ s < h /\ key[s] = -(s - h + cap)
        /\ \A s \in B : s \in Nat /\ h <= s /\ s < cap /\ key[s] = -(s - h)
    BY <1>0, <1>1, <1>3, <2>2 DEF Between
  <2>4. /\ DOMAIN Down(A) = A /\ \A s \in A : Down(A)[s] = -s
        /\ DOMAIN Down(B) = B /\ \A s \in B : Down(B)[s] = -s
    BY DEF Down
  <2>5. /\ Backward(S, 0, f) \in Seq(Pieces) /\ Visits(Backward(S, 0, f), Down(A))
        /\ Backward(S, h, cap) \in Seq(Pieces) /\ Visits(Backward(S, h, cap), Down(B))
    BY <1>0, RangeVisited
  <2> HIDE DEF A, B
  <2> DEFINE ka == [s \in A |-> key[s]]
             kb == [s \in B |-> key[s]]
  <2>6. DOMAIN ka = A /\ DOMAIN kb = B /\ (\A s \in A : ka[s] = key[s]) /\ (\A s \in B : kb[s] = key[s])
    OBVIOUS
  <2> HIDE DEF ka, kb
  <2>7. \A a, b \in DOMAIN Down(A) : Down(A)[a] < Down(A)[b] => ka[a] < ka[b]
    BY <1>0, <2>3, <2>4, <2>6
  <2>8. \A a, b \in DOMAIN Down(B) : Down(B)[a] < Down(B)[b] => kb[a] < kb[b]
    BY <1>0, <2>3, <2>4, <2>6
  <2>9. Visits(Backward(S, 0, f), ka) /\ Visits(Backward(S, h, cap), kb)
    BY <2>4, <2>5, <2>6, <2>7, <2>8, Rekey
  <2>10. \A a \in A, b \in B : key[a] < key[b]
    BY <1>0, <2>3
  <2>11. Visits(Backward(S, 0, f) \o Backward(S, h, cap), key)
    BY <2>2, <2>5, <2>9, <2>10, VisitsJoin DEF ka, kb
  <2> QED BY <2>1, <2>11
<1>4. f >= h \/ f < h
  BY <1>0
<1> QED BY <1>2, <1>3, <1>4

LEMMA WordsIs ==
  ASSUME NEW cap \in Nat \ {0}
  PROVE  Words(cap) - 1 = (cap - 1) \div W /\ (cap - 1) \div W \in Nat
<1> DEFINE l == (cap - 1) \div W
           r == (cap - 1) % W
<1>1. /\ l \in Nat /\ r \in 0 .. W - 1 /\ W \in Nat /\ W * l \in Nat
      /\ cap - 1 = W * l + r
  <2>1. cap - 1 \in Nat
    OBVIOUS
  <2> QED BY <2>1, WordPlace
<1> HIDE DEF l, r
<1>2. W * (l + 1) = W * l + W
  BY <1>1
<1>3. cap + W - 1 = W * (l + 1) + r
  BY <1>1, <1>2
<1>4. (W * (l + 1) + r) \div W = l + 1
  BY <1>1, WordUnique
<1>5. Words(cap) = l + 1
  BY <1>3, <1>4 DEF Words
<1> QED BY <1>1, <1>5 DEF l

LEMMA ReadyExact ==
  ASSUME NEW cap \in Nat \ {0}, NEW h \in 0 .. cap - 1, NEW S \in SUBSET (0 .. cap - 1)
  PROVE  Visits(VisitReady(S, cap, h), AgesOf(S, cap, h))
<1> DEFINE d == h \div W
           k == Words(cap) - d - 1
           A1 == {s \in S : s \div W = d /\ h <= s}
           A2 == {s \in S : d < s \div W}
           A3 == {s \in S : s \div W < d}
           A4 == {s \in S : s \div W = d /\ s < h}
           p1 == <<Rising(A1)>>
           p2 == [i \in 1 .. k |-> Rising(Word(S, d + i))]
           p3 == [i \in 1 .. d |-> Rising(Word(S, i - 1))]
           p4 == <<Rising(A4)>>
<1>0. S \in SUBSET Nat /\ h \in Nat /\ \A s \in S : s \in 0 .. cap - 1 /\ s \in Nat
  OBVIOUS
<1>1. d \in Nat /\ \A s \in S : /\ s \div W \in Nat /\ s % W \in 0 .. W - 1
                                /\ s \div W < d => s < h
                                /\ d < s \div W => h < s
                                /\ s \div W = d => (s < h <=> s % W < h % W)
  BY <1>0, WordOrder
<1>2. Words(cap) - 1 \in Nat /\ d <= Words(cap) - 1 /\ \A s \in S : s \div W <= Words(cap) - 1
  <2>1. cap - 1 \in Nat
    OBVIOUS
  <2>2. Words(cap) - 1 = (cap - 1) \div W /\ (cap - 1) \div W \in Nat
    BY WordsIs
  <2>3. \A s \in 0 .. cap - 1 : s \in Nat /\ s <= cap - 1 /\ s \div W \in Nat
                              /\ ((cap - 1) \div W < s \div W => cap - 1 < s)
    BY <2>1, WordOrder
  <2>4. \A s \in 0 .. cap - 1 : s \div W <= (cap - 1) \div W
    BY <2>1, <2>2, <2>3
  <2> QED BY <2>2, <2>4
<1>3. h % W \in 0 .. W - 1 /\ W \in Nat
  BY <1>0, WordPlace
<1>4. VisitReady(S, cap, h) = ((p1 \o p2) \o p3) \o p4
  <2>0. \A s \in S : s \div W = d =>
          /\ s % W \in From(h % W) <=> h <= s
          /\ s % W \in (0 .. W - 1) \ From(h % W) <=> s < h
    <3> SUFFICES ASSUME NEW s \in S, s \div W = d
                 PROVE  /\ s % W \in From(h % W) <=> h <= s
                        /\ s % W \in (0 .. W - 1) \ From(h % W) <=> s < h
      OBVIOUS
    <3> DEFINE x == s % W
               y == h % W
    <3>1. x \in 0 .. W - 1 /\ y \in 0 .. W - 1 /\ W \in Nat /\ (s < h <=> x < y)
      BY <1>1, <1>3
    <3> HIDE DEF x, y
    <3>2. (x \in From(y) <=> y <= x) /\ (x \in (0 .. W - 1) \ From(y) <=> x < y)
      BY <3>1 DEF From
    <3>3. s \in Nat /\ (h <= s <=> ~(s < h)) /\ (y <= x <=> ~(x < y))
      BY <1>0, <3>1
    <3> QED BY <3>1, <3>2, <3>3 DEF x, y
  <2>1. Masked(Word(S, d), From(h % W)) = A1
    BY <2>0, Zenon DEF Masked, Word
  <2>2. Masked(Word(S, d), (0 .. W - 1) \ From(h % W)) = A4
    BY <2>0, Zenon DEF Masked, Word
  <2> QED BY <2>1, <2>2 DEF VisitReady
<1>5. /\ A1 \in SUBSET (0 .. cap - 1) /\ A2 \in SUBSET (0 .. cap - 1)
      /\ A3 \in SUBSET (0 .. cap - 1) /\ A4 \in SUBSET (0 .. cap - 1)
      /\ (A1 \cup A2) \cup A3 \cup A4 = S
      /\ (A1 \cup A2) \in SUBSET (0 .. cap - 1) /\ (A1 \cup A2) \cup A3 \in SUBSET (0 .. cap - 1)
  <2>1. \A s \in S : s \div W = d \/ s \div W < d \/ d < s \div W
    BY <1>1
  <2>2. \A s \in S : h <= s \/ s < h
    BY <1>0
  <2> QED BY <2>1, <2>2
<1>6. /\ (\A s \in A1 : s \div W = d /\ h <= s) /\ (\A s \in A2 : d < s \div W /\ h <= s)
      /\ (\A s \in A3 : s \div W < d /\ s < h) /\ (\A s \in A4 : s \div W = d /\ s < h)
      /\ \A s \in A2 : s \div W <= Words(cap) - 1
  <2>1. \A s \in S : h < s => h <= s
    BY <1>0
  <2> QED BY <1>1, <1>2, <2>1, Zenon
<1>7. k \in Nat
  <2> DEFINE l == Words(cap) - 1
  <2>1. k = l - d
    <3>1. Words(cap) \in Int
      BY <1>2, WordsIs, SlotSetAssumption DEF Words
    <3> QED BY <1>1, <3>1
  <2>2. l \in Nat /\ d \in Nat /\ d <= l
    BY <1>1, <1>2
  <2> QED BY <2>1, <2>2
<1>8. p2 = [i \in 1 .. k |-> Rising({s \in A2 : s \div W = d + i})]
  <2>1. \A i \in 1 .. k : Word(S, d + i) = {s \in A2 : s \div W = d + i}
    BY <1>1, <1>7 DEF Word
  <2> QED BY <2>1
<1>9. p3 = [i \in 1 .. d |-> Rising({s \in A3 : s \div W = -1 + i})]
  <2>1. \A i \in 1 .. d : Word(S, i - 1) = {s \in A3 : s \div W = -1 + i}
    BY <1>1 DEF Word
  <2> QED BY <2>1
<1>10. (\A s \in A2 : s \div W \in d + 1 .. d + k) /\ (\A s \in A3 : s \div W \in -1 + 1 .. -1 + d)
  <2>1. \A s \in A2 : s \div W \in d + 1 .. d + k
    <3>1. \A s \in A2 : s \div W \in Nat /\ d < s \div W /\ s \div W <= Words(cap) - 1
      BY <1>1, <1>6
    <3>2. Words(cap) - 1 \in Nat /\ Words(cap) \in Int /\ d \in Nat
      BY <1>1, <1>2, SlotSetAssumption DEF Words
    <3> QED BY <3>1, <3>2
  <2>2. \A s \in A3 : s \div W \in -1 + 1 .. -1 + d
    <3>1. \A s \in A3 : s \div W \in Nat /\ s \div W < d
      BY <1>1, <1>6
    <3> QED BY <1>1, <3>1
  <2> QED BY <2>1, <2>2
<1> HIDE DEF A1, A2, A3, A4, d, k
<1>11. p1 \in Seq(Pieces) /\ Visits(p1, Up(A1))
  <2>1. A1 \in SUBSET Nat
    BY <1>5
  <2> QED BY <2>1, OneWord
<1>12. p4 \in Seq(Pieces) /\ Visits(p4, Up(A4))
  <2>1. A4 \in SUBSET Nat
    BY <1>5
  <2> QED BY <2>1, OneWord
<1>13. p2 \in Seq(Pieces) /\ Visits(p2, Up(A2))
  <2>1. A2 \in SUBSET Nat /\ d \in Int
    BY <1>1, <1>5
  <2> QED BY <2>1, <1>7, <1>8, <1>10, RunUp
<1>14. p3 \in Seq(Pieces) /\ Visits(p3, Up(A3))
  <2>1. A3 \in SUBSET Nat /\ -1 \in Int
    BY <1>5
  <2> QED BY <2>1, <1>1, <1>9, <1>10, RunUp
<1> HIDE DEF p1, p2, p3, p4
<1>15. /\ Visits(p1, AgesOf(A1, cap, h)) /\ Visits(p2, AgesOf(A2, cap, h))
       /\ Visits(p3, AgesOf(A3, cap, h)) /\ Visits(p4, AgesOf(A4, cap, h))
  BY <1>5, <1>6, <1>11, <1>12, <1>13, <1>14, AgesUp
<1>16. \A a, b \in 0 .. cap - 1 :
         \/ h <= a /\ b < h
         \/ a < b /\ (h <= a <=> h <= b)
         => Age(a, cap, h) < Age(b, cap, h)
  <2> TAKE a, b \in 0 .. cap - 1
  <2>1. /\ Age(a, cap, h) = IF a >= h THEN a - h ELSE a - h + cap
        /\ Age(b, cap, h) = IF b >= h THEN b - h ELSE b - h + cap
    BY AgeIs
  <2> QED BY <2>1
<1>17. \A a, b \in 0 .. cap - 1 : a \div W < b \div W => a < b
  BY WordOrder
<1>18. p1 \o p2 \in Seq(Pieces) /\ Visits(p1 \o p2, AgesOf(A1 \cup A2, cap, h))
  <2>1. \A a \in A1, b \in A2 : Age(a, cap, h) < Age(b, cap, h)
    <3> TAKE a \in A1, b \in A2
    <3>1. a \in 0 .. cap - 1 /\ b \in 0 .. cap - 1 /\ a \div W < b \div W /\ h <= a /\ h <= b
      BY <1>5, <1>6
    <3> QED BY <1>16, <1>17, <3>1
  <2> QED BY <1>5, <1>11, <1>13, <1>15, <2>1, AgesJoin
<1>19. (p1 \o p2) \o p3 \in Seq(Pieces)
       /\ Visits((p1 \o p2) \o p3, AgesOf((A1 \cup A2) \cup A3, cap, h))
  <2>1. \A a \in A1 \cup A2, b \in A3 : Age(a, cap, h) < Age(b, cap, h)
    <3> TAKE a \in A1 \cup A2, b \in A3
    <3>1. a \in 0 .. cap - 1 /\ b \in 0 .. cap - 1 /\ h <= a /\ b < h
      BY <1>5, <1>6
    <3> QED BY <1>16, <3>1
  <2> QED BY <1>5, <1>14, <1>15, <1>18, <2>1, AgesJoin
<1>20. Visits(((p1 \o p2) \o p3) \o p4, AgesOf(((A1 \cup A2) \cup A3) \cup A4, cap, h))
  <2>1. \A a \in (A1 \cup A2) \cup A3, b \in A4 : Age(a, cap, h) < Age(b, cap, h)
    <3> TAKE a \in (A1 \cup A2) \cup A3, b \in A4
    <3>1. CASE a \in A1 \cup A2
      <4>1. a \in 0 .. cap - 1 /\ b \in 0 .. cap - 1 /\ h <= a /\ b < h
        BY <1>5, <1>6, <3>1
      <4> QED BY <1>16, <4>1
    <3>2. CASE a \in A3
      <4>1. a \in 0 .. cap - 1 /\ b \in 0 .. cap - 1 /\ a \div W < b \div W /\ a < h /\ b < h
        BY <1>5, <1>6, <3>2
      <4>2. h \in Nat /\ a \in Nat /\ b \in Nat
        BY <1>0, <4>1
      <4>3. (h <= a <=> h <= b)
        BY <4>1, <4>2
      <4> QED BY <1>16, <1>17, <4>1, <4>3
    <3> QED BY <3>1, <3>2
  <2> QED BY <1>5, <1>12, <1>15, <1>19, <2>1, AgesJoin
<1> QED BY <1>4, <1>5, <1>20

LEMMA ScansAreExact == ScansExact
<1> SUFFICES ASSUME NEW cap \in 1 .. MaxCapacity, NEW S \in SUBSET (0 .. cap - 1),
                    NEW h \in 0 .. cap - 1
             PROVE  /\ Visits(Visit(S, cap, h), [s \in S |-> Age(s, cap, h)])
                    /\ Visits(VisitReady(S, cap, h), [s \in S |-> Age(s, cap, h)])
                    /\ \A f \in 0 .. cap - 1 :
                         Visits(VisitOlder(S, cap, h, f),
                                [s \in {x \in S : Age(x, cap, h) < Age(f, cap, h)} |-> -Age(s, cap, h)])
  BY DEF ScansExact
<1>1. cap \in Nat \ {0}
  BY SlotSetAssumption
<1> QED BY <1>1, VisitExact, ReadyExact, OlderExact DEF AgesOf

(* Every scan of core/slot_set.h and the issue queue's own, over a bitmap  *)
(* of any number of words, from any head: each member once, in ring order  *)
(* from the head, or exactly those older than a given slot, newest first.  *)
(* The word size, the capacity and the set are arbitrary.                  *)
THEOREM ScansAlwaysExact == QSpec => []ScansInAgeOrder
<1>1. ScansInAgeOrder
  BY ScansAreExact DEF ScansInAgeOrder
<1> QED BY <1>1, PTL

(* The queue's own scan of its ready entries follows the program, whatever *)
(* slots the entries were given and however the ring has turned: the older *)
(* of two ready instructions is always selected first (visitReady,         *)
(* core/iq.h:100).  Ring order is program order because the live slots     *)
(* hold increasing sequence numbers.                                       *)
THEOREM SelectsInProgramOrder == QSpec => []SelectsOldestFirst
<1>1. IqInv => SelectsOldestFirst
  <2> SUFFICES ASSUME IqInv PROVE SelectsOldestFirst
    OBVIOUS
  <2> USE DEF IqInv
  <2>1. /\ RobSize \in Nat \ {0} /\ count \in Nat /\ count <= RobSize
        /\ head \in 0 .. RobSize - 1 /\ Slots = 0 .. RobSize - 1
    BY SlotTypes, IssueQueueAssumption
  <2>2. ready \subseteq occupied /\ ready \in SUBSET (0 .. RobSize - 1)
    BY <2>1 DEF RowsMatch, Shape
  <2>3. Visits(VisitReady(ready, RobSize, head), AgesOf(ready, RobSize, head))
    BY <2>1, <2>2, ReadyExact
  <2>4. \A i \in Ages : Age(Slot(i), RobSize, head) = i
    <3> TAKE i \in Ages
    <3>1. i \in 0 .. RobSize - 1
      BY <2>1 DEF Ages
    <3>2. Slot(i) \in 0 .. RobSize - 1
      BY <2>1, <3>1, SlotTypes
    <3>3. Slot(i) = IF i < RobSize - head THEN head + i ELSE i - (RobSize - head)
      BY DEF Slot, IndexOf
    <3>4. Age(Slot(i), RobSize, head)
            = IF Slot(i) >= head THEN Slot(i) - head ELSE Slot(i) - head + RobSize
      BY <2>1, <3>2, AgeIs
    <3> QED BY <2>1, <3>1, <3>3, <3>4
  <2>5. ASSUME NEW a \in ready, NEW b \in ready, Age(a, RobSize, head) < Age(b, RobSize, head)
        PROVE  e[a].seq < e[b].seq
    <3>1. PICK i \in Ages, j \in Ages : a = Slot(i) /\ b = Slot(j)
      BY <2>2 DEF SlotsOrdered
    <3>2. i < j
      BY <2>4, <2>5, <3>1
    <3>3. i \in 0 .. j - 1
      BY <2>1, <3>2 DEF Ages
    <3> QED BY <3>1, <3>3 DEF SlotsOrdered
  <2>6. Visits(VisitReady(ready, RobSize, head), [s \in ready |-> e[s].seq])
    <3> DEFINE k1 == AgesOf(ready, RobSize, head)
               k2 == [s \in ready |-> e[s].seq]
    <3>1. /\ DOMAIN k1 = ready /\ DOMAIN k2 = ready
          /\ \A s \in ready : k1[s] = Age(s, RobSize, head) /\ k2[s] = e[s].seq
      BY DEF AgesOf
    <3>2. Visits(VisitReady(ready, RobSize, head), k1)
      BY <2>3
    <3> HIDE DEF k1, k2
    <3>3. \A a, b \in DOMAIN k1 : k1[a] < k1[b] => k2[a] < k2[b]
      BY <2>5, <3>1
    <3>4. Visits(VisitReady(ready, RobSize, head), k2)
      BY <3>1, <3>2, <3>3, Rekey
    <3> QED BY <3>4 DEF k2
  <2> QED BY <2>6 DEF SelectsOldestFirst
<1> QED BY <1>1, QueueInvariant, PTL
=============================================================================
