----------------------------- MODULE IssueQueue -----------------------------
(***************************************************************************)
(* The bitmaps of core/iq.h: which slots wait, on which source, and one    *)
(* row of waiting slots per physical register.  A bitmap is the set of its *)
(* slots, and its scans are SlotSet's.                                     *)
(*                                                                         *)
(* The rest of the core appears as what the queue is told: slots are those *)
(* of a reorder buffer that fills in order and empties at the head once an *)
(* instruction has left the queue, and a register gets a new producer only *)
(* when nothing waiting names it (Rename and Backend establish that).      *)
(***************************************************************************)
EXTENDS SlotSet, Ring

CONSTANTS RobSize,       \* slots
          Capacity,      \* iqSize
          Pregs,
          MaxSeq         \* bound on dispatched instructions

ASSUME IssueQueueAssumption ==
  /\ RobSize \in Nat \ {0} /\ Capacity \in 1 .. RobSize /\ MaxSeq \in Nat
  /\ Pregs # {}

VARIABLES e,                     \* e[slot]: seq, ps1, ps2
          occupied, ready, blocked1, blocked2,
          wait1, wait2,          \* wait1[p]: slots whose first source waits on p
          n,                     \* occupied entries
          head, count,           \* the reorder buffer
          seq,                   \* instructions dispatched so far
          prfReady               \* registers whose value is written

qvars == <<e, occupied, ready, blocked1, blocked2, wait1, wait2, n>>
ivars == <<qvars, head, count, seq, prfReady>>

Slots == 0 .. RobSize - 1
Nowhere == [p \in Pregs |-> {}]
NoEntry == [seq |-> 0, ps1 |-> CHOOSE p \in Pregs : TRUE, ps2 |-> CHOOSE p \in Pregs : TRUE]

QInit ==
  /\ e = [s \in Slots |-> NoEntry]
  /\ occupied = {} /\ ready = {} /\ blocked1 = {} /\ blocked2 = {}
  /\ wait1 = Nowhere /\ wait2 = Nowhere
  /\ n = 0
  /\ head = 0 /\ count = 0 /\ seq = 0
  /\ prfReady = Pregs
-----------------------------------------------------------------------------
(* IssueQueue *)

BugWaits(row, p, slot, isReady) ==
  IF isReady THEN row ELSE [row EXCEPT ![p] = {slot}]

Waits(row, p, slot, isReady) ==
  IF isReady THEN row ELSE [row EXCEPT ![p] = @ \cup {slot}]

Full == n = Capacity

(* allocate and track                                                      *)
Track(slot, q, ready1, ready2) ==
  /\ e' = [e EXCEPT ![slot] = q]
  /\ occupied' = occupied \cup {slot}
  /\ wait1' = Waits(wait1, q.ps1, slot, ready1)
  /\ wait2' = Waits(wait2, q.ps2, slot, ready2)
  /\ blocked1' = IF ready1 THEN blocked1 ELSE blocked1 \cup {slot}
  /\ blocked2' = IF ready2 THEN blocked2 ELSE blocked2 \cup {slot}
  /\ ready' = IF ready1 /\ ready2 THEN ready \cup {slot} ELSE ready
  /\ n' = n + 1

BugForgotten(row, blocked, S, source) == row

(* The bits of the released slots leave the rows they wait in.             *)
Forgotten(row, blocked, S, source) ==
  [p \in Pregs |-> row[p] \ {s \in S \cap blocked : source[s] = p}]

(* release, of one slot or, in a flush, of several                         *)
Release(S) ==
  /\ wait1' = Forgotten(wait1, blocked1, S, [s \in Slots |-> e[s].ps1])
  /\ wait2' = Forgotten(wait2, blocked2, S, [s \in Slots |-> e[s].ps2])
  /\ blocked1' = blocked1 \ S
  /\ blocked2' = blocked2 \ S
  /\ occupied' = occupied \ S
  /\ ready' = ready \ S
  /\ n' = n - Cardinality(S)
  /\ UNCHANGED e

BugUnblocked(first, second) == first \cup second

(* The consumers that wait for nothing else.                               *)
Unblocked(first, second) ==
  (first \cup second) \ ((blocked1 \ first) \cup (blocked2 \ second))

Wakeup(p) ==
  /\ wait1' = [wait1 EXCEPT ![p] = {}]
  /\ wait2' = [wait2 EXCEPT ![p] = {}]
  /\ blocked1' = blocked1 \ wait1[p]
  /\ blocked2' = blocked2 \ wait2[p]
  /\ ready' = ready \cup Unblocked(wait1[p], wait2[p])
  /\ UNCHANGED <<e, occupied, n>>
-----------------------------------------------------------------------------
(* The core around it *)

Slot(k) == IndexOf(RobSize, head, k)

(* The sources are looked up before the destination, if any, gets a        *)
(* register that nothing waiting names.                                    *)
Dispatch(ps1, ps2, uses1, uses2, dest) ==
  /\ ~Full /\ count < RobSize /\ seq < MaxSeq
  /\ \A p \in dest : \A s \in occupied : p \notin {e[s].ps1, e[s].ps2}
  /\ \A p \in dest : p \notin {ps1, ps2}
  /\ Track(Slot(count), [seq |-> seq + 1, ps1 |-> ps1, ps2 |-> ps2],
           ~uses1 \/ ps1 \in prfReady, ~uses2 \/ ps2 \in prfReady)
  /\ seq' = seq + 1 /\ count' = count + 1
  /\ prfReady' = prfReady \ dest
  /\ UNCHANGED head

Issue(s) ==
  /\ s \in ready
  /\ Release({s})
  /\ UNCHANGED <<head, count, seq, prfReady>>

Writeback(p) ==
  /\ p \notin prfReady
  /\ Wakeup(p)
  /\ prfReady' = prfReady \cup {p}
  /\ UNCHANGED <<head, count, seq>>

(* flushYounger, for everything from the k-th instruction on               *)
Younger(k) == {s \in occupied : e[s].seq > e[Slot(k)].seq - 1}

Squash(k) ==
  /\ Release(Younger(k))
  /\ count' = k
  /\ UNCHANGED <<head, seq, prfReady>>

Commit ==
  /\ count > 0 /\ head \notin occupied
  /\ head' = Slot(1) /\ count' = count - 1
  /\ UNCHANGED <<qvars, seq, prfReady>>

QNext ==
  \/ \E ps1, ps2 \in Pregs, uses1, uses2 \in BOOLEAN,
        dest \in {{}} \cup {{p} : p \in Pregs} : Dispatch(ps1, ps2, uses1, uses2, dest)
  \/ \E s \in Slots : Issue(s)
  \/ \E p \in Pregs : Writeback(p)
  \/ \E k \in 0 .. count - 1 : Squash(k)
  \/ Commit

QSpec == QInit /\ [][QNext]_ivars
-----------------------------------------------------------------------------
(* Properties *)

QueueTypeOK ==
  /\ \A S \in {occupied, ready, blocked1, blocked2} : S \subseteq Slots
  /\ e \in [Slots -> [seq : 0 .. MaxSeq, ps1 : Pregs, ps2 : Pregs]]
  /\ n = Cardinality(occupied) /\ n <= Capacity

(* The rows and the blocked bits name the same waits, however entries came *)
(* and went: a bit left behind would wake the slot's next instruction.     *)
RowsExact ==
  /\ QueueTypeOK
  /\ \A p \in Pregs : /\ wait1[p] = {s \in blocked1 : e[s].ps1 = p}
                      /\ wait2[p] = {s \in blocked2 : e[s].ps2 = p}
  /\ blocked1 \cup blocked2 \subseteq occupied
  /\ ready = occupied \ (blocked1 \cup blocked2)

(* Nothing waits for a value that is already written (a lost wakeup).      *)
NoLostWakeup ==
  /\ \A s \in blocked1 : e[s].ps1 \notin prfReady
  /\ \A s \in blocked2 : e[s].ps2 \notin prfReady

(* Waiting slots are live slots of the reorder buffer in program order, so *)
(* that a flush by sequence number takes exactly the squashed slots and a  *)
(* scan from the head is oldest first (iq.h:10).                            *)
SlotsInProgramOrder ==
  \A s \in occupied :
    \E i \in 0 .. count - 1 :
      /\ s = Slot(i)
      /\ \A j \in 0 .. i - 1 : e[Slot(j)].seq < e[s].seq

(* The queue's bitmaps, rows and slots describe the same waiting           *)
(* instructions (core/iq.h).                                               *)
QueueExact == RowsExact /\ SlotsInProgramOrder

(* The scans of slot_set.h and iq.h visit every member of a set once, in   *)
(* ring order from the head, or exactly those older than a load, newest    *)
(* first (slot_set.h:20, 30, iq.h:100).  This holds of the scans whatever  *)
(* the queue contains, so it is enough to look once, at the start.         *)
ScansInAgeOrder == QInit => ScansExact

(* Select sees the ready entries in program order, whatever slots they     *)
(* were given and however the ring has turned (iq.h:100).                  *)
SelectsOldestFirst ==
  Visits(VisitReady(ready, RobSize, head), [s \in ready |-> e[s].seq])

Needs(s) ==
  {p \in Pregs : (s \in blocked1 /\ e[s].ps1 = p) \/ (s \in blocked2 /\ e[s].ps2 = p)}

Abstract == INSTANCE WaitingOps
              WITH Seqs <- 1 .. MaxSeq,
                   waiting <- {[seq |-> e[s].seq, needs |-> Needs(s)] : s \in occupied}

(* Bitmaps and rows implement a set of instructions with what they need:   *)
(* one that waits on the same register twice, or on two that are written   *)
(* in either order, leaves exactly when it needs nothing.                  *)
RefinesWaiting == Abstract!WSpec
=============================================================================
