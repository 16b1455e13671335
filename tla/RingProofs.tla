----------------------------- MODULE RingProofs -----------------------------
(***************************************************************************)
(* What every user of core/ring.h relies on: offsets from the head and     *)
(* ring indices correspond one to one, an entry keeps its index while the  *)
(* head advances, and live() recognises exactly the occupied indices.      *)
(*                                                                         *)
(* The module also holds two facts about sets of numbers that any proof    *)
(* about "the oldest" or "the youngest" entry needs.                       *)
(***************************************************************************)
EXTENDS Ring, WellFoundedInduction, TLAPS

(* A nonempty set of naturals has a least element: there is an oldest      *)
(* entry of any kind that has entries at all.                              *)
LEMMA MinExists ==
  ASSUME NEW S, S \subseteq Nat, S # {}
  PROVE  \E m \in S : \A x \in S : m <= x
<1> DEFINE R == OpToRel(<, Nat)
<1>1. IsWellFoundedOn(R, Nat)
  BY NatLessThanWellFounded
<1>2. \A x, y \in Nat : x < y => <<x, y>> \in R
  BY DEF OpToRel
<1> HIDE DEF R
<1>3. PICK m \in S : \A y \in S : ~(<<y, m>> \in R)
  BY <1>1, WFMin
<1>4. ASSUME NEW x \in S PROVE m <= x
  <2>1. x \in Nat /\ m \in Nat
    OBVIOUS
  <2>2. <<x, m>> \notin R
    BY <1>3
  <2>3. ~(x < m)
    BY <1>2, <2>1, <2>2
  <2> QED BY <2>1, <2>3
<1> QED BY <1>4

(* A nonempty set of naturals with a bound has a greatest element: the     *)
(* youngest entry of a kind.                                               *)
LEMMA MaxExists ==
  ASSUME NEW n \in Nat, NEW S, S \subseteq 0 .. n, S # {}
  PROVE  \E m \in S : \A x \in S : x <= m
<1> DEFINE T == {n - x : x \in S}
<1>1. T \subseteq Nat
  OBVIOUS
<1>2. T # {}
  <2>1. PICK x \in S : TRUE
    OBVIOUS
  <2>2. n - x \in T
    BY <2>1
  <2> QED BY <2>2
<1>3. PICK t \in T : \A x \in T : t <= x
  BY <1>1, <1>2, MinExists
<1>4. PICK m \in S : t = n - m
  OBVIOUS
<1>5. ASSUME NEW x \in S PROVE x <= m
  <2>1. n - m <= n - x
    BY <1>3, <1>4
  <2> QED BY <2>1
<1> QED BY <1>5
-----------------------------------------------------------------------------
(* indexOf() stays within the array for every offset of a live entry, and  *)
(* for the slot after the tail of a ring that is not full.                 *)
LEMMA IndexInRange ==
  ASSUME NEW cap \in Nat, NEW head \in 0 .. cap - 1, NEW k \in 0 .. cap
  PROVE  IndexOf(cap, head, k) \in 0 .. cap - 1
BY DEF IndexOf

(* Two live entries never share a ring index.                              *)
LEMMA IndexInjective ==
  ASSUME NEW cap \in Nat, NEW head \in 0 .. cap - 1,
         NEW j \in 0 .. cap - 1, NEW k \in 0 .. cap - 1,
         IndexOf(cap, head, j) = IndexOf(cap, head, k)
  PROVE  j = k
BY DEF IndexOf

(* When the head advances, the entry at offset k + 1 becomes the one at    *)
(* offset k: it keeps its index.                                           *)
LEMMA IndexShift ==
  ASSUME NEW cap \in Nat, NEW head \in 0 .. cap - 1, NEW k \in 0 .. cap - 1
  PROVE  IndexOf(cap, IndexOf(cap, head, 1), k) = IndexOf(cap, head, k + 1)
BY DEF IndexOf

(* live() answers whether some live entry has this index, for every        *)
(* capacity and head position: a response that names a slot is matched to  *)
(* the right entry or to none.                                             *)
THEOREM LiveIsOccupied ==
  ASSUME NEW cap \in Nat, NEW head \in 0 .. cap - 1, NEW n \in 0 .. cap,
         NEW idx \in 0 .. cap - 1
  PROVE  Live(cap, head, n, idx)
           <=> \E k \in 0 .. n - 1 : IndexOf(cap, head, k) = idx
<1>1. ASSUME Live(cap, head, n, idx)
      PROVE  \E k \in 0 .. n - 1 : IndexOf(cap, head, k) = idx
  <2>1. Distance(cap, head, idx) \in 0 .. n - 1
    BY <1>1 DEF Live, Distance
  <2>2. IndexOf(cap, head, Distance(cap, head, idx)) = idx
    BY DEF IndexOf, Distance
  <2> QED BY <2>1, <2>2
<1>2. ASSUME NEW k \in 0 .. n - 1, IndexOf(cap, head, k) = idx
      PROVE  Live(cap, head, n, idx)
  BY <1>2 DEF Live, Distance, IndexOf
<1> QED BY <1>1, <1>2
=============================================================================
