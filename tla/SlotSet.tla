------------------------------ MODULE SlotSet ------------------------------
(***************************************************************************)
(* Scans of a ring's slots in age order over a bitmap of several words:    *)
(* SlotSet (core/slot_set.h) and the issue queue's visitReady (core/iq.h). *)
(* A bitmap is the set S of its slots in a ring of the given capacity; a   *)
(* word holds W of them.  A scan is the sequence of what it takes from one *)
(* word after another, if its visitor never stops it, with the end of the  *)
(* word it takes its bits from.                                            *)
(***************************************************************************)
EXTENDS Integers, Sequences, FiniteSets

CONSTANTS W,             \* bits of a word (64)
          MaxCapacity    \* bound on the rings the scans are checked on

ASSUME SlotSetAssumption == W \in Nat \ {0} /\ MaxCapacity \in Nat \ {0}

(* The lowest bit of a word first, or the highest.                         *)
Rising(slots)  == [up |-> TRUE, slots |-> slots]
Falling(slots) == [up |-> FALSE, slots |-> slots]

Word(S, w) == {s \in S : s \div W = w}

(* Masks of a word: bits from b upwards, bits below b.                     *)
From(b)  == {i \in 0 .. W - 1 : i >= b}

BugBelow(b) == {i \in 0 .. W - 1 : i < b}
Below(b) == IF b = 0 THEN 0 .. W - 1 ELSE {i \in 0 .. W - 1 : i < b}

Masked(S, mask) == {s \in S : s % W \in mask}

(* Word w of the range begin .. end - 1: the outer words are cut.          *)
Cut(S, w, b, e) ==
  LET low  == IF w = b \div W THEN Masked(Word(S, w), From(b % W)) ELSE Word(S, w)
  IN  IF w = (e - 1) \div W THEN Masked(low, Below(e % W)) ELSE low

Forward(S, b, e) ==
  IF b = e THEN <<>>
  ELSE [i \in 1 .. (e - 1) \div W - b \div W + 1 |->
          Rising(Cut(S, b \div W + i - 1, b, e))]

Backward(S, b, e) ==
  IF b = e THEN <<>>
  ELSE [i \in 1 .. (e - 1) \div W - b \div W + 1 |->
          Falling(Cut(S, (e - 1) \div W - i + 1, b, e))]

(* visit: one word is masked twice, several are scanned in two ranges.     *)
Visit(S, capacity, head) ==
  IF capacity <= W
  THEN <<Rising(Masked(Word(S, 0), From(head))), Rising({s \in Word(S, 0) : s < head})>>
  ELSE Forward(S, head, capacity) \o Forward(S, 0, head)

VisitOlder(S, capacity, head, end) ==
  IF end >= head THEN Backward(S, head, end)
  ELSE Backward(S, 0, end) \o Backward(S, head, capacity)

Words(capacity) == (capacity + W - 1) \div W

BugVisitReady(S, capacity, head) ==
  <<Rising(Word(S, head \div W))>>
  \o [i \in 1 .. Words(capacity) - 1 |->
         Rising(Word(S, (head \div W + i) % Words(capacity)))]

(* visitReady: the head's word from the head on, the words after it, the   *)
(* words before it, then what was left of the head's word.                 *)
VisitReady(S, capacity, head) ==
  LET h == head \div W IN
  <<Rising(Masked(Word(S, h), From(head % W)))>>
  \o [i \in 1 .. Words(capacity) - h - 1 |-> Rising(Word(S, h + i))]
  \o [i \in 1 .. h |-> Rising(Word(S, i - 1))]
  \o <<Rising(Masked(Word(S, h), (0 .. W - 1) \ From(head % W)))>>
-----------------------------------------------------------------------------
(* What the scans should be *)

Age(s, capacity, head) == (s - head) % capacity

(* The visitor gets every slot of key's domain once, by increasing key.    *)
Visits(scan, key) ==
  /\ UNION {scan[i].slots : i \in DOMAIN scan} = DOMAIN key
  /\ \A i \in DOMAIN scan : \A a, b \in scan[i].slots :
       (IF scan[i].up THEN a < b ELSE a > b) => key[a] < key[b]
  /\ \A i, j \in DOMAIN scan : i < j =>
       \A a \in scan[i].slots, b \in scan[j].slots : key[a] < key[b]

(* The scans of every set, from every head and up to every end, for every  *)
(* number of words: oldest first, or newest first of what is older.        *)
ScansExact ==
  \A n \in 1 .. MaxCapacity : \A S \in SUBSET (0 .. n - 1), h \in 0 .. n - 1 :
    LET oldest == [s \in S |-> Age(s, n, h)]
    IN  /\ Visits(Visit(S, n, h), oldest)
        /\ Visits(VisitReady(S, n, h), oldest)
        /\ \A e \in 0 .. n - 1 :
             Visits(VisitOlder(S, n, h, e),
                    [s \in {x \in S : Age(x, n, h) < Age(e, n, h)} |-> -Age(s, n, h)])
=============================================================================
