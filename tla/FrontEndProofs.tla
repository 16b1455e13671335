--------------------------- MODULE FrontEndProofs ---------------------------
(***************************************************************************)
(* The front end delivers one path, for every program, every size of block *)
(* and queue, whatever is predicted, replayed and rewritten, and in        *)
(* whatever cycle an answer comes.                                         *)
(***************************************************************************)
EXTENDS FrontEnd, RingProofs, SequenceTheorems, FiniteSetTheorems, FunctionTheorems

Predictors == [pos : Nat, bits : [0 .. HistRing - 1 -> {0, 1}],
               folds : [0 .. HistRing - 1 -> Int], rasN : Nat]

(* The predictor before a word follows from the one before the last word.  *)
Step(p, first, choice, g, w) ==
  IF w = first THEN p ELSE Apply(g[w - 1], choice[w - 1].eff)

LEMMA BeforeIs ==
  ASSUME NEW p, NEW first \in Nat, NEW last \in Nat, NEW choice
  PROVE  LET at == Before(p, first, last, choice)
         IN  at = [w \in first .. last + 1 |-> Step(p, first, choice, at, w)]
<1> DEFINE Upto(n, g) == g = [w \in first .. first + n |-> Step(p, first, choice, g, w)]
           Missing == {n \in Nat : ~\E g : Upto(n, g)}
<1>1. Missing = {}
  <2> SUFFICES ASSUME Missing # {} PROVE FALSE
    OBVIOUS
  <2>1. PICK n \in Missing : \A m \in Missing : n <= m
    BY MinExists
  <2>2. CASE n = 0
    <3>1. Upto(0, [w \in first .. first |-> p])
      BY DEF Step
    <3> QED BY <2>1, <2>2, <3>1
  <2>3. CASE n # 0
    <3>1. n - 1 \in Nat /\ n - 1 \notin Missing
      <4>1. n \in Nat /\ n - 1 \in Nat
        BY <2>1, <2>3
      <4> HIDE DEF Missing
      <4> QED BY <2>1, <4>1
    <3>2. PICK g : Upto(n - 1, g)
      BY <3>1
    <3> DEFINE h == [w \in first .. first + n |-> Step(p, first, choice, g, w)]
    <3>3. \A w \in first .. first + (n - 1) : h[w] = g[w]
      BY <2>1, <2>3, <3>2
    <3>4. \A w \in first .. first + n : Step(p, first, choice, g, w) = Step(p, first, choice, h, w)
      <4> SUFFICES ASSUME NEW w \in first .. first + n
                   PROVE  Step(p, first, choice, g, w) = Step(p, first, choice, h, w)
        OBVIOUS
      <4>1. CASE w = first
        BY <4>1 DEF Step
      <4>2. CASE w # first
        <5>1. w - 1 \in first .. first + (n - 1)
          BY <2>1, <4>2
        <5>2. h[w - 1] = g[w - 1]
          BY <3>3, <5>1
        <5> HIDE DEF h
        <5> QED BY <5>2 DEF Step
      <4> QED BY <4>1, <4>2
    <3>5. Upto(n, h)
      BY <3>4
    <3> QED BY <2>1, <3>5
  <2> QED BY <2>2, <2>3
<1>2. CASE first <= last + 1
  <2>1. last + 1 - first \in Nat /\ first + (last + 1 - first) = last + 1
    BY <1>2
  <2>2. \E g : Upto(last + 1 - first, g)
    BY <1>1, <2>1
  <2>3. \E g : g = [w \in first .. last + 1 |-> Step(p, first, choice, g, w)]
    BY <2>1, <2>2
  <2> QED BY <2>3 DEF Before, Step
<1>3. CASE ~(first <= last + 1)
  <2>1. first .. last + 1 = {}
    BY <1>3
  <2>2. \E g : g = [w \in first .. last + 1 |-> Step(p, first, choice, g, w)]
    BY <2>1
  <2> QED BY <2>2 DEF Before, Step
<1> QED BY <1>2, <1>3

LEMMA Division ==
  ASSUME NEW a \in Int, NEW b \in Nat \ {0}
  PROVE  /\ a % b \in 0 .. b - 1 /\ a \div b \in Int
         /\ a = b * (a \div b) + (a % b)
OBVIOUS

LEMMA ApplyTypes ==
  ASSUME NEW p \in Predictors, NEW eff
  PROVE  Apply(p, eff) \in Predictors
<1>1. HistRing \in Nat \ {0}
  BY FrontEndAssumption DEF HistRing
<1>2. \A n \in Int : n % HistRing \in 0 .. HistRing - 1
  BY <1>1, Division
<1>3. ASSUME NEW bit \in {0, 1} PROVE PushHistory(p, bit) \in Predictors
  <2>1. MaxHist \in Nat
    BY FrontEndAssumption
  <2> DEFINE pos == p.pos + 1
             bits == [p.bits EXCEPT ![pos % HistRing] = bit]
             out == bits[(pos - MaxHist) % HistRing]
             fold == p.folds[p.pos % HistRing] + bit - out
  <2>a. /\ p.pos \in Nat /\ p.bits \in [0 .. HistRing - 1 -> {0, 1}]
        /\ p.folds \in [0 .. HistRing - 1 -> Int]
    BY DEF Predictors
  <2>2. pos \in Nat /\ bits \in [0 .. HistRing - 1 -> {0, 1}]
    <3>1. pos \in Nat
      BY <2>a
    <3> HIDE DEF pos
    <3>2. pos % HistRing \in 0 .. HistRing - 1
      BY <1>2, <3>1
    <3>3. [p.bits EXCEPT ![pos % HistRing] = bit] \in [0 .. HistRing - 1 -> {0, 1}]
      BY <2>a, <3>2
    <3> QED BY <3>1, <3>3
  <2>3. out \in {0, 1}
    <3>1. (pos - MaxHist) % HistRing \in 0 .. HistRing - 1
      BY <1>2, <2>1, <2>2
    <3> HIDE DEF pos, bits
    <3> QED BY <2>2, <3>1
  <2>4. fold \in Int
    <3>1. p.folds[p.pos % HistRing] \in Int
      <4>1. p.pos % HistRing \in 0 .. HistRing - 1
        <5>1. p.pos \in Int
          BY <2>a
        <5> QED BY <1>2, <5>1
      <4> QED BY <2>a, <4>1
    <3> HIDE DEF out
    <3> QED BY <2>3, <3>1
  <2> HIDE DEF bits, fold, pos
  <2>5. [p EXCEPT !.pos = pos, !.bits = bits, !.folds[pos % HistRing] = fold] \in Predictors
    BY <2>2, <2>4 DEF Predictors
  <2> QED BY <2>5 DEF PushHistory, pos, bits, fold
<1>4. CASE eff = "taken"
  BY <1>3, <1>4 DEF Apply
<1>5. CASE eff = "nottaken"
  BY <1>3, <1>5 DEF Apply
<1>6. CASE eff \notin {"taken", "nottaken"}
  BY <1>6 DEF Apply, Predictors
<1> QED BY <1>4, <1>5, <1>6

LEMMA BeforeTypes ==
  ASSUME NEW p \in Predictors, NEW first \in Nat, NEW last \in Nat, NEW choice
  PROVE  \A w \in first .. last + 1 : Before(p, first, last, choice)[w] \in Predictors
<1> DEFINE at == Before(p, first, last, choice)
           Wrong == {n \in Nat : first + n <= last + 1 /\ at[first + n] \notin Predictors}
<1>1. at = [w \in first .. last + 1 |-> Step(p, first, choice, at, w)]
  BY BeforeIs
<1> HIDE DEF at
<1>2. Wrong = {}
  <2> SUFFICES ASSUME Wrong # {} PROVE FALSE
    OBVIOUS
  <2>1. PICK n \in Wrong : \A m \in Wrong : n <= m
    BY MinExists
  <2>2. n \in Nat /\ first + n <= last + 1 /\ at[first + n] \notin Predictors
    BY <2>1
  <2>3. at[first + n] = Step(p, first, choice, at, first + n)
    BY <1>1, <2>2
  <2>4. n # 0
    BY <2>2, <2>3 DEF Step
  <2>5. n - 1 \in Nat /\ n - 1 \notin Wrong
    <3> HIDE DEF Wrong
    <3> QED BY <2>1, <2>2, <2>4
  <2>6. at[first + (n - 1)] \in Predictors
    BY <2>2, <2>5
  <2>7. first + n # first /\ first + n - 1 = first + (n - 1)
    BY <2>2, <2>4
  <2> QED BY <2>2, <2>3, <2>6, <2>7, ApplyTypes DEF Step
<1>3. ASSUME NEW w \in first .. last + 1 PROVE at[w] \in Predictors
  <2>1. w - first \in Nat /\ first + (w - first) = w /\ w <= last + 1
    OBVIOUS
  <2> QED BY <1>2, <2>1
<1> QED BY <1>3 DEF at
-----------------------------------------------------------------------------
(* Blocks *)

(* The words from a pc to the end of its block are in memory.              *)
LEMMA BlockInMemory ==
  ASSUME NEW pc \in Pcs
  PROVE  LET end == BlockOf(pc) + BlockWords - 1
         IN  end \in Pcs /\ pc <= end /\ BlockRest(pc) = pc .. end
<1> DEFINE c == Words \div BlockWords
           q == pc \div BlockWords
<1>1. BlockWords \in Nat \ {0} /\ Words \in Nat \ {0} /\ Words % BlockWords = 0
  BY FrontEndAssumption
<1>2. pc \in Nat /\ pc < Words
  BY <1>1 DEF Pcs
<1>3. c \in Int /\ Words = BlockWords * c
  <2>1. Words = BlockWords * c + (Words % BlockWords) /\ c \in Int
    BY <1>1, Division
  <2> QED BY <1>1, <2>1
<1> DEFINE r == pc % BlockWords
<1>4. r \in 0 .. BlockWords - 1 /\ q \in Int /\ pc = BlockWords * q + r
  BY <1>1, <1>2, Division
<1>9. BlockOf(pc) = pc - r
  BY DEF BlockOf
<1> HIDE DEF c, q, r
<1>5. BlockWords * q < BlockWords * c
  BY <1>1, <1>2, <1>3, <1>4
<1>6. q < c
  <2> SUFFICES ASSUME c <= q PROVE FALSE
    BY <1>3, <1>4
  <2>1. BlockWords * c <= BlockWords * q
    BY <1>1, <1>3, <1>4
  <2> QED BY <1>1, <1>3, <1>4, <1>5, <2>1
<1>7. BlockWords * (q + 1) <= BlockWords * c
  BY <1>1, <1>3, <1>4, <1>6
<1>8. BlockWords * (q + 1) = BlockWords * q + BlockWords
  BY <1>1, <1>4
<1>10. BlockWords * q \in Int /\ BlockWords * q = pc - r
  BY <1>1, <1>2, <1>4
<1>11. pc - r + BlockWords <= Words
  BY <1>1, <1>2, <1>3, <1>4, <1>7, <1>8, <1>10
<1>12. BlockOf(pc) + BlockWords - 1 \in Pcs /\ pc <= BlockOf(pc) + BlockWords - 1
  BY <1>1, <1>2, <1>4, <1>9, <1>11 DEF Pcs
<1> QED BY <1>12 DEF BlockRest

(* The last word fetched is the first one predicted taken, if there is one.*)
LEMMA LastIsFirstTaken ==
  ASSUME NEW pc \in Pcs, NEW choice
  PROVE  LET last == LastFetched(pc, choice)
         IN  /\ last \in BlockRest(pc) /\ last \in Pcs /\ pc <= last
             /\ \A w \in pc .. last - 1 : w \in BlockRest(pc) /\ ~choice[w].taken
<1> DEFINE end == BlockOf(pc) + BlockWords - 1
           ends == {w \in BlockRest(pc) : choice[w].taken}
<1>1. end \in Pcs /\ pc <= end /\ BlockRest(pc) = pc .. end /\ pc \in Nat
  BY BlockInMemory DEF Pcs
<1>2. CASE ends = {}
  BY <1>1, <1>2 DEF LastFetched, Pcs
<1>3. CASE ends # {}
  <2>1. ends \subseteq Nat
    BY <1>1 DEF Pcs
  <2>2. \E m \in ends : \A x \in ends : m <= x
    BY <1>3, <2>1, MinExists
  <2> DEFINE last == CHOOSE w \in ends : \A x \in ends : w <= x
  <2>3. last \in ends /\ \A x \in ends : last <= x
    BY <2>2
  <2>4. LastFetched(pc, choice) = last
    BY <1>3 DEF LastFetched
  <2> HIDE DEF last
  <2>5. last \in pc .. end /\ last \in Pcs
    <3>1. last \in pc .. end
      BY <1>1, <2>3
    <3> HIDE DEF end
    <3> QED BY <1>1, <3>1, FrontEndAssumption DEF Pcs
  <2>6. ASSUME NEW w \in pc .. last - 1 PROVE w \in BlockRest(pc) /\ ~choice[w].taken
    <3>1. w \in BlockRest(pc) /\ w < last
      BY <1>1, <2>5 DEF Pcs
    <3>2. ~(last <= w)
      BY <1>1, <2>5, <3>1 DEF Pcs
    <3> QED BY <2>3, <3>1, <3>2
  <2> QED BY <1>1, <2>4, <2>5, <2>6
<1> QED BY <1>2, <1>3
-----------------------------------------------------------------------------
(* The invariant *)

Branch(kind) == kind \in {"cond", "jump", "call", "ret"}
Instrs == [kind : Kinds, target : Nat]
Effects == {"none", "taken", "nottaken", "push", "pop"}
Outs == [taken : BOOLEAN, next : Nat]
Entries == [pc : Pcs, taken : BOOLEAN, target : Nat, eff : Effects, hist : Nat,
            rasN : Nat, resolved : BOOLEAN, actual : Outs]
Fetches == [pc : Nat, outstanding : BOOLEAN, stale : BOOLEAN, fetchPc : Pcs,
            q : Seq(Entries), pend : BOOLEAN, target : Nat]

Shape ==
  /\ rob \in Seq(Entries) /\ fe \in Fetches /\ pr \in Predictors
  /\ code \in [Pcs -> Instrs] /\ trained \in [Pcs -> SUBSET Instrs]
  /\ arch.next \in Nat

(* Entry k of a stream s that starts at pc n goes to the pc of entry k + 1.*)
Follow(s, n, k) == IF k = 0 THEN n ELSE NextOf(s[k])

(* Only a branch is predicted taken.                                       *)
Connected(s, n) ==
  \A k \in 1 .. Len(s) :
    /\ s[k].pc = Follow(s, n, k - 1)
    /\ s[k].taken => Branch(code[s[k].pc].kind)

(* Fetch continues where the stream ends; while it has yet to be told so,  *)
(* the answer on its way is stale.                                         *)
Continues(f, end) ==
  /\ IF f.pend THEN f.target = end
     ELSE f.pc = end /\ (f.outstanding /\ ~f.stale => f.fetchPc = end)
  /\ f.stale => f.outstanding
  /\ f.pend /\ f.outstanding => f.stale

OnThePath(r, f, n) ==
  /\ Connected(r \o f.q, n)
  /\ Continues(f, Follow(r \o f.q, n, Len(r \o f.q)))

(* What a word has ever held: the target buffer may still know it.         *)
Held(w) == {Instr(Kind[w], Target[w])}
           \cup {Instr(P.kind, P.target) : P \in {Q \in Patches : Q.pc = w}}

Training ==
  \A w \in Pcs :
    /\ trained[w] \subseteq Held(w) /\ code[w] \in trained[w]
    /\ \A I \in trained[w] : Branch(I.kind) => Branch(code[w].kind)

Stopped == fault => stage = "edge" /\ FaultIsReal

FrontInv ==
  /\ Shape /\ OnThePath(rob, fe, arch.next) /\ (ready => fe.outstanding)
  /\ Training /\ Stopped

(* Branches may be rewritten, but a word that is a branch once stays one   *)
(* (see RunsTheNewCode for the others).                                    *)
BranchesStay ==
  \A P \in Patches : Branch(P.kind) \/ \A I \in Held(P.pc) : ~Branch(I.kind)
-----------------------------------------------------------------------------
(* Fetch *)

LEMMA Predictions ==
  ASSUME Shape, Training, NEW w \in Pcs, NEW c \in Predict(w)
  PROVE  /\ c.taken \in BOOLEAN /\ c.target \in Nat /\ c.eff \in Effects
         /\ c.taken => Branch(code[w].kind)
<1>1. CASE c = Miss
  BY <1>1 DEF Miss, Effects
<1>2. ASSUME NEW I \in trained[w], c \in Hits(I)
      PROVE  /\ c.taken \in BOOLEAN /\ c.target \in Nat /\ c.eff \in Effects
             /\ c.taken => Branch(code[w].kind)
  <2>1. I \in Instrs /\ (Branch(I.kind) => Branch(code[w].kind))
    BY DEF Shape, Training
  <2>2. I.target \in Nat /\ I.kind \in Kinds
    BY <2>1 DEF Instrs
  <2>3. /\ I.kind \in {"cond", "jump", "call", "ret"}
        /\ \E taken \in BOOLEAN, target \in Nat, eff \in Effects : c = Hit(taken, target, eff)
    <3>1. CASE I.kind = "cond"
      <4>1. c = Hit(TRUE, I.target, "taken") \/ c = Hit(FALSE, I.target, "nottaken")
        BY <1>2, <3>1 DEF Hits
      <4> QED BY <2>2, <3>1, <4>1, Zenon DEF Effects
    <3>2. CASE I.kind = "call"
      <4>1. c = Hit(TRUE, I.target, "push")
        BY <1>2, <3>2 DEF Hits
      <4> QED BY <2>2, <3>2, <4>1, Zenon DEF Effects
    <3>3. CASE I.kind = "jump"
      <4>1. c = Hit(TRUE, I.target, "none")
        BY <1>2, <3>3 DEF Hits
      <4> QED BY <2>2, <3>3, <4>1, Zenon DEF Effects
    <3>4. CASE I.kind = "ret"
      <4>1. PICK t \in Returns : c = Hit(TRUE, t, "pop")
        BY <1>2, <3>4 DEF Hits
      <4>2. t \in Nat
        BY FrontEndAssumption
      <4> QED BY <3>4, <4>1, <4>2, Zenon DEF Effects
    <3>5. CASE I.kind = "plain"
      BY <1>2, <3>5 DEF Hits
    <3> QED BY <2>2, <3>1, <3>2, <3>3, <3>4, <3>5 DEF Kinds
  <2>4. PICK taken \in BOOLEAN, target \in Nat, eff \in Effects : c = Hit(taken, target, eff)
    BY <2>3
  <2>5. c.taken = taken /\ c.target = target /\ c.eff = eff
    BY <2>4 DEF Hit
  <2> QED BY <2>1, <2>3, <2>5, Zenon DEF Branch
<1> QED BY <1>1, <1>2 DEF Predict

(* A branch goes somewhere, and when it is not taken on to the next word.  *)
LEMMA OutcomesOf ==
  ASSUME Shape, NEW w \in Pcs
  PROVE  /\ Branch(code[w].kind) => Outcomes(w) # {}
         /\ \A o \in Outcomes(w) : o \in Outs /\ (~o.taken => o.next = w + 1)
<1>1. code[w].kind \in Kinds /\ code[w].target \in Nat /\ w + 1 \in Nat
  BY FrontEndAssumption DEF Shape, Instrs, Pcs
<1>2. ASSUME NEW b \in BOOLEAN, NEW n \in Nat, ~b => n = w + 1
      PROVE  To(b, n) \in Outs /\ (~To(b, n).taken => To(b, n).next = w + 1)
  BY <1>2 DEF To, Outs
<1>3. CASE code[w].kind = "cond"
  <2>1. Outcomes(w) = {To(FALSE, w + 1), To(TRUE, code[w].target)}
    BY <1>3 DEF Outcomes
  <2> QED BY <1>1, <1>2, <2>1, Zenon
<1>4. CASE code[w].kind \in {"jump", "call"}
  <2>1. Outcomes(w) = {To(TRUE, code[w].target)}
    BY <1>4 DEF Outcomes
  <2> QED BY <1>1, <1>2, <2>1, Zenon
<1>5. CASE code[w].kind = "ret"
  <2>1. Outcomes(w) = {To(TRUE, t) : t \in Returns}
    BY <1>5 DEF Outcomes
  <2>2. \A t \in Returns : t \in Nat
    BY FrontEndAssumption
  <2>3. \E t : t \in Returns
    BY FrontEndAssumption
  <2> QED BY <1>2, <2>1, <2>2, <2>3, Zenon
<1>6. CASE code[w].kind = "plain"
  BY <1>1, <1>6 DEF Outcomes, Branch
<1> QED BY <1>1, <1>3, <1>4, <1>5, <1>6 DEF Kinds
-----------------------------------------------------------------------------
(* Streams *)

(* A stream grows by words that continue it.                               *)
LEMMA Longer ==
  ASSUME NEW s \in Seq(Entries), NEW t \in Seq(Entries), NEW n, Connected(s, n),
         \A i \in 1 .. Len(t) :
           /\ t[i].pc = Follow(t, Follow(s, n, Len(s)), i - 1)
           /\ t[i].taken => Branch(code[t[i].pc].kind)
  PROVE  /\ Connected(s \o t, n)
         /\ Follow(s \o t, n, Len(s \o t)) = Follow(t, Follow(s, n, Len(s)), Len(t))
<1> DEFINE u == s \o t
<1>1. /\ u \in Seq(Entries) /\ Len(u) = Len(s) + Len(t) /\ Len(s) \in Nat /\ Len(t) \in Nat
      /\ \A k \in 1 .. Len(s) : u[k] = s[k]
      /\ \A k \in 1 .. Len(t) : u[Len(s) + k] = t[k]
  OBVIOUS
<1> HIDE DEF u
<1>2. \A k \in 0 .. Len(s) : Follow(u, n, k) = Follow(s, n, k)
  <2> SUFFICES ASSUME NEW k \in 0 .. Len(s) PROVE Follow(u, n, k) = Follow(s, n, k)
    OBVIOUS
  <2>1. k # 0 => u[k] = s[k]
    BY <1>1
  <2> QED BY <2>1 DEF Follow
<1>3. \A i \in 0 .. Len(t) :
        Follow(u, n, Len(s) + i) = Follow(t, Follow(s, n, Len(s)), i)
  <2> SUFFICES ASSUME NEW i \in 0 .. Len(t)
               PROVE  Follow(u, n, Len(s) + i) = Follow(t, Follow(s, n, Len(s)), i)
    OBVIOUS
  <2>1. CASE i = 0
    <3>1. Len(s) + i = Len(s) /\ Len(s) \in 0 .. Len(s)
      BY <1>1, <2>1
    <3>2. Follow(u, n, Len(s)) = Follow(s, n, Len(s))
      BY <1>2, <3>1
    <3>3. Follow(t, Follow(s, n, Len(s)), 0) = Follow(s, n, Len(s))
      BY DEF Follow
    <3> QED BY <2>1, <3>1, <3>2, <3>3
  <2>2. CASE i # 0
    <3>1. Len(s) + i # 0 /\ u[Len(s) + i] = t[i]
      BY <1>1, <2>2
    <3> QED BY <2>2, <3>1 DEF Follow
  <2> QED BY <2>1, <2>2
<1>4. ASSUME NEW k \in 1 .. Len(u)
      PROVE  u[k].pc = Follow(u, n, k - 1) /\ (u[k].taken => Branch(code[u[k].pc].kind))
  <2>1. CASE k \in 1 .. Len(s)
    <3>1. u[k] = s[k] /\ k - 1 \in 0 .. Len(s)
      BY <1>1, <2>1
    <3>2. Follow(u, n, k - 1) = Follow(s, n, k - 1)
      BY <1>2, <3>1
    <3> QED BY <2>1, <3>1, <3>2 DEF Connected
  <2>2. CASE k \notin 1 .. Len(s)
    <3> DEFINE i == k - Len(s)
    <3>a. k \in Int /\ Len(s) < k /\ k <= Len(s) + Len(t) /\ Len(s) \in Nat /\ Len(t) \in Nat
      BY <1>1, <2>2
    <3>1. i \in 1 .. Len(t) /\ k = Len(s) + i /\ i - 1 \in 0 .. Len(t) /\ k - 1 = Len(s) + (i - 1)
      BY <3>a
    <3> HIDE DEF i
    <3>2. u[k] = t[i]
      BY <1>1, <3>1
    <3>3. Follow(u, n, k - 1) = Follow(t, Follow(s, n, Len(s)), i - 1)
      BY <1>3, <3>1
    <3> QED BY <3>1, <3>2, <3>3
  <2> QED BY <2>1, <2>2
<1>5. Follow(u, n, Len(u)) = Follow(t, Follow(s, n, Len(s)), Len(t))
  <2>1. Len(t) \in 0 .. Len(t)
    BY <1>1
  <2> QED BY <1>1, <1>3, <2>1
<1> QED BY <1>4, <1>5 DEF Connected, u

(* A squash leaves a stream's beginning, a commit takes its first word.    *)
LEMMA Shorter ==
  ASSUME NEW s \in Seq(Entries), NEW n, Connected(s, n), NEW m \in 0 .. Len(s)
  PROVE  /\ Connected(SubSeq(s, 1, m), n) /\ Len(SubSeq(s, 1, m)) = m
         /\ Follow(SubSeq(s, 1, m), n, m) = Follow(s, n, m)
<1> DEFINE t == SubSeq(s, 1, m)
<1>1. Len(t) = m /\ \A k \in 1 .. m : t[k] = s[k]
  BY SubSeqProperties
<1> HIDE DEF t
<1>2. \A k \in 0 .. m : Follow(t, n, k) = Follow(s, n, k)
  <2> SUFFICES ASSUME NEW k \in 0 .. m PROVE Follow(t, n, k) = Follow(s, n, k)
    OBVIOUS
  <2>1. k # 0 => t[k] = s[k]
    BY <1>1
  <2> QED BY <2>1 DEF Follow
<1>3. ASSUME NEW k \in 1 .. Len(t)
      PROVE  t[k].pc = Follow(t, n, k - 1) /\ (t[k].taken => Branch(code[t[k].pc].kind))
  <2>1. t[k] = s[k] /\ k - 1 \in 0 .. m /\ k \in 1 .. Len(s)
    BY <1>1
  <2>2. Follow(t, n, k - 1) = Follow(s, n, k - 1)
    BY <1>2, <2>1
  <2> QED BY <2>1, <2>2 DEF Connected
<1>4. m \in 0 .. m
  OBVIOUS
<1> QED BY <1>1, <1>2, <1>3, <1>4 DEF Connected, t

LEMMA Later ==
  ASSUME NEW s \in Seq(Entries), NEW n, Connected(s, n), s # <<>>
  PROVE  /\ Connected(Tail(s), NextOf(s[1]))
         /\ Follow(Tail(s), NextOf(s[1]), Len(Tail(s))) = Follow(s, n, Len(s))
<1> DEFINE t == Tail(s)
<1>1. Len(s) \in Nat /\ Len(s) >= 1 /\ Len(t) = Len(s) - 1 /\ \A k \in 1 .. Len(t) : t[k] = s[k + 1]
  OBVIOUS
<1> HIDE DEF t
<1>2. \A k \in 0 .. Len(t) : Follow(t, NextOf(s[1]), k) = Follow(s, n, k + 1)
  <2> SUFFICES ASSUME NEW k \in 0 .. Len(t)
               PROVE  Follow(t, NextOf(s[1]), k) = Follow(s, n, k + 1)
    OBVIOUS
  <2>1. k # 0 => t[k] = s[k + 1]
    BY <1>1
  <2>2. k + 1 # 0 /\ (k = 0 => s[k + 1] = s[1])
    OBVIOUS
  <2> QED BY <2>1, <2>2 DEF Follow
<1>3. ASSUME NEW k \in 1 .. Len(t)
      PROVE  /\ t[k].pc = Follow(t, NextOf(s[1]), k - 1)
             /\ t[k].taken => Branch(code[t[k].pc].kind)
  <2>1. t[k] = s[k + 1] /\ k - 1 \in 0 .. Len(t) /\ k + 1 \in 1 .. Len(s) /\ k + 1 - 1 = k - 1 + 1
    BY <1>1
  <2>2. Follow(t, NextOf(s[1]), k - 1) = Follow(s, n, k - 1 + 1)
    BY <1>2, <2>1
  <2> QED BY <2>1, <2>2 DEF Connected
<1>4. Len(t) \in 0 .. Len(t) /\ Len(t) + 1 = Len(s)
  BY <1>1
<1> QED BY <1>2, <1>3, <1>4 DEF Connected, t
-----------------------------------------------------------------------------
LEMMA Rejoin ==
  ASSUME NEW s \in Seq(Entries), NEW t \in Seq(Entries), NEW u \in Seq(Entries)
  PROVE  (s \o t) \o u = s \o (t \o u)
BY ConcatAssociative

(* consume() keeps to the path, and leaves no fetch in flight.             *)
LEMMA ConsumeKeeps ==
  ASSUME Shape, Training, NEW f \in Fetches, NEW p \in Predictors,
         OnThePath(rob, f, arch.next), f.outstanding,
         NEW choice \in BlockChoices(f.fetchPc)
  PROVE  LET c == Consume(f, p, choice)
         IN  /\ c.fe \in Fetches /\ c.pr \in Predictors
             /\ OnThePath(rob, c.fe, arch.next) /\ ~c.fe.outstanding
<1> DEFINE first == f.fetchPc
           last == LastFetched(first, choice)
           at == Before(p, first, last, choice)
           new == [i \in 1 .. last - first + 1 |->
                     Fetched(at[first + i - 1], first + i - 1, choice[first + i - 1])]
           next == IF choice[last].taken THEN choice[last].target ELSE last + 1
           c == Consume(f, p, choice)
<1>1. /\ f = [pc |-> f.pc, outstanding |-> f.outstanding, stale |-> f.stale,
              fetchPc |-> f.fetchPc, q |-> f.q, pend |-> f.pend, target |-> f.target]
      /\ f.pc \in Nat /\ f.fetchPc \in Pcs /\ f.q \in Seq(Entries) /\ f.target \in Nat
      /\ f.pend \in BOOLEAN
  BY DEF Fetches
<1>2. CASE f.stale
  <2>1. c.fe = [f EXCEPT !.outstanding = FALSE, !.stale = FALSE] /\ c.pr = p
    BY <1>2 DEF Consume
  <2>2. /\ c.fe.q = f.q /\ c.fe.pc = f.pc /\ c.fe.pend = f.pend /\ c.fe.target = f.target
        /\ c.fe.outstanding = FALSE /\ c.fe.stale = FALSE
    BY <1>1, <2>1
  <2>3. c.fe \in Fetches
    BY <2>1 DEF Fetches
  <2> HIDE DEF c
  <2> QED BY <2>1, <2>2, <2>3 DEF OnThePath, Continues, c
<1>3. CASE ~f.stale
  <2>1. /\ first \in Pcs /\ first \in Nat /\ last \in Pcs /\ last \in Nat /\ first <= last
        /\ \A w \in first .. last - 1 : w \in BlockRest(first) /\ ~choice[w].taken
        /\ last \in BlockRest(first)
    <3>1. first \in Pcs
      BY <1>1
    <3> HIDE DEF first
    <3>2. /\ last \in Pcs /\ first <= last /\ last \in BlockRest(first)
          /\ \A w \in first .. last - 1 : w \in BlockRest(first) /\ ~choice[w].taken
      BY <3>1, LastIsFirstTaken
    <3> HIDE DEF last
    <3>3. first \in Nat /\ last \in Nat
      BY <3>1, <3>2 DEF Pcs
    <3> QED BY <3>1, <3>2, <3>3
  <2>2. \A w \in first .. last + 1 : at[w] \in Predictors
    BY <2>1, BeforeTypes
  <2> HIDE DEF at, last
  <2>3. ASSUME NEW w \in first .. last
        PROVE  /\ w \in Pcs /\ choice[w] \in Predict(w)
               /\ w # last => ~choice[w].taken
    <3> HIDE DEF first
    <3>1. w \in BlockRest(first) /\ w \in Pcs /\ (w # last => w \in first .. last - 1)
      <4>1. w # last => w \in first .. last - 1
        BY <2>1
      <4>2. w \in Pcs
        BY <2>1, FrontEndAssumption DEF Pcs
      <4> QED BY <2>1, <4>1, <4>2
    <3>2. choice \in BlockChoices(first)
      BY DEF first
    <3> QED BY <2>1, <3>1, <3>2 DEF BlockChoices
  <2>4. ASSUME NEW w \in first .. last
        PROVE  /\ Fetched(at[w], w, choice[w]) \in Entries
               /\ choice[w].taken \in BOOLEAN /\ choice[w].target \in Nat
               /\ choice[w].taken => Branch(code[w].kind)
    <3>1. /\ choice[w].taken \in BOOLEAN /\ choice[w].target \in Nat /\ choice[w].eff \in Effects
          /\ choice[w].taken => Branch(code[w].kind)
      BY <2>3, Predictions
    <3>2. at[w].pos \in Nat /\ at[w].rasN \in Nat
      <4>1. w \in first .. last + 1
        BY <2>1
      <4> QED BY <2>2, <4>1 DEF Predictors
    <3>3. To(FALSE, 0) \in Outs
      BY DEF To, Outs
    <3> QED BY <2>3, <3>1, <3>2, <3>3 DEF Fetched, Entries
  <2>5. /\ new \in Seq(Entries) /\ Len(new) = last - first + 1
        /\ \A i \in 1 .. Len(new) :
             new[i] = Fetched(at[first + i - 1], first + i - 1, choice[first + i - 1])
    <3>1. last - first + 1 \in Nat
      BY <2>1
    <3>2. \A i \in 1 .. last - first + 1 : first + i - 1 \in first .. last
      BY <2>1
    <3>3. new \in [1 .. last - first + 1 -> Entries]
      BY <2>4, <3>2
    <3>4. \A i \in 1 .. last - first + 1 :
            new[i] = Fetched(at[first + i - 1], first + i - 1, choice[first + i - 1])
      OBVIOUS
    <3> HIDE DEF new, first
    <3>5. new \in Seq(Entries) /\ Len(new) = last - first + 1
      BY <3>1, <3>3
    <3> QED BY <3>4, <3>5
  <2> HIDE DEF new
  <2>6. ASSUME NEW i \in 1 .. Len(new)
        PROVE  LET w == first + i - 1
               IN  /\ w \in first .. last /\ new[i].pc = w
                   /\ new[i].taken => Branch(code[new[i].pc].kind)
                   /\ NextOf(new[i]) = IF choice[w].taken THEN choice[w].target ELSE w + 1
    <3> DEFINE w == first + i - 1
    <3>1. w \in first .. last
      BY <2>1, <2>5
    <3> HIDE DEF w
    <3>2. new[i] = Fetched(at[w], w, choice[w])
      BY <2>5 DEF w
    <3>3. /\ new[i].pc = w /\ new[i].taken = choice[w].taken /\ new[i].resolved = FALSE
          /\ new[i].target = choice[w].target
      BY <3>2 DEF Fetched
    <3>4. choice[w].taken => Branch(code[w].kind)
      BY <2>4, <3>1
    <3>5. choice[w].taken => Outcomes(w) # {}
      BY <2>3, <3>1, <3>4, OutcomesOf
    <3>6. NextOf(new[i]) = IF choice[w].taken THEN choice[w].target ELSE w + 1
      BY <3>3, <3>5, Zenon DEF NextOf
    <3> QED BY <3>1, <3>3, <3>4, <3>6 DEF w
  <2> DEFINE end == Follow(rob \o f.q, arch.next, Len(rob \o f.q))
             fe2 == [f EXCEPT !.q = f.q \o new, !.pc = next, !.outstanding = FALSE,
                              !.stale = FALSE]
  <2>7. ~f.pend /\ end = first
    BY <1>1, <1>3, Zenon DEF OnThePath, Continues
  <2>8. \A i \in 1 .. Len(new) :
          /\ new[i].pc = Follow(new, end, i - 1)
          /\ new[i].taken => Branch(code[new[i].pc].kind)
    <3> SUFFICES ASSUME NEW i \in 1 .. Len(new)
                 PROVE  /\ new[i].pc = Follow(new, end, i - 1)
                        /\ new[i].taken => Branch(code[new[i].pc].kind)
      OBVIOUS
    <3>1. CASE i = 1
      <4>1. first + i - 1 = first
        BY <2>1, <3>1
      <4>2. Follow(new, end, i - 1) = first
        BY <2>7, <3>1 DEF Follow
      <4> HIDE DEF end
      <4> QED BY <2>6, <4>1, <4>2
    <3>2. CASE i # 1
      <4> DEFINE v == first + (i - 1) - 1
      <4>1. i - 1 \in 1 .. Len(new) /\ i - 1 # 0
        BY <3>2, <2>5
      <4>2. v \in first .. last - 1 /\ v # last /\ v + 1 = first + i - 1
        <5>1. /\ first \in Nat /\ last \in Nat /\ i \in Int /\ 1 <= i - 1
              /\ i <= last - first + 1
          BY <2>1, <2>5, <4>1
        <5> HIDE DEF first
        <5> QED BY <5>1
      <4>3. NextOf(new[i - 1]) = IF choice[v].taken THEN choice[v].target ELSE v + 1
        <5> HIDE DEF end
        <5> QED BY <2>6, <4>1
      <4> HIDE DEF v
      <4>4. NextOf(new[i - 1]) = first + i - 1
        BY <2>1, <4>2, <4>3
      <4>5. Follow(new, end, i - 1) = NextOf(new[i - 1])
        BY <4>1 DEF Follow
      <4> HIDE DEF end
      <4> QED BY <2>6, <4>4, <4>5
    <3> QED BY <3>1, <3>2
  <2>9. Follow(new, end, Len(new)) = next /\ next \in Nat
    <3>1. Len(new) \in 1 .. Len(new) /\ Len(new) # 0 /\ first + Len(new) - 1 = last
          /\ last \in first .. last
      BY <2>1, <2>5
    <3>2. NextOf(new[Len(new)]) = next
      <4> HIDE DEF end
      <4>1. LET w == first + Len(new) - 1
            IN  NextOf(new[Len(new)]) = IF choice[w].taken THEN choice[w].target ELSE w + 1
        BY <2>6, <3>1
      <4> QED BY <3>1, <4>1
    <3>3. next \in Nat
      BY <2>1, <2>4, <3>1
    <3> QED BY <3>1, <3>2, <3>3 DEF Follow
  <2>10. /\ c.pr = at[last + 1] /\ c.fe = fe2
    BY <1>1, <1>3 DEF Consume, ProcessFetch, at, last, new
  <2> HIDE DEF c, next, first, fe2
  <2>11. c.pr \in Predictors
    <3>1. last + 1 \in first .. last + 1
      BY <2>1
    <3> QED BY <2>2, <2>10, <3>1
  <2>12. /\ fe2.q = f.q \o new /\ fe2.pc = next /\ fe2.outstanding = FALSE
         /\ fe2.stale = FALSE /\ fe2.pend = f.pend
    BY <1>1 DEF fe2
  <2>13. fe2 \in Fetches
    <3>1. f.q \o new \in Seq(Entries)
      BY <1>1, <2>5
    <3> QED BY <1>1, <2>9, <3>1 DEF fe2, Fetches
  <2>14. rob \in Seq(Entries) /\ f.q \in Seq(Entries) /\ new \in Seq(Entries)
         /\ rob \o f.q \in Seq(Entries) /\ rob \o (f.q \o new) = (rob \o f.q) \o new
    <3>1. rob \in Seq(Entries) /\ f.q \in Seq(Entries) /\ new \in Seq(Entries)
      BY <1>1, <2>5 DEF Shape
    <3> HIDE DEF end
    <3>2. rob \o f.q \in Seq(Entries)
      BY <3>1
    <3>3. (rob \o f.q) \o new = rob \o (f.q \o new)
      BY <3>1, Rejoin, Zenon
    <3> QED BY <3>1, <3>2, <3>3
  <2>15. Connected(rob \o f.q, arch.next)
    BY DEF OnThePath
  <2>16. /\ Connected((rob \o f.q) \o new, arch.next)
         /\ Follow((rob \o f.q) \o new, arch.next, Len((rob \o f.q) \o new)) = next
    BY <2>8, <2>9, <2>14, <2>15, Longer
  <2>17. OnThePath(rob, fe2, arch.next)
    <3> HIDE DEF end
    <3> QED BY <2>7, <2>12, <2>14, <2>16, Zenon DEF OnThePath, Continues
  <2> QED BY <2>10, <2>11, <2>12, <2>13, <2>17 DEF c
<1> QED BY <1>2, <1>3

(* A request goes where the path continues.                                *)
LEMMA RequestKeeps ==
  ASSUME NEW f \in Fetches, OnThePath(rob, f, arch.next), MayRequest(f)
  PROVE  LET g == Requested(f)
         IN  g \in Fetches /\ OnThePath(rob, g, arch.next) /\ g.outstanding
<1> DEFINE g == Requested(f)
<1>1. f.pc \in Nat /\ f.pc \in Pcs
  BY FrontEndAssumption DEF MayRequest, Fetches, Pcs
<1>2. g \in Fetches
  BY <1>1 DEF Requested, Fetches
<1>3. /\ g.q = f.q /\ g.pc = f.pc /\ g.fetchPc = f.pc /\ g.outstanding = TRUE
      /\ g.stale = f.stale /\ g.pend = f.pend /\ g.target = f.target
  BY DEF Requested, Fetches
<1>4. ~f.pend /\ ~f.outstanding
  BY DEF MayRequest, Idle
<1> HIDE DEF g
<1>5. OnThePath(rob, g, arch.next) /\ g.outstanding
  BY <1>3, <1>4, Zenon DEF OnThePath, Continues
<1> QED BY <1>2, <1>5 DEF g

(* A squash to where what is left of the stream goes.                      *)
LEMMA SquashKeeps ==
  ASSUME Shape, fe.stale => fe.outstanding, NEW r \in Seq(Entries), NEW n,
         Connected(r, n), NEW t \in Nat, Follow(r, n, Len(r)) = t
  PROVE  LET g == Squashed(fe, t)
         IN  g \in Fetches /\ OnThePath(r, g, n) /\ g.outstanding = fe.outstanding
<1> DEFINE g == Squashed(fe, t)
<1>1. fe \in Fetches
  BY DEF Shape
<1>2. g \in Fetches
  <2>1. <<>> \in Seq(Entries) /\ (fe.stale \/ fe.outstanding) \in BOOLEAN
    OBVIOUS
  <2> QED BY <1>1, <2>1 DEF Squashed, Fetches
<1>3. /\ g.q = <<>> /\ g.pend = TRUE /\ g.target = t /\ g.outstanding = fe.outstanding
      /\ g.stale = (fe.stale \/ fe.outstanding)
  BY <1>1 DEF Squashed, Fetches
<1> HIDE DEF g
<1>4. r \o g.q = r
  BY <1>3
<1>5. OnThePath(r, g, n)
  <2>1. Continues(g, t)
    BY <1>3, Zenon DEF Continues
  <2> QED BY <1>4, <2>1 DEF OnThePath
<1> QED BY <1>2, <1>3, <1>5 DEF g

LEMMA NextInNat ==
  ASSUME NEW e \in Entries
  PROVE  NextOf(e) \in Nat
<1>1. e.pc + 1 \in Nat /\ e.target \in Nat /\ e.actual.next \in Nat
  BY FrontEndAssumption DEF Entries, Outs, Pcs
<1> QED BY <1>1 DEF NextOf

(* What is left to show of a step that rewrites no code.                   *)
LEMMA Keeps ==
  ASSUME FrontInv, UNCHANGED text, rob' \in Seq(Entries), fe' \in Fetches,
         pr' \in Predictors, arch'.next \in Nat, OnThePath(rob', fe', arch'.next),
         ready' => fe'.outstanding, Stopped'
  PROVE  FrontInv'
<1>1. code' = code /\ trained' = trained
  BY DEF text
<1>2. Shape'
  BY <1>1 DEF FrontInv, Shape
<1>3. OnThePath(rob, fe, arch.next)'
  BY <1>1 DEF OnThePath, Connected, Continues, Follow, NextOf, Outcomes
<1>4. Training'
  BY <1>1 DEF FrontInv, Training
<1> QED BY <1>2, <1>3, <1>4 DEF FrontInv
-----------------------------------------------------------------------------
(* The steps *)

LEMMA AnswerKeeps ==
  ASSUME FrontInv, NEW a \in AfterAnswer
  PROVE  a.fe \in Fetches /\ a.pr \in Predictors /\ OnThePath(rob, a.fe, arch.next)
<1>1. fe \in Fetches /\ pr \in Predictors /\ Shape /\ Training /\ OnThePath(rob, fe, arch.next)
  BY DEF FrontInv, Shape
<1>2. CASE ready
  <2>1. PICK c \in BlockChoices(fe.fetchPc) : a = Consume(fe, pr, c)
    BY <1>2 DEF AfterAnswer
  <2>2. fe.outstanding
    BY <1>2 DEF FrontInv
  <2> QED BY <1>1, <2>1, <2>2, ConsumeKeeps
<1>3. CASE ~ready
  BY <1>1, <1>3 DEF AfterAnswer
<1> QED BY <1>2, <1>3

LEMMA FetchStageKeeps ==
  ASSUME FrontInv, FetchStage
  PROVE  FrontInv'
<1>1. /\ stage = "fetch" /\ stage' = "edge" /\ UNCHANGED <<rob, text, arch>>
      /\ ready' = FALSE
  BY DEF FetchStage
<1>2. Shape /\ Training /\ ~fault
  BY <1>1 DEF FrontInv, Stopped
<1>3. rob' \in Seq(Entries) /\ arch'.next \in Nat
  BY <1>1, <1>2 DEF Shape
<1>4. SUFFICES /\ fe' \in Fetches /\ pr' \in Predictors /\ OnThePath(rob, fe', arch.next)
               /\ Stopped'
  BY <1>1, <1>3, Keeps
<1>5. ASSUME fault' = fault PROVE Stopped'
  BY <1>2, <1>5 DEF Stopped
<1>6. ASSUME NEW a \in AfterAnswer, ~Faults(a.fe, rob), fe' = a.fe, pr' = a.pr,
             UNCHANGED fault
      PROVE  /\ fe' \in Fetches /\ pr' \in Predictors /\ OnThePath(rob, fe', arch.next)
             /\ Stopped'
  BY <1>5, <1>6, AnswerKeeps
<1>7. ASSUME NEW a \in AfterAnswer, Faults(a.fe, rob), fe' = a.fe, pr' = a.pr
      PROVE  /\ fe' \in Fetches /\ pr' \in Predictors /\ OnThePath(rob, fe', arch.next)
             /\ Stopped'
  <2>1. /\ fe' \in Fetches /\ pr' \in Predictors /\ OnThePath(rob, fe', arch.next)
    BY <1>7, AnswerKeeps
  <2>2. rob = <<>> /\ fe'.q = <<>> /\ fe'.pc >= Words /\ ~fe'.pend
    BY <1>7 DEF Faults, Idle
  <2>3. rob \o fe'.q = <<>> /\ Len(rob \o fe'.q) = 0
    BY <2>2
  <2>4. Follow(rob \o fe'.q, arch.next, Len(rob \o fe'.q)) = arch.next
    BY <2>3 DEF Follow
  <2>5. fe'.pc = arch.next
    BY <2>1, <2>2, <2>4 DEF OnThePath, Continues
  <2>6. Stopped'
    BY <1>1, <2>2, <2>5 DEF Stopped, FaultIsReal
  <2> QED BY <2>1, <2>6
<1>8. ASSUME NEW a \in AfterAnswer, MayRequest(a.fe), fe' = Requested(a.fe), pr' = a.pr,
             UNCHANGED fault
      PROVE  /\ fe' \in Fetches /\ pr' \in Predictors /\ OnThePath(rob, fe', arch.next)
             /\ Stopped'
  BY <1>5, <1>8, AnswerKeeps, RequestKeeps
<1>9. ASSUME NEW a \in AfterAnswer, MayRequest(a.fe), NEW c \in BlockChoices(a.fe.pc),
             fe' = Consume(Requested(a.fe), a.pr, c).fe,
             pr' = Consume(Requested(a.fe), a.pr, c).pr, UNCHANGED fault
      PROVE  /\ fe' \in Fetches /\ pr' \in Predictors /\ OnThePath(rob, fe', arch.next)
             /\ Stopped'
  <2> DEFINE g == Requested(a.fe)
  <2>1. a.fe \in Fetches /\ a.pr \in Predictors /\ OnThePath(rob, a.fe, arch.next)
    BY AnswerKeeps
  <2>2. g \in Fetches /\ OnThePath(rob, g, arch.next) /\ g.outstanding
    BY <1>9, <2>1, RequestKeeps
  <2>3. g.fetchPc = a.fe.pc
    BY <2>1 DEF Requested, Fetches
  <2> HIDE DEF g
  <2>4. c \in BlockChoices(g.fetchPc)
    BY <2>3
  <2>5. Consume(g, a.pr, c).fe \in Fetches /\ Consume(g, a.pr, c).pr \in Predictors
        /\ OnThePath(rob, Consume(g, a.pr, c).fe, arch.next)
    BY <1>2, <2>1, <2>2, <2>4, ConsumeKeeps
  <2> QED BY <1>5, <1>9, <2>5 DEF g
<1> QED BY <1>6, <1>7, <1>8, <1>9 DEF FetchStage

LEMMA EdgeKeeps ==
  ASSUME FrontInv, Edge
  PROVE  FrontInv'
<1>1. /\ Shape /\ OnThePath(rob, fe, arch.next) /\ fe \in Fetches
      /\ UNCHANGED <<pr, rob, blocks, text, arch, fault>> /\ ~fault
      /\ ready' \in {FALSE, fe.outstanding}
  BY DEF Edge, FrontInv, Shape
<1>2. /\ rob' \in Seq(Entries) /\ pr' \in Predictors /\ arch'.next \in Nat /\ Stopped'
  BY <1>1 DEF Shape, Stopped
<1>3. fe' \in Fetches /\ fe'.outstanding = fe.outstanding /\ OnThePath(rob, fe', arch.next)
  <2>1. CASE fe.pend
    <3>1. fe' = [fe EXCEPT !.pc = fe.target, !.pend = FALSE, !.stale = @ \/ fe.outstanding]
      BY <2>1 DEF Edge
    <3>2. fe' \in Fetches
      <4>1. (fe.stale \/ fe.outstanding) \in BOOLEAN
        OBVIOUS
      <4> QED BY <1>1, <3>1, <4>1 DEF Fetches
    <3>3. /\ fe'.q = fe.q /\ fe'.pc = fe.target /\ fe'.pend = FALSE
          /\ fe'.stale = (fe.stale \/ fe.outstanding) /\ fe'.outstanding = fe.outstanding
      BY <1>1, <3>1 DEF Fetches
    <3>4. OnThePath(rob, fe', arch.next)
      BY <1>1, <2>1, <3>3, Zenon DEF OnThePath, Continues
    <3> QED BY <3>2, <3>3, <3>4
  <2>2. CASE ~fe.pend
    <3>1. fe' = fe
      BY <2>2 DEF Edge
    <3> QED BY <1>1, <3>1
  <2> QED BY <2>1, <2>2
<1>4. ready' => fe'.outstanding
  BY <1>1, <1>3, Zenon
<1>5. OnThePath(rob', fe', arch'.next)
  BY <1>1, <1>3
<1> QED BY <1>1, <1>2, <1>3, <1>4, <1>5, Keeps

LEMMA CommitKeeps ==
  ASSUME FrontInv, CommitHead
  PROVE  FrontInv'
<1> DEFINE s == rob \o fe.q
<1>1. /\ OnThePath(rob, fe, arch.next) /\ rob \in Seq(Entries) /\ fe \in Fetches
      /\ fe.q \in Seq(Entries) /\ pr \in Predictors /\ ~fault /\ rob # <<>>
      /\ rob' = Tail(rob) /\ UNCHANGED <<stage, fe, pr, ready, blocks, text, fault>>
      /\ arch'.next = NextOf(rob[1])
  BY DEF CommitHead, FrontInv, Shape, Fetches, Stopped
<1>2. rob[1] \in Entries /\ rob' \in Seq(Entries)
  BY <1>1
<1>3. s \in Seq(Entries) /\ s # <<>> /\ s[1] = rob[1]
  BY <1>1
<1>4. Tail(s) = Tail(rob) \o fe.q
  BY <1>1
<1> HIDE DEF s
<1>5. /\ Connected(Tail(s), NextOf(s[1]))
      /\ Follow(Tail(s), NextOf(s[1]), Len(Tail(s))) = Follow(s, arch.next, Len(s))
  <2>1. Connected(s, arch.next)
    BY <1>1 DEF OnThePath, s
  <2> QED BY <1>3, <2>1, Later
<1>6. Continues(fe, Follow(s, arch.next, Len(s)))
  BY <1>1 DEF OnThePath, s
<1>7. OnThePath(rob', fe', arch'.next)
  BY <1>1, <1>3, <1>4, <1>5, <1>6 DEF OnThePath
<1>8. arch'.next \in Nat
  BY <1>1, <1>2, NextInNat
<1>9. (ready' => fe'.outstanding) /\ Stopped'
  BY <1>1 DEF FrontInv, Stopped
<1> QED BY <1>1, <1>2, <1>7, <1>8, <1>9, Keeps

LEMMA DispatchKeeps ==
  ASSUME FrontInv, Dispatch
  PROVE  FrontInv'
<1>1. /\ OnThePath(rob, fe, arch.next) /\ rob \in Seq(Entries) /\ fe \in Fetches
      /\ fe.q \in Seq(Entries) /\ pr \in Predictors /\ ~fault /\ fe.q # <<>>
      /\ rob' = Append(rob, Head(fe.q)) /\ UNCHANGED <<pr, ready, text, arch, fault>>
      /\ fe' = [fe EXCEPT !.q = Tail(fe.q)] /\ arch.next \in Nat
  BY DEF Dispatch, FrontInv, Shape, Fetches, Stopped
<1>2. rob' \in Seq(Entries) /\ Tail(fe.q) \in Seq(Entries)
      /\ rob' \o Tail(fe.q) = rob \o fe.q
  <2> DEFINE h == <<Head(fe.q)>>
             t == Tail(fe.q)
  <2>1. /\ rob' \in Seq(Entries) /\ h \in Seq(Entries) /\ t \in Seq(Entries)
        /\ rob' = rob \o h
    BY <1>1
  <2>2. h \o t = fe.q
    BY <1>1
  <2> HIDE DEF h, t
  <2>3. (rob \o h) \o t = rob \o (h \o t)
    BY <1>1, <2>1, Rejoin, Zenon
  <2> QED BY <2>1, <2>2, <2>3 DEF t
<1>3. fe' \in Fetches
  BY <1>1, <1>2 DEF Fetches
<1>4. /\ fe'.q = Tail(fe.q) /\ fe'.pc = fe.pc /\ fe'.outstanding = fe.outstanding
      /\ fe'.stale = fe.stale /\ fe'.fetchPc = fe.fetchPc /\ fe'.pend = fe.pend
      /\ fe'.target = fe.target
  BY <1>1 DEF Fetches
<1>5. OnThePath(rob', fe', arch'.next)
  <2>1. OnThePath(rob', fe', arch.next)
    BY <1>1, <1>2, <1>4, Zenon DEF OnThePath, Continues
  <2> QED BY <1>1, <2>1
<1>6. (ready' => fe'.outstanding) /\ Stopped'
  BY <1>1, <1>4 DEF FrontInv, Stopped
<1> QED BY <1>1, <1>2, <1>3, <1>5, <1>6, Keeps

LEMMA EndStageKeeps ==
  ASSUME FrontInv, EndStage
  PROVE  FrontInv'
<1>1. /\ Shape /\ OnThePath(rob, fe, arch.next) /\ ~fault
      /\ UNCHANGED <<fe, pr, rob, ready, blocks, text, arch, fault>>
  BY DEF EndStage, StageAfter, FrontInv, Stopped
<1>2. /\ rob' \in Seq(Entries) /\ fe' \in Fetches /\ pr' \in Predictors
      /\ arch'.next \in Nat /\ Stopped' /\ (ready' => fe'.outstanding)
  BY <1>1 DEF Shape, FrontInv, Stopped
<1>3. OnThePath(rob', fe', arch'.next)
  BY <1>1
<1> QED BY <1>1, <1>2, <1>3, Keeps

LEMMA ViolateKeeps ==
  ASSUME FrontInv, NEW k \in 1 .. Len(rob), Violate(k)
  PROVE  FrontInv'
<1> DEFINE s == rob \o fe.q
           r == SubSeq(rob, 1, k - 1)
<1>1. /\ Shape /\ OnThePath(rob, fe, arch.next) /\ rob \in Seq(Entries) /\ fe \in Fetches
      /\ fe.q \in Seq(Entries) /\ pr \in Predictors /\ ~fault /\ (fe.stale => fe.outstanding)
      /\ rob' = r /\ UNCHANGED <<stage, ready, blocks, text, arch, fault>>
      /\ pr' = Restore(pr, rob[k]) /\ fe' = Squashed(fe, rob[k].pc) /\ arch.next \in Nat
  BY DEF Violate, FrontInv, Shape, Fetches, Stopped, OnThePath, Continues
<1>2. rob[k] \in Entries /\ r \in Seq(Entries) /\ rob[k].pc \in Nat
  <2>1. rob[k] \in Entries /\ r \in Seq(Entries)
    BY <1>1
  <2> QED BY <2>1 DEF Entries, Pcs
<1>3. /\ s \in Seq(Entries) /\ s[k] = rob[k] /\ SubSeq(s, 1, k - 1) = r
      /\ k \in 1 .. Len(s) /\ k - 1 \in 0 .. Len(s)
  BY <1>1
<1>4. Connected(s, arch.next)
  BY <1>1 DEF OnThePath
<1> HIDE DEF s, r
<1>5. Connected(r, arch.next) /\ Follow(r, arch.next, Len(r)) = rob[k].pc
  <2>1. /\ Connected(r, arch.next) /\ Len(r) = k - 1
        /\ Follow(r, arch.next, k - 1) = Follow(s, arch.next, k - 1)
    BY <1>3, <1>4, Shorter
  <2>2. s[k].pc = Follow(s, arch.next, k - 1)
    BY <1>3, <1>4 DEF Connected
  <2> QED BY <1>3, <2>1, <2>2
<1>6. fe' \in Fetches /\ OnThePath(r, fe', arch.next) /\ fe'.outstanding = fe.outstanding
  BY <1>1, <1>2, <1>5, SquashKeeps
<1>7. pr' \in Predictors
  <2>1. rob[k].hist \in Nat /\ rob[k].rasN \in Nat
    BY <1>2 DEF Entries
  <2> QED BY <1>1, <2>1 DEF Restore, Predictors
<1>8. (ready' => fe'.outstanding) /\ Stopped'
  BY <1>1, <1>6 DEF FrontInv, Stopped
<1>9. OnThePath(rob', fe', arch'.next)
  BY <1>1, <1>6
<1> QED BY <1>1, <1>2, <1>6, <1>7, <1>8, <1>9, Keeps

(* An entry may change as long as it still goes where it went.             *)
LEMMA SameWay ==
  ASSUME NEW s \in Seq(Entries), NEW t \in Seq(Entries), NEW n, Connected(s, n),
         Len(t) = Len(s),
         \A k \in 1 .. Len(s) : /\ t[k].pc = s[k].pc /\ t[k].taken = s[k].taken
                                /\ NextOf(t[k]) = NextOf(s[k])
  PROVE  Connected(t, n) /\ Follow(t, n, Len(t)) = Follow(s, n, Len(s))
<1>1. \A k \in 0 .. Len(s) : Follow(t, n, k) = Follow(s, n, k)
  <2> SUFFICES ASSUME NEW k \in 0 .. Len(s) PROVE Follow(t, n, k) = Follow(s, n, k)
    OBVIOUS
  <2>1. k # 0 => k \in 1 .. Len(s)
    OBVIOUS
  <2> QED BY <2>1 DEF Follow
<1>2. Len(s) \in 0 .. Len(s) /\ \A k \in 1 .. Len(s) : k - 1 \in 0 .. Len(s)
  OBVIOUS
<1>3. \A k \in 1 .. Len(t) : Follow(t, n, k - 1) = Follow(s, n, k - 1)
  BY <1>1, <1>2
<1> QED BY <1>1, <1>2, <1>3 DEF Connected

(* A branch that resolves as predicted goes where it went; one that does   *)
(* not takes what is behind it with it.                                    *)
LEMMA ResolveKeeps ==
  ASSUME FrontInv, NEW k \in 1 .. Len(rob), Resolve(k)
  PROVE  FrontInv'
<1> DEFINE e == rob[k]
           s == rob \o fe.q
<1>1. PICK o \in Outcomes(e.pc) :
        LET r == [rob EXCEPT ![k].resolved = TRUE, ![k].actual = o]
        IN  IF Mispredicted(e, o)
            THEN /\ rob' = SubSeq(r, 1, k)
                 /\ pr' = Apply(Restore(pr, e), ReplayEffect(e, o.taken))
                 /\ fe' = Squashed(fe, o.next)
                 /\ stage' = "agu"
            ELSE rob' = r /\ UNCHANGED <<pr, fe, stage>>
  BY DEF Resolve
<1> DEFINE d == [e EXCEPT !.resolved = TRUE, !.actual = o]
           r == [rob EXCEPT ![k] = d]
<1>2. /\ Shape /\ OnThePath(rob, fe, arch.next) /\ rob \in Seq(Entries) /\ fe \in Fetches
      /\ fe.q \in Seq(Entries) /\ pr \in Predictors /\ ~fault /\ (fe.stale => fe.outstanding)
      /\ UNCHANGED <<ready, blocks, text, arch, fault>> /\ arch.next \in Nat /\ ~e.resolved
  BY DEF Resolve, FrontInv, Shape, Fetches, Stopped, OnThePath, Continues
<1>3. e \in Entries /\ e.pc \in Pcs
  <2>1. e \in Entries
    BY <1>2
  <2> HIDE DEF e
  <2> QED BY <2>1 DEF Entries
<1>4. o \in Outs /\ (~o.taken => o.next = e.pc + 1) /\ Outcomes(e.pc) # {}
  <2> HIDE DEF e
  <2> QED BY <1>2, <1>3, OutcomesOf
<1>5. /\ d \in Entries /\ d.pc = e.pc /\ d.taken = e.taken /\ d.resolved = TRUE /\ d.actual = o
  <2> HIDE DEF e
  <2> QED BY <1>3, <1>4 DEF Entries
<1>6. [rob EXCEPT ![k].resolved = TRUE, ![k].actual = o] = r
  BY <1>2
<1>7. r \in Seq(Entries) /\ Len(r) = Len(rob) /\ r[k] = d
      /\ \A j \in 1 .. Len(rob) : j # k => r[j] = rob[j]
  <2> HIDE DEF d
  <2> QED BY <1>2, <1>5
<1>8. NextOf(d) = o.next /\ o.next \in Nat
  BY <1>4, <1>5, Zenon DEF NextOf, Outs
<1>9. s \in Seq(Entries) /\ Len(s) = Len(rob) + Len(fe.q)
      /\ \A j \in 1 .. Len(rob) : s[j] = rob[j] /\ j \in 1 .. Len(s)
  BY <1>2
<1>10. Connected(s, arch.next)
  BY <1>2 DEF OnThePath
<1>11. CASE Mispredicted(e, o)
  <2> DEFINE b == SubSeq(s, 1, k - 1)
             t == SubSeq(r, 1, k)
  <2>1. /\ rob' = t /\ pr' = Apply(Restore(pr, e), ReplayEffect(e, o.taken))
        /\ fe' = Squashed(fe, o.next)
    BY <1>1, <1>6, <1>11
  <2>2. b \in Seq(Entries) /\ t \in Seq(Entries) /\ t = b \o <<d>> /\ <<d>> \in Seq(Entries)
    <3> HIDE DEF d, r, s
    <3>1. k \in Nat /\ k - 1 \in 0 .. Len(s) /\ k \in 0 .. Len(r)
      BY <1>7, <1>9
    <3>2. b \in Seq(Entries) /\ t \in Seq(Entries) /\ <<d>> \in Seq(Entries)
      BY <1>5, <1>7, <1>9, <3>1
    <3>3. Len(b) = k - 1 /\ Len(t) = k /\ (\A j \in 1 .. k - 1 : b[j] = s[j])
          /\ \A j \in 1 .. k : t[j] = r[j]
      BY <1>7, <1>9, <3>1
    <3>4. \A j \in 1 .. k - 1 : b[j] = t[j]
      BY <1>7, <1>9, <3>3
    <3>5. t[k] = d
      BY <1>7, <3>1, <3>3
    <3> HIDE DEF b, t
    <3>6. /\ b \o <<d>> \in Seq(Entries) /\ Len(b \o <<d>>) = k
          /\ \A j \in 1 .. k : (b \o <<d>>)[j] = t[j]
      BY <3>1, <3>2, <3>3, <3>4, <3>5
    <3> QED BY <3>2, <3>3, <3>6, SeqEqual
  <2> HIDE DEF b, t
  <2>3. /\ Connected(b, arch.next) /\ Len(b) = k - 1
        /\ Follow(b, arch.next, Len(b)) = e.pc /\ (e.taken => Branch(code[e.pc].kind))
    <3> HIDE DEF s
    <3>1. k - 1 \in 0 .. Len(s) /\ k \in 1 .. Len(s) /\ s[k] = e
      BY <1>9
    <3>2. /\ Connected(b, arch.next) /\ Len(b) = k - 1
          /\ Follow(b, arch.next, k - 1) = Follow(s, arch.next, k - 1)
      BY <1>9, <1>10, <3>1, Shorter DEF b
    <3> QED BY <1>10, <3>1, <3>2 DEF Connected
  <2>4. \A i \in 1 .. Len(<<d>>) :
          /\ <<d>>[i].pc = Follow(<<d>>, Follow(b, arch.next, Len(b)), i - 1)
          /\ <<d>>[i].taken => Branch(code[<<d>>[i].pc].kind)
    <3> HIDE DEF d, e
    <3>1. \A i \in 1 .. Len(<<d>>) : i = 1 /\ i - 1 = 0 /\ <<d>>[i] = d
      OBVIOUS
    <3> QED BY <1>5, <2>3, <3>1 DEF Follow
  <2>5. Connected(t, arch.next) /\ Follow(t, arch.next, Len(t)) = o.next
    <3>1. /\ Connected(t, arch.next)
          /\ Follow(t, arch.next, Len(t)) = Follow(<<d>>, Follow(b, arch.next, Len(b)), Len(<<d>>))
      <4> HIDE DEF d
      <4> QED BY <2>2, <2>3, <2>4, Longer
    <3> HIDE DEF d
    <3>2. Len(<<d>>) = 1 /\ <<d>>[1] = d
      OBVIOUS
    <3> QED BY <1>8, <3>1, <3>2 DEF Follow
  <2>6. fe' \in Fetches /\ OnThePath(t, fe', arch.next) /\ fe'.outstanding = fe.outstanding
    BY <1>2, <1>8, <2>1, <2>2, <2>5, SquashKeeps
  <2>7. pr' \in Predictors
    <3>1. e.hist \in Nat /\ e.rasN \in Nat
      BY <1>3 DEF Entries
    <3>2. Restore(pr, e) \in Predictors
      BY <1>2, <3>1 DEF Restore, Predictors
    <3> QED BY <2>1, <3>2, ApplyTypes
  <2>8. (ready' => fe'.outstanding) /\ Stopped'
    BY <1>2, <2>6 DEF FrontInv, Stopped
  <2>9. OnThePath(rob', fe', arch'.next) /\ rob' \in Seq(Entries) /\ arch'.next \in Nat
    BY <1>2, <2>1, <2>2, <2>6
  <2> QED BY <1>2, <2>6, <2>7, <2>8, <2>9, Keeps
<1>12. CASE ~Mispredicted(e, o)
  <2>1. rob' = r /\ UNCHANGED <<pr, fe, stage>>
    BY <1>1, <1>6, <1>12
  <2>2. NextOf(d) = NextOf(e)
    <3>1. o.taken = e.taken /\ (o.taken => o.next = e.target)
      BY <1>12 DEF Mispredicted
    <3>2. NextOf(e) = IF e.taken THEN e.target ELSE e.pc + 1
      BY <1>2, <1>4 DEF NextOf
    <3> QED BY <1>4, <1>8, <3>1, <3>2
  <2> DEFINE u == r \o fe.q
  <2>3. u \in Seq(Entries) /\ Len(u) = Len(s)
        /\ \A j \in 1 .. Len(s) : u[j] = IF j = k THEN d ELSE s[j]
    <3> HIDE DEF d, r
    <3>1. u \in Seq(Entries) /\ Len(u) = Len(s)
      <4>1. r \in Seq(Entries) /\ fe.q \in Seq(Entries)
        BY <1>2, <1>7
      <4>2. u \in Seq(Entries) /\ Len(u) = Len(r) + Len(fe.q)
        BY <4>1
      <4> HIDE DEF u, s
      <4> QED BY <1>7, <1>9, <4>2
    <3>2. \A j \in 1 .. Len(s) : u[j] = IF j = k THEN d ELSE s[j]
      BY <1>2, <1>7, <1>9
    <3> QED BY <3>1, <3>2
  <2>4. s[k] = e
    BY <1>9
  <2> HIDE DEF u, s, d, e, r
  <2>5. \A j \in 1 .. Len(s) : /\ u[j].pc = s[j].pc /\ u[j].taken = s[j].taken
                               /\ NextOf(u[j]) = NextOf(s[j])
    BY <1>5, <2>2, <2>3, <2>4
  <2>6. Connected(u, arch.next) /\ Follow(u, arch.next, Len(u)) = Follow(s, arch.next, Len(s))
    BY <1>9, <1>10, <2>3, <2>5, SameWay
  <2>7. OnThePath(r, fe, arch.next)
    BY <1>2, <2>6 DEF OnThePath, u, s
  <2>8. /\ rob' \in Seq(Entries) /\ fe' \in Fetches /\ pr' \in Predictors
        /\ arch'.next \in Nat /\ OnThePath(rob', fe', arch'.next)
        /\ (ready' => fe'.outstanding) /\ Stopped'
    BY <1>2, <1>7, <2>1, <2>7 DEF FrontInv, Stopped
  <2> QED BY <1>2, <2>8, Keeps
<1> QED BY <1>11, <1>12

(* A rewrite touches nothing in flight, and no branch becomes a word that  *)
(* falls through.                                                          *)
LEMMA RewriteKeeps ==
  ASSUME FrontInv, BranchesStay, NEW P \in Patches, Rewrite(P)
  PROVE  FrontInv'
<1> DEFINE I == Instr(P.kind, P.target)
           s == rob \o fe.q
<1>1. /\ Shape /\ OnThePath(rob, fe, arch.next) /\ Training /\ rob = <<>> /\ ~fault
      /\ \A i \in 1 .. Len(fe.q) : fe.q[i].pc # P.pc
      /\ code' = [code EXCEPT ![P.pc] = I]
      /\ trained' = [trained EXCEPT ![P.pc] = @ \cup {I}]
      /\ UNCHANGED <<stage, fe, pr, rob, ready, blocks, arch, fault>>
  BY DEF Rewrite, FrontInv, Stopped
<1>2. /\ P.pc \in Pcs /\ I \in Instrs /\ I.kind = P.kind
  <2>1. P.pc \in Pcs /\ P.kind \in Kinds /\ P.target \in Nat
    BY FrontEndAssumption
  <2> QED BY <2>1 DEF Instr, Instrs
<1>3. /\ code \in [Pcs -> Instrs] /\ trained \in [Pcs -> SUBSET Instrs]
      /\ fe \in Fetches /\ fe.q \in Seq(Entries)
  BY <1>1 DEF Shape, Fetches
<1> HIDE DEF I
<1>4. /\ code' \in [Pcs -> Instrs] /\ trained' \in [Pcs -> SUBSET Instrs]
      /\ code'[P.pc] = I /\ trained'[P.pc] = trained[P.pc] \cup {I}
      /\ \A w \in Pcs : w # P.pc => code'[w] = code[w] /\ trained'[w] = trained[w]
  BY <1>1, <1>2, <1>3
<1>5. Shape'
  BY <1>1, <1>4 DEF Shape
<1>6. Training'
  <2> SUFFICES ASSUME NEW w \in Pcs
               PROVE  /\ trained'[w] \subseteq Held(w) /\ code'[w] \in trained'[w]
                      /\ \A J \in trained'[w] : Branch(J.kind) => Branch(code'[w].kind)
    BY DEF Training
  <2>1. CASE w = P.pc
    <3>1. I \in Held(w)
      BY <2>1 DEF Held, I
    <3>2. trained'[w] \subseteq Held(w) /\ code'[w] = I /\ I \in trained'[w]
      BY <1>1, <1>4, <2>1, <3>1 DEF Training
    <3>3. Branch(I.kind) \/ \A J \in Held(w) : ~Branch(J.kind)
      BY <1>2, <2>1 DEF BranchesStay
    <3> QED BY <3>2, <3>3
  <2>2. CASE w # P.pc
    BY <1>1, <1>4, <2>2 DEF Training
  <2> QED BY <2>1, <2>2
<1>7. OnThePath(rob, fe, arch.next)'
  <2>1. s \in Seq(Entries) /\ s = fe.q /\ s' = s
    BY <1>1, <1>3
  <2>2. ASSUME NEW k \in 1 .. Len(s)
        PROVE  code'[s[k].pc] = code[s[k].pc]
    <3>1. s[k] \in Entries /\ s[k].pc # P.pc
      BY <1>1, <2>1
    <3>2. s[k].pc \in Pcs
      BY <3>1 DEF Entries
    <3> QED BY <1>4, <3>1, <3>2
  <2> HIDE DEF s
  <2>3. \A k \in 1 .. Len(s) : NextOf(s[k])' = NextOf(s[k])
    BY <2>1, <2>2 DEF NextOf, Outcomes
  <2>4. \A k \in 0 .. Len(s) : Follow(s, arch.next, k)' = Follow(s, arch.next, k)
    <3> SUFFICES ASSUME NEW k \in 0 .. Len(s)
                 PROVE  Follow(s, arch.next, k)' = Follow(s, arch.next, k)
      OBVIOUS
    <3>1. k # 0 => k \in 1 .. Len(s)
      BY <2>1
    <3> QED BY <1>1, <2>1, <2>3, <3>1 DEF Follow
  <2>5. Connected(s, arch.next) /\ Continues(fe, Follow(s, arch.next, Len(s)))
    BY <1>1 DEF OnThePath, s
  <2>6. Connected(s, arch.next)'
    <3> SUFFICES ASSUME NEW k \in 1 .. Len(s)
                 PROVE  /\ s[k].pc = Follow(s, arch.next, k - 1)'
                        /\ s[k].taken => Branch(code'[s[k].pc].kind)
      BY <2>1 DEF Connected
    <3>1. k - 1 \in 0 .. Len(s)
      BY <2>1
    <3>2. s[k].pc = Follow(s, arch.next, k - 1) /\ (s[k].taken => Branch(code[s[k].pc].kind))
      BY <2>5 DEF Connected
    <3> QED BY <2>2, <2>4, <3>1, <3>2
  <2>7. Continues(fe, Follow(s, arch.next, Len(s)))'
    <3>1. Len(s) = 0 \/ Len(s) \in 1 .. Len(s)
      BY <2>1
    <3>2. Follow(s, arch.next, Len(s))' = Follow(s, arch.next, Len(s))
      BY <1>1, <2>1, <2>3, <3>1 DEF Follow
    <3> QED BY <1>1, <2>5, <3>2 DEF Continues
  <2> QED BY <2>6, <2>7 DEF OnThePath, s
<1>8. (ready' => fe'.outstanding) /\ Stopped'
  BY <1>1 DEF FrontInv, Stopped
<1> QED BY <1>5, <1>6, <1>7, <1>8 DEF FrontInv
-----------------------------------------------------------------------------
(* The theorems *)

LEMMA FrontInit == FInit => FrontInv
<1> SUFFICES ASSUME FInit PROVE FrontInv
  OBVIOUS
<1>1. /\ rob = <<>> /\ ~fault /\ ~ready /\ arch.next = 0
      /\ fe = [pc |-> 0, outstanding |-> FALSE, stale |-> FALSE, fetchPc |-> 0,
               q |-> <<>>, pend |-> FALSE, target |-> 0]
      /\ code = [w \in Pcs |-> Instr(Kind[w], Target[w])]
      /\ trained = [w \in Pcs |-> {code[w]}]
  BY DEF FInit
<1>2. code \in [Pcs -> Instrs] /\ trained \in [Pcs -> SUBSET Instrs]
  <2>1. \A w \in Pcs : Instr(Kind[w], Target[w]) \in Instrs
    BY FrontEndAssumption DEF Instr, Instrs
  <2> QED BY <1>1, <2>1
<1>3. Shape
  <2>1. 0 \in Pcs
    BY FrontEndAssumption DEF Pcs
  <2>2. fe \in Fetches
    <3>1. <<>> \in Seq(Entries)
      OBVIOUS
    <3> QED BY <1>1, <2>1, <3>1 DEF Fetches
  <2>3. pr \in Predictors
    BY DEF FInit, Predictors
  <2>4. rob \in Seq(Entries) /\ arch.next \in Nat
    BY <1>1
  <2> QED BY <1>2, <2>2, <2>3, <2>4 DEF Shape
<1>4. OnThePath(rob, fe, arch.next)
  <2>1. rob \o fe.q = <<>> /\ Len(rob \o fe.q) = 0
    BY <1>1
  <2>2. Connected(rob \o fe.q, arch.next)
    BY <2>1 DEF Connected
  <2>3. Continues(fe, 0)
    BY <1>1 DEF Continues
  <2>4. Follow(rob \o fe.q, arch.next, Len(rob \o fe.q)) = 0
    BY <1>1, <2>1 DEF Follow
  <2> QED BY <2>2, <2>3, <2>4 DEF OnThePath
<1>5. Training
  BY <1>1, <1>2 DEF Training, Held
<1> QED BY <1>1, <1>3, <1>4, <1>5 DEF FrontInv, Stopped

LEMMA FrontStep ==
  ASSUME BranchesStay, FrontInv, [FNext]_fvars
  PROVE  FrontInv'
<1>1. CASE FetchStage
  BY <1>1, FetchStageKeeps
<1>2. CASE Edge
  BY <1>2, EdgeKeeps
<1>3. CASE CommitHead
  BY <1>3, CommitKeeps
<1>4. CASE Dispatch
  BY <1>4, DispatchKeeps
<1>5. CASE EndStage
  BY <1>5, EndStageKeeps
<1>6. ASSUME NEW k \in 1 .. Len(rob), Resolve(k) PROVE FrontInv'
  BY <1>6, ResolveKeeps
<1>7. ASSUME NEW k \in 1 .. Len(rob), Violate(k) PROVE FrontInv'
  BY <1>7, ViolateKeeps
<1>8. ASSUME NEW P \in Patches, Rewrite(P) PROVE FrontInv'
  BY <1>8, RewriteKeeps
<1>9. CASE UNCHANGED fvars
  <2>1. UNCHANGED <<fe, pr, rob, ready, blocks, text, arch, fault, stage>>
    BY <1>9 DEF fvars
  <2>2. /\ rob' \in Seq(Entries) /\ fe' \in Fetches /\ pr' \in Predictors
        /\ arch'.next \in Nat /\ Stopped' /\ (ready' => fe'.outstanding)
        /\ OnThePath(rob', fe', arch'.next)
    BY <2>1 DEF FrontInv, Shape, Stopped, FaultIsReal
  <2> QED BY <2>1, <2>2, Keeps
<1> QED BY <1>1, <1>2, <1>3, <1>4, <1>5, <1>6, <1>7, <1>8, <1>9 DEF FNext

(* Unless a rewrite turns a branch into something else, whatever is        *)
(* fetched, predicted, resolved, replayed and squashed, the instructions   *)
(* in flight are one path that starts where the committed program is and   *)
(* that fetch continues (processFetch, recover, stepCycle).                *)
THEOREM OnePathAlways ==
  ASSUME BranchesStay
  PROVE  FSpec => []OnePath
<1>1. FrontInv => OnePath
  <2> SUFFICES ASSUME FrontInv PROVE OnePath
    OBVIOUS
  <2>1. \A k : Follow(Stream, arch.next, k)
               = IF k = 0 THEN arch.next ELSE NextOf(Stream[k])
    BY DEF Follow
  <2>2. Connected(Stream, arch.next)
        /\ Continues(fe, Follow(Stream, arch.next, Len(Stream)))
    BY DEF FrontInv, OnThePath, Stream
  <2> QED BY <2>1, <2>2 DEF OnePath, Connected, Continues
<1>2. FrontInv /\ [FNext]_fvars => FrontInv'
  BY FrontStep
<1> QED BY <1>1, <1>2, FrontInit, PTL DEF FSpec

(* A fetch that ends the run is one the committed program makes            *)
(* (failOutOfRange).                                                       *)
THEOREM FaultIsAlwaysReal ==
  ASSUME BranchesStay
  PROVE  FSpec => []FaultIsReal
<1>1. FrontInv => FaultIsReal
  BY DEF FrontInv, Stopped, FaultIsReal
<1>2. FrontInv /\ [FNext]_fvars => FrontInv'
  BY FrontStep
<1> QED BY <1>1, <1>2, FrontInit, PTL DEF FSpec

(* A program that rewrites its own code runs the new code, as long as what *)
(* was a branch stays one (ooo.cpp:261).                                   *)
THEOREM RewrittenBranchesRun ==
  ASSUME BranchesStay
  PROVE  FSpec => RunsTheNewCode
<1>1. FrontInv /\ CommitHead => Head(rob).pc = arch.next
  <2> SUFFICES ASSUME FrontInv, CommitHead PROVE Head(rob).pc = arch.next
    OBVIOUS
  <2> DEFINE s == rob \o fe.q
  <2>1. rob \in Seq(Entries) /\ fe.q \in Seq(Entries) /\ rob # <<>>
    BY DEF FrontInv, Shape, Fetches, CommitHead
  <2>2. Head(rob) = s[1] /\ 1 \in 1 .. Len(s) /\ 1 - 1 = 0
    BY <2>1
  <2>3. Connected(s, arch.next)
    BY DEF FrontInv, OnThePath
  <2> HIDE DEF s
  <2> QED BY <2>2, <2>3 DEF Connected, Follow
<1>2. FrontInv /\ [FNext]_fvars => FrontInv'
  BY FrontStep
<1> QED BY <1>1, <1>2, FrontInit, PTL DEF FSpec, RunsTheNewCode

-----------------------------------------------------------------------------
(* The ring of history bits: pushes, folds and what of them stays live *)

(* The ring holds a window of history and every instruction in flight.     *)
LEMMA RingIsLong ==
  /\ HistRing \in Nat \ {0} /\ MaxHist \in Nat \ {0} /\ RobSize + FetchQSize \in Nat
  /\ HistRing > MaxHist + RobSize + FetchQSize
<1>1. /\ RobSize \in Nat \ {0} /\ MaxHist \in Nat \ {0} /\ FetchQSize \in Nat
  BY FrontEndAssumption
<1> QED BY <1>1 DEF HistRing

(* Positions less than a ring apart do not share a bit.                    *)
LEMMA ApartInRing ==
  ASSUME NEW m \in Int, NEW n \in Int, m < n, n - m < HistRing
  PROVE  m % HistRing # n % HistRing
<1> DEFINE a == m \div HistRing
           b == n \div HistRing
           r == m % HistRing
<1>1. HistRing \in Nat \ {0}
  BY RingIsLong
<1>2. a \in Int /\ r \in Int /\ m = HistRing * a + r
  BY <1>1, Division
<1>3. n % HistRing \in Int /\ b \in Int /\ n = HistRing * b + (n % HistRing)
  BY <1>1, Division
<1> SUFFICES ASSUME n % HistRing = r PROVE FALSE
  OBVIOUS
<1>4. n = HistRing * b + r
  BY <1>3
<1> HIDE DEF a, b, r
<1>5. HistRing * b - HistRing * a = n - m
  BY <1>1, <1>2, <1>3, <1>4
<1>6. HistRing * (b - a) = HistRing * b - HistRing * a
  BY <1>1, <1>2, <1>3
<1>7. CASE b - a <= 0
  <2>1. HistRing * (b - a) <= 0
    BY <1>1, <1>2, <1>3, <1>7
  <2> QED BY <1>5, <1>6, <2>1
<1>8. CASE b - a >= 1
  <2>1. HistRing * (b - a) >= HistRing
    BY <1>1, <1>2, <1>3, <1>8
  <2> QED BY <1>1, <1>2, <1>3, <1>5, <1>6, <2>1
<1> QED BY <1>2, <1>3, <1>7, <1>8

(* The bit and the fold a predictor has for a position.                    *)
BitAt(p, n) == p.bits[n % HistRing]
FoldAt(p, n) == p.folds[n % HistRing]

(* pushHistory() changes the bit and the fold of the new position, and     *)
(* those of no position that is still in use.                              *)
LEMMA PushOne ==
  ASSUME NEW p \in Predictors, NEW bit \in {0, 1}
  PROVE  LET q == PushHistory(p, bit)
         IN  /\ q.pos = p.pos + 1 /\ q.rasN = p.rasN /\ BitAt(q, q.pos) = bit
             /\ FoldAt(q, q.pos) = FoldAt(p, p.pos) + bit - BitAt(p, q.pos - MaxHist)
             /\ \A n \in Int : q.pos - HistRing < n /\ n <= p.pos =>
                  BitAt(q, n) = BitAt(p, n) /\ FoldAt(q, n) = FoldAt(p, n)
             /\ \A i \in 0 .. HistRing - 1 :
                  q.folds[i] = p.folds[i] \/ q.folds[i] = FoldAt(q, q.pos)
<1> DEFINE pos == p.pos + 1
           at == pos % HistRing
           bits == [p.bits EXCEPT ![at] = bit]
           out == bits[(pos - MaxHist) % HistRing]
           fold == p.folds[p.pos % HistRing] + bit - out
           folds == [p.folds EXCEPT ![at] = fold]
           q == PushHistory(p, bit)
<1>1. /\ p.pos \in Nat /\ p.bits \in [0 .. HistRing - 1 -> {0, 1}]
      /\ p.folds \in [0 .. HistRing - 1 -> Int]
  BY DEF Predictors
<1>2. /\ HistRing \in Nat \ {0} /\ MaxHist \in Nat \ {0} /\ HistRing > MaxHist
  <2>1. RobSize \in Nat /\ FetchQSize \in Nat
    BY FrontEndAssumption
  <2> QED BY RingIsLong, <2>1
<1>3. pos \in Nat /\ pos = p.pos + 1
  BY <1>1
<1>4. q.pos = pos /\ q.bits = bits /\ q.folds = folds /\ q.rasN = p.rasN
  BY DEF PushHistory, Predictors
<1> HIDE DEF pos, q
<1>7. \A n \in Int : n % HistRing \in 0 .. HistRing - 1
  BY <1>2, Division
<1>5. at \in 0 .. HistRing - 1 /\ pos \in Int
  BY <1>3, <1>7
<1>6. ASSUME NEW n \in Int, pos - HistRing < n, n <= p.pos PROVE n % HistRing # at
  <2>1. n < pos /\ pos - n < HistRing
    BY <1>1, <1>2, <1>3, <1>6
  <2> QED BY <1>5, <2>1, ApartInRing
<1> HIDE DEF fold, at
<1>8. bits[at] = bit /\ folds[at] = fold
  BY <1>1, <1>5
<1>9. \A i \in 0 .. HistRing - 1 : i # at => bits[i] = p.bits[i] /\ folds[i] = p.folds[i]
  BY <1>1, <1>5
<1> HIDE DEF folds, bits
<1>10. \A n \in Int : pos - HistRing < n /\ n <= p.pos =>
         BitAt(q, n) = BitAt(p, n) /\ FoldAt(q, n) = FoldAt(p, n)
  BY <1>4, <1>6, <1>7, <1>9 DEF BitAt, FoldAt
<1>11. BitAt(q, q.pos) = bit /\ FoldAt(q, q.pos) = fold
  BY <1>4, <1>8 DEF BitAt, FoldAt, at
<1>12. out = BitAt(p, pos - MaxHist)
  <2>1. pos - MaxHist \in Int /\ pos - HistRing < pos - MaxHist /\ pos - MaxHist <= p.pos
    BY <1>1, <1>2, <1>3
  <2>2. BitAt(q, pos - MaxHist) = BitAt(p, pos - MaxHist)
    BY <1>10, <2>1
  <2>3. out = BitAt(q, pos - MaxHist)
    BY <1>4 DEF BitAt
  <2> QED BY <2>2, <2>3
<1>13. fold = FoldAt(p, p.pos) + bit - BitAt(p, pos - MaxHist)
  BY <1>12 DEF fold, FoldAt
<1>14. \A i \in 0 .. HistRing - 1 : q.folds[i] = p.folds[i] \/ q.folds[i] = FoldAt(q, q.pos)
  BY <1>4, <1>8, <1>9, <1>11
<1> QED BY <1>3, <1>4, <1>10, <1>11, <1>13, <1>14 DEF q

(* The positions of the last MaxHist bits up to n that are taken.          *)
Recent(p, n) == {m \in n - MaxHist + 1 .. n : BitAt(p, m) = 1}
Sum(p, n) == Cardinality(Recent(p, n))

(* A fold lies between none and all of its window.                         *)
LEMMA SumBounds ==
  ASSUME NEW p, NEW n \in Int
  PROVE  Sum(p, n) \in 0 .. MaxHist /\ IsFiniteSet(Recent(p, n))
<1>1. MaxHist \in Nat
  BY RingIsLong
<1>2. n - MaxHist + 1 \in Int
  BY <1>1
<1>3. /\ IsFiniteSet(n - MaxHist + 1 .. n)
      /\ Cardinality(n - MaxHist + 1 .. n)
           = IF n - MaxHist + 1 > n THEN 0 ELSE n - (n - MaxHist + 1) + 1
  BY <1>2, FS_Interval
<1>4. Cardinality(n - MaxHist + 1 .. n) = MaxHist
  BY <1>1, <1>2, <1>3
<1>5. Recent(p, n) \subseteq n - MaxHist + 1 .. n
  BY DEF Recent
<1>6. IsFiniteSet(Recent(p, n)) /\ Sum(p, n) <= MaxHist
  BY <1>3, <1>4, <1>5, FS_Subset DEF Sum
<1>7. Sum(p, n) \in Nat
  BY <1>6, FS_CardinalityType DEF Sum
<1> QED BY <1>1, <1>6, <1>7

(* The sum follows as the fold does: one bit enters and one leaves.        *)
LEMMA SumSteps ==
  ASSUME NEW p, NEW q, NEW n \in Int, NEW bit \in {0, 1}, BitAt(q, n + 1) = bit,
         BitAt(p, n + 1 - MaxHist) \in {0, 1},
         \A m \in n + 1 - MaxHist .. n : BitAt(q, m) = BitAt(p, m)
  PROVE  Sum(q, n + 1) = Sum(p, n) + bit - BitAt(p, n + 1 - MaxHist)
<1> DEFINE o == n + 1 - MaxHist
           M == {m \in o + 1 .. n : BitAt(p, m) = 1}
           old == BitAt(p, o)
<1>1. MaxHist \in Nat \ {0} /\ o \in Int /\ o <= n /\ n - MaxHist + 1 = o
      /\ n + 1 - MaxHist + 1 = o + 1
  BY RingIsLong
<1>2. old \in {0, 1} /\ \A m \in o .. n : BitAt(q, m) = BitAt(p, m)
  OBVIOUS
<1> HIDE DEF o
<1>3. Recent(p, n) = M \cup (IF old = 1 THEN {o} ELSE {})
  <2>1. Recent(p, n) = {m \in o .. n : BitAt(p, m) = 1}
    BY <1>1 DEF Recent
  <2>2. \A m : m \in o .. n <=> m \in o + 1 .. n \/ m = o
    BY <1>1
  <2> QED BY <2>1, <2>2
<1>4. Recent(q, n + 1) = M \cup (IF bit = 1 THEN {n + 1} ELSE {})
  <2>1. Recent(q, n + 1) = {m \in o + 1 .. n + 1 : BitAt(q, m) = 1}
    BY <1>1 DEF Recent
  <2>2. \A m : m \in o + 1 .. n + 1 <=> m \in o + 1 .. n \/ m = n + 1
    BY <1>1
  <2>3. \A m \in o + 1 .. n : BitAt(q, m) = BitAt(p, m)
    BY <1>1, <1>2
  <2> QED BY <2>1, <2>2, <2>3
<1>5. o \notin M /\ n + 1 \notin M
  BY <1>1
<1>6. IsFiniteSet(M)
  <2>1. IsFiniteSet(Recent(p, n)) /\ M \subseteq Recent(p, n)
    BY <1>3, SumBounds
  <2> QED BY <2>1, FS_Subset
<1> HIDE DEF M
<1>7. Cardinality(M) \in Nat
  BY <1>6, FS_CardinalityType
<1>8. Sum(p, n) = Cardinality(M) + old
  <2>1. CASE old = 1
    <3>1. Cardinality(M \cup {o}) = Cardinality(M) + 1
      BY <1>5, <1>6, FS_AddElement
    <3> QED BY <1>3, <2>1, <3>1 DEF Sum
  <2>2. CASE old = 0
    <3>1. Recent(p, n) = M
      BY <1>3, <2>2
    <3> QED BY <1>7, <2>2, <3>1 DEF Sum
  <2> QED BY <1>2, <2>1, <2>2
<1>9. Sum(q, n + 1) = Cardinality(M) + bit
  <2>1. CASE bit = 1
    <3>1. Cardinality(M \cup {n + 1}) = Cardinality(M) + 1
      BY <1>5, <1>6, FS_AddElement
    <3> QED BY <1>4, <2>1, <3>1 DEF Sum
  <2>2. CASE bit = 0
    <3>1. Recent(q, n + 1) = M
      BY <1>4, <2>2
    <3> QED BY <1>7, <2>2, <3>1 DEF Sum
  <2> QED BY <2>1, <2>2
<1> HIDE DEF old
<1>10. Sum(q, n + 1) = Sum(p, n) + bit - old
  BY <1>2, <1>7, <1>8, <1>9
<1> QED BY <1>10 DEF old, o

Hist == [1 .. MaxHist -> {0, 1}]

(* The history at position n is h.                                         *)
BitsAre(p, n, h) == \A i \in 0 .. MaxHist - 1 : BitAt(p, n - i) = h[MaxHist - i]

(* From position m an effect leads to position n.                          *)
Enters(p, m, n, eff) ==
  /\ eff = "taken" => n = m + 1 /\ BitAt(p, n) = 1
  /\ eff = "nottaken" => n = m + 1 /\ BitAt(p, n) = 0
  /\ eff \notin {"taken", "nottaken"} => n = m

(* A bit of history is a sequence of at most one 0 or 1.                   *)
LEMMA BitIs ==
  ASSUME NEW eff
  PROVE  /\ eff = "taken" => Bit(eff) = <<1>>
         /\ eff = "nottaken" => Bit(eff) = <<0>>
         /\ eff \notin {"taken", "nottaken"} => Bit(eff) = <<>>
BY DEF Bit

(* Appending one bit shifts the window by one.                             *)
LEMMA LastBitsIs ==
  ASSUME NEW h \in Hist
  PROVE  /\ LastBits(h \o <<>>) = h
         /\ \A b \in {0, 1} :
              /\ LastBits(h \o <<b>>) \in Hist
              /\ LastBits(h \o <<b>>)[MaxHist] = b
              /\ \A i \in 1 .. MaxHist - 1 : LastBits(h \o <<b>>)[i] = h[i + 1]
<1>1. MaxHist \in Nat \ {0}
  BY RingIsLong
<1>2. h \in Seq({0, 1}) /\ Len(h) = MaxHist
  BY <1>1 DEF Hist
<1>3. LastBits(h \o <<>>) = h
  <2>1. h \o <<>> = h
    BY <1>2
  <2>2. SubSeq(h, 1, MaxHist) = h
    <3>1. \A i \in 1 .. MaxHist : h[i] \in {0, 1}
      BY DEF Hist
    <3> DEFINE t == SubSeq(h, 1, MaxHist)
    <3>2. t \in Seq({0, 1}) /\ Len(t) = MaxHist /\ \A i \in 1 .. MaxHist : t[i] = h[i]
      BY <1>1, <1>2, <3>1
    <3> HIDE DEF t
    <3>3. t = h
      BY <1>2, <3>2, SeqEqual
    <3> QED BY <3>3 DEF t
  <2>3. LastBits(h) = SubSeq(h, MaxHist - MaxHist + 1, MaxHist) /\ MaxHist - MaxHist + 1 = 1
    BY <1>1, <1>2 DEF LastBits
  <2> QED BY <2>1, <2>2, <2>3
<1>4. ASSUME NEW b \in {0, 1}
      PROVE  /\ LastBits(h \o <<b>>) \in Hist
             /\ LastBits(h \o <<b>>)[MaxHist] = b
             /\ \A i \in 1 .. MaxHist - 1 : LastBits(h \o <<b>>)[i] = h[i + 1]
  <2> DEFINE s == h \o <<b>>
             t == LastBits(s)
  <2>1. /\ s \in Seq({0, 1}) /\ Len(s) = MaxHist + 1 /\ s[MaxHist + 1] = b
        /\ \A i \in 1 .. MaxHist : s[i] = h[i]
    BY <1>1, <1>2
  <2> HIDE DEF s
  <2>2. t = SubSeq(s, 2, MaxHist + 1)
    <3>1. Len(s) - MaxHist + 1 = 2 /\ Len(s) = MaxHist + 1
      BY <1>1, <2>1
    <3>2. t = SubSeq(s, Len(s) - MaxHist + 1, Len(s))
      BY DEF LastBits
    <3> HIDE DEF t
    <3> QED BY <3>1, <3>2, Zenon
  <2> HIDE DEF t
  <2>3. /\ t \in Seq({0, 1}) /\ Len(t) = MaxHist /\ \A i \in 1 .. MaxHist : t[i] = s[i + 1]
    <3>1. \A i \in 2 .. MaxHist + 1 : s[i] \in {0, 1}
      BY <1>1, <2>1
    <3> QED BY <1>1, <2>1, <2>2, <3>1
  <2>4. t \in Hist
    BY <1>1, <2>3 DEF Hist
  <2>5. t[MaxHist] = b /\ \A i \in 1 .. MaxHist - 1 : t[i] = h[i + 1]
    BY <1>1, <2>1, <2>3
  <2> QED BY <2>4, <2>5 DEF t, s
<1> QED BY <1>3, <1>4

(* The window moves with the bits that enter.                              *)
LEMMA WindowMoves ==
  ASSUME NEW p, NEW h \in Hist, NEW m \in Int, NEW n \in Int, NEW eff,
         BitsAre(p, m, h), Enters(p, m, n, eff)
  PROVE  /\ BitsAre(p, n, LastBits(h \o Bit(eff)))
         /\ LastBits(h \o Bit(eff)) \in Hist
<1>1. MaxHist \in Nat \ {0}
  BY RingIsLong
<1>2. ASSUME NEW b \in {0, 1}, n = m + 1, BitAt(p, n) = b, Bit(eff) = <<b>>
      PROVE  /\ BitsAre(p, n, LastBits(h \o Bit(eff)))
             /\ LastBits(h \o Bit(eff)) \in Hist
  <2> DEFINE t == LastBits(h \o <<b>>)
  <2>1. t \in Hist /\ t[MaxHist] = b /\ \A i \in 1 .. MaxHist - 1 : t[i] = h[i + 1]
    BY LastBitsIs
  <2> HIDE DEF t
  <2>2. ASSUME NEW i \in 0 .. MaxHist - 1 PROVE BitAt(p, n - i) = t[MaxHist - i]
    <3>1. CASE i = 0
      <4>1. n - i = n /\ MaxHist - i = MaxHist
        BY <1>1, <3>1
      <4> QED BY <1>2, <2>1, <4>1
    <3>2. CASE i # 0
      <4>1. i - 1 \in 0 .. MaxHist - 1 /\ MaxHist - i \in 1 .. MaxHist - 1
            /\ MaxHist - i + 1 = MaxHist - (i - 1) /\ n - i = m - (i - 1)
        BY <1>1, <1>2, <3>2
      <4>2. BitAt(p, m - (i - 1)) = h[MaxHist - (i - 1)]
        BY <4>1 DEF BitsAre
      <4>3. t[MaxHist - i] = h[MaxHist - i + 1]
        BY <2>1, <4>1
      <4> QED BY <4>1, <4>2, <4>3
    <3> QED BY <3>1, <3>2
  <2> QED BY <1>2, <2>1, <2>2 DEF BitsAre, t
<1>3. CASE eff = "taken"
  BY <1>2, <1>3, BitIs DEF Enters
<1>4. CASE eff = "nottaken"
  BY <1>2, <1>4, BitIs DEF Enters
<1>5. CASE eff \notin {"taken", "nottaken"}
  <2>1. Bit(eff) = <<>> /\ n = m
    BY <1>5, BitIs DEF Enters
  <2>2. LastBits(h \o <<>>) = h
    BY LastBitsIs
  <2> QED BY <2>1, <2>2
<1> QED BY <1>3, <1>4, <1>5

(* Then the sum of the window is the number of ones of the history.        *)
LEMMA SumIsOnes ==
  ASSUME NEW p, NEW h \in Hist, NEW n \in Int, BitsAre(p, n, h)
  PROVE  Sum(p, n) = Ones(h)
<1> DEFINE S == {i \in 1 .. MaxHist : h[i] = 1}
           T == Recent(p, n)
           f == [i \in S |-> n - MaxHist + i]
<1>1. MaxHist \in Nat \ {0}
  BY RingIsLong
<1>2. \A i \in 1 .. MaxHist : BitAt(p, n - MaxHist + i) = h[i]
  <2> SUFFICES ASSUME NEW i \in 1 .. MaxHist PROVE BitAt(p, n - MaxHist + i) = h[i]
    OBVIOUS
  <2>1. MaxHist - i \in 0 .. MaxHist - 1 /\ MaxHist - (MaxHist - i) = i
        /\ n - (MaxHist - i) = n - MaxHist + i
    BY <1>1
  <2>2. BitAt(p, n - (MaxHist - i)) = h[MaxHist - (MaxHist - i)]
    BY <2>1 DEF BitsAre
  <2> QED BY <2>1, <2>2
<1>3. ASSUME NEW i \in S PROVE n - MaxHist + i \in T
  <2>1. i \in 1 .. MaxHist /\ h[i] = 1
    OBVIOUS
  <2>2. BitAt(p, n - MaxHist + i) = 1
    BY <1>2, <2>1
  <2>3. n - MaxHist + i \in n - MaxHist + 1 .. n
    BY <1>1, <2>1
  <2> QED BY <2>2, <2>3 DEF Recent
<1>4. ASSUME NEW m \in T PROVE \E i \in S : n - MaxHist + i = m
  <2>1. m \in n - MaxHist + 1 .. n /\ BitAt(p, m) = 1
    BY DEF Recent
  <2> DEFINE i == m - (n - MaxHist)
  <2>2. i \in 1 .. MaxHist /\ n - MaxHist + i = m
    BY <1>1, <2>1
  <2> HIDE DEF i
  <2>3. h[i] = 1
    BY <1>2, <2>1, <2>2
  <2> QED BY <2>2, <2>3
<1>5. S \subseteq Int /\ IsFiniteSet(S)
  <2>1. IsFiniteSet(1 .. MaxHist) /\ S \subseteq 1 .. MaxHist
    BY <1>1, FS_Interval
  <2>2. IsFiniteSet(S)
    <3> HIDE DEF S
    <3> QED BY <2>1, FS_Subset
  <2>3. S \subseteq Int
    OBVIOUS
  <2> QED BY <2>2, <2>3
<1>6. f \in [S -> T]
  <2> HIDE DEF S, T
  <2> QED BY <1>3
<1>7. \A a, b \in S : f[a] = f[b] => a = b
  <2> HIDE DEF S, T
  <2> QED BY <1>1, <1>5
<1>8. \A t \in T : \E s \in S : f[s] = t
  <2> HIDE DEF S, T
  <2> QED BY <1>4
<1> HIDE DEF S, T, f
<1>9. f \in Bijection(S, T)
  BY <1>6, <1>7, <1>8, Fun_IsBij
<1>10. ExistsBijection(S, T)
  BY <1>9, Fun_ExistsBij
<1>11. Cardinality(T) = Cardinality(S)
  BY <1>5, <1>10, FS_Bijection
<1> QED BY <1>11 DEF Sum, Ones, S, T

-----------------------------------------------------------------------------
(* The marks the instructions in flight leave in the ring *)

(* Marks *)

(* n instructions in flight left marks g[1] .. g[n], and the predictor is  *)
(* at g[n + 1]; x are their effects and h the history before the first.    *)
Tracked(p, g, n, x, h) ==
  /\ \A k \in 1 .. n + 1 : g[k] \in Nat
  /\ \A j, k \in 1 .. n + 1 : j <= k => g[j] <= g[k] /\ g[k] - g[j] <= k - j
  /\ \A k \in 1 .. n : Enters(p, g[k], g[k + 1], x[k])
  /\ \A k \in 1 .. n + 1 : FoldAt(p, g[k]) = Sum(p, g[k])
  /\ BitsAre(p, g[1], h)

FoldsFit(p) == p.folds \in [0 .. HistRing - 1 -> 0 .. MaxHist]

(* The same marks of a predictor with the same bits and folds, with some   *)
(* of the youngest instructions gone.                                      *)
LEMMA TrackedShort ==
  ASSUME NEW p, NEW q, NEW g, NEW f, NEW x, NEW y, NEW h, NEW n \in Nat, NEW m \in 0 .. n,
         Tracked(p, g, n, x, h), q.bits = p.bits, q.folds = p.folds,
         \A k \in 1 .. m + 1 : f[k] = g[k], \A k \in 1 .. m : y[k] = x[k]
  PROVE  Tracked(q, f, m, y, h)
<1>1. /\ \A k \in 1 .. m + 1 : k \in 1 .. n + 1
      /\ \A k \in 1 .. m : k \in 1 .. n /\ k \in 1 .. m + 1 /\ k + 1 \in 1 .. m + 1
      /\ 1 \in 1 .. m + 1
  OBVIOUS
<1>2. \A j : BitAt(q, j) = BitAt(p, j) /\ FoldAt(q, j) = FoldAt(p, j)
  BY DEF BitAt, FoldAt
<1>3. \A j : Sum(q, j) = Sum(p, j)
  BY <1>2 DEF Sum, Recent
<1>4. \A i, j, eff : Enters(p, i, j, eff) => Enters(q, i, j, eff)
  BY <1>2 DEF Enters
<1>5. \A j : BitsAre(p, j, h) => BitsAre(q, j, h)
  BY <1>2 DEF BitsAre
<1>6. /\ \A k \in 1 .. m + 1 : f[k] \in Nat
      /\ \A k \in 1 .. m + 1 : FoldAt(q, f[k]) = Sum(q, f[k])
      /\ BitsAre(q, f[1], h)
  BY <1>1, <1>2, <1>3, <1>5 DEF Tracked
<1>7. ASSUME NEW j \in 1 .. m + 1, NEW k \in 1 .. m + 1, j <= k
      PROVE  f[j] <= f[k] /\ f[k] - f[j] <= k - j
  <2>1. g[j] <= g[k] /\ g[k] - g[j] <= k - j /\ f[j] = g[j] /\ f[k] = g[k]
    BY <1>1, <1>7 DEF Tracked
  <2> QED BY <2>1
<1>8. ASSUME NEW k \in 1 .. m PROVE Enters(q, f[k], f[k + 1], y[k])
  <2>1. Enters(p, g[k], g[k + 1], x[k])
    BY <1>1 DEF Tracked
  <2>2. f[k] = g[k] /\ f[k + 1] = g[k + 1] /\ y[k] = x[k]
    BY <1>1
  <2> QED BY <1>4, <2>1, <2>2
<1> QED BY <1>6, <1>7, <1>8 DEF Tracked

(* The oldest instruction commits.                                         *)
LEMMA TrackedLater ==
  ASSUME NEW p, NEW g, NEW f, NEW x, NEW y, NEW h \in Hist, NEW n \in Nat \ {0},
         Tracked(p, g, n, x, h),
         \A k \in 1 .. n : f[k] = g[k + 1], \A k \in 1 .. n - 1 : y[k] = x[k + 1]
  PROVE  /\ Tracked(p, f, n - 1, y, LastBits(h \o Bit(x[1])))
         /\ LastBits(h \o Bit(x[1])) \in Hist
<1>1. /\ \A k \in 1 .. n - 1 + 1 : k + 1 \in 1 .. n + 1 /\ k \in 1 .. n
      /\ \A k \in 1 .. n - 1 : k + 1 \in 1 .. n /\ k \in 1 .. n
      /\ 1 \in 1 .. n /\ 1 \in 1 .. n + 1 /\ 2 \in 1 .. n + 1 /\ 1 + 1 = 2
  OBVIOUS
<1>2. /\ \A k \in 1 .. n - 1 + 1 : f[k] \in Nat
      /\ \A k \in 1 .. n - 1 + 1 : FoldAt(p, f[k]) = Sum(p, f[k])
  BY <1>1 DEF Tracked
<1>3. ASSUME NEW j \in 1 .. n - 1 + 1, NEW k \in 1 .. n - 1 + 1, j <= k
      PROVE  f[j] <= f[k] /\ f[k] - f[j] <= k - j
  <2>1. j + 1 \in 1 .. n + 1 /\ k + 1 \in 1 .. n + 1 /\ j + 1 <= k + 1
        /\ k + 1 - (j + 1) = k - j
    BY <1>1, <1>3
  <2>2. g[j + 1] <= g[k + 1] /\ g[k + 1] - g[j + 1] <= k + 1 - (j + 1)
    BY <2>1 DEF Tracked
  <2>3. f[j] = g[j + 1] /\ f[k] = g[k + 1]
    BY <1>1
  <2> QED BY <2>1, <2>2, <2>3
<1>4. ASSUME NEW k \in 1 .. n - 1 PROVE Enters(p, f[k], f[k + 1], y[k])
  <2>1. Enters(p, g[k + 1], g[k + 1 + 1], x[k + 1])
    BY <1>1 DEF Tracked
  <2>2. f[k] = g[k + 1] /\ f[k + 1] = g[k + 1 + 1] /\ y[k] = x[k + 1]
    BY <1>1
  <2> QED BY <2>1, <2>2
<1>5. BitsAre(p, f[1], LastBits(h \o Bit(x[1]))) /\ LastBits(h \o Bit(x[1])) \in Hist
  <2>1. g[1] \in Int /\ g[2] \in Int /\ BitsAre(p, g[1], h) /\ Enters(p, g[1], g[2], x[1])
        /\ f[1] = g[2]
    BY <1>1 DEF Tracked
  <2> QED BY <2>1, WindowMoves
<1> QED BY <1>2, <1>3, <1>4, <1>5 DEF Tracked

(* One more instruction is predicted and leaves a mark.                    *)
LEMMA TrackedMore ==
  ASSUME NEW p \in Predictors, NEW g, NEW f, NEW x, NEW y, NEW h, NEW n \in Nat, NEW eff,
         Tracked(p, g, n, x, h), n < RobSize + FetchQSize, g[n + 1] = p.pos,
         \A k \in 1 .. n + 1 : f[k] = g[k], \A k \in 1 .. n : y[k] = x[k],
         f[n + 2] = Apply(p, eff).pos, y[n + 1] = eff, FoldsFit(p)
  PROVE  Tracked(Apply(p, eff), f, n + 1, y, h) /\ FoldsFit(Apply(p, eff))
<1> DEFINE q == Apply(p, eff)
<1>0. n + 2 \in Nat /\ n + 1 + 1 = n + 2 /\ n + 1 \in 1 .. n + 1 /\ n + 2 \in 1 .. n + 2
      /\ \A k \in 1 .. n + 2 : k \in 1 .. n + 1 \/ k = n + 2
  OBVIOUS
<1>1. CASE eff \in {"taken", "nottaken"}
  <2> DEFINE bit == IF eff = "taken" THEN 1 ELSE 0
  <2>1. bit \in {0, 1} /\ q = PushHistory(p, bit)
    BY <1>1 DEF Apply
  <2> HIDE DEF bit, q
  <2>2. /\ q.pos = p.pos + 1 /\ BitAt(q, q.pos) = bit /\ p.pos \in Nat
        /\ FoldAt(q, q.pos) = FoldAt(p, p.pos) + bit - BitAt(p, q.pos - MaxHist)
        /\ \A m \in Int : q.pos - HistRing < m /\ m <= p.pos =>
             BitAt(q, m) = BitAt(p, m) /\ FoldAt(q, m) = FoldAt(p, m)
        /\ \A i \in 0 .. HistRing - 1 :
             q.folds[i] = p.folds[i] \/ q.folds[i] = FoldAt(q, q.pos)
    BY <2>1, PushOne DEF Predictors
  <2>3. /\ HistRing \in Nat \ {0} /\ MaxHist \in Nat \ {0} /\ HistRing > MaxHist + n
        /\ n + 1 <= HistRing - MaxHist
    <3>1. RobSize \in Nat /\ FetchQSize \in Nat
      BY FrontEndAssumption
    <3> QED BY RingIsLong, <3>1
  <2>4. \A k \in 1 .. n + 1 : g[k] \in Nat /\ g[k] <= p.pos /\ p.pos - n <= g[k]
    <3> SUFFICES ASSUME NEW k \in 1 .. n + 1
                 PROVE  g[k] \in Nat /\ g[k] <= p.pos /\ p.pos - n <= g[k]
      OBVIOUS
    <3>1. g[k] \in Nat /\ g[k] <= g[n + 1] /\ g[n + 1] - g[k] <= n + 1 - k
      BY <1>0 DEF Tracked
    <3> QED BY <2>2, <3>1
  <2>5. ASSUME NEW m \in Int, m <= p.pos, p.pos - n - MaxHist + 1 <= m
        PROVE  BitAt(q, m) = BitAt(p, m)
    <3>1. q.pos - HistRing < m
      BY <2>2, <2>3, <2>5
    <3> QED BY <2>2, <2>5, <3>1
  <2>6. ASSUME NEW k \in 1 .. n + 1
        PROVE  FoldAt(q, g[k]) = FoldAt(p, g[k]) /\ Sum(q, g[k]) = Sum(p, g[k])
    <3>1. q.pos - HistRing < g[k] /\ g[k] \in Int /\ g[k] <= p.pos
      BY <2>2, <2>3, <2>4
    <3>2. \A m \in g[k] - MaxHist + 1 .. g[k] :
            m \in Int /\ m <= p.pos /\ p.pos - n - MaxHist + 1 <= m
      BY <2>2, <2>3, <2>4
    <3>3. \A m \in g[k] - MaxHist + 1 .. g[k] : BitAt(q, m) = BitAt(p, m)
      BY <2>5, <3>2
    <3>4. Recent(q, g[k]) = Recent(p, g[k])
      BY <3>3 DEF Recent
    <3> QED BY <2>2, <3>1, <3>4 DEF Sum
  <2>7. FoldAt(p, p.pos) = Sum(p, p.pos)
    BY <1>0 DEF Tracked
  <2>8. Sum(q, q.pos) = Sum(p, p.pos) + bit - BitAt(p, q.pos - MaxHist)
    <3>1. \A m \in p.pos + 1 - MaxHist .. p.pos :
            m \in Int /\ m <= p.pos /\ p.pos - n - MaxHist + 1 <= m
      BY <2>2, <2>3
    <3>2. \A m \in p.pos + 1 - MaxHist .. p.pos : BitAt(q, m) = BitAt(p, m)
      BY <2>5, <3>1
    <3>3. BitAt(p, p.pos + 1 - MaxHist) \in {0, 1}
      <4>1. p.pos + 1 - MaxHist \in Int
        BY <2>2, <2>3
      <4>2. (p.pos + 1 - MaxHist) % HistRing \in 0 .. HistRing - 1
        BY <2>3, <4>1, Division
      <4>3. p.bits \in [0 .. HistRing - 1 -> {0, 1}]
        BY DEF Predictors
      <4> QED BY <4>2, <4>3 DEF BitAt
    <3>4. p.pos \in Int /\ BitAt(q, p.pos + 1) = bit
      BY <2>2
    <3>5. Sum(q, p.pos + 1) = Sum(p, p.pos) + bit - BitAt(p, p.pos + 1 - MaxHist)
      BY <2>1, <3>2, <3>3, <3>4, SumSteps
    <3>6. q.pos = p.pos + 1
      BY <2>2
    <3>7. Sum(q, p.pos + 1) = Sum(q, q.pos)
      BY <3>6
    <3>8. p.pos + 1 - MaxHist = q.pos - MaxHist
      BY <2>2, <2>3
    <3> QED BY <3>5, <3>7, <3>8
  <2>9. FoldAt(q, q.pos) = Sum(q, q.pos)
    BY <2>2, <2>7, <2>8
  <2>10. f[n + 2] = q.pos /\ q.pos \in Nat /\ f[n + 1] = p.pos
    BY <1>0, <2>2 DEF q
  <2>11. \A k \in 1 .. n + 2 : f[k] \in Nat /\ FoldAt(q, f[k]) = Sum(q, f[k])
    <3> SUFFICES ASSUME NEW k \in 1 .. n + 2
                 PROVE  f[k] \in Nat /\ FoldAt(q, f[k]) = Sum(q, f[k])
      OBVIOUS
    <3>1. CASE k = n + 2
      BY <2>9, <2>10, <3>1
    <3>2. CASE k \in 1 .. n + 1
      <4>1. FoldAt(p, g[k]) = Sum(p, g[k]) /\ f[k] = g[k]
        BY <3>2 DEF Tracked
      <4> QED BY <2>4, <2>6, <3>2, <4>1
    <3> QED BY <1>0, <3>1, <3>2
  <2>12. BitsAre(q, f[1], h)
    <3>1. f[1] = g[1] /\ 1 \in 1 .. n + 1
      OBVIOUS
    <3>2. \A i \in 0 .. MaxHist - 1 : BitAt(q, g[1] - i) = BitAt(p, g[1] - i)
      <4>1. \A i \in 0 .. MaxHist - 1 : /\ g[1] - i \in Int /\ g[1] - i <= p.pos
                                         /\ p.pos - n - MaxHist + 1 <= g[1] - i
        BY <2>2, <2>3, <2>4, <3>1
      <4> QED BY <2>5, <4>1
    <3> QED BY <3>1, <3>2 DEF Tracked, BitsAre
  <2>13. ASSUME NEW k \in 1 .. n + 1 PROVE Enters(q, f[k], f[k + 1], y[k])
    <3>1. CASE k = n + 1
      <4>1. k + 1 = n + 2 /\ y[k] = eff
        BY <1>0, <3>1
      <4>2. Enters(q, p.pos, q.pos, eff)
        BY <1>1, <2>2 DEF Enters, bit
      <4> QED BY <2>10, <3>1, <4>1, <4>2
    <3>2. CASE k # n + 1
      <4>1. k \in 1 .. n /\ k + 1 \in 1 .. n + 1
        BY <3>2
      <4>2. Enters(p, g[k], g[k + 1], x[k]) /\ f[k] = g[k] /\ f[k + 1] = g[k + 1] /\ y[k] = x[k]
        BY <4>1 DEF Tracked
      <4>3. BitAt(q, g[k + 1]) = BitAt(p, g[k + 1])
        <5>1. g[k + 1] \in Nat /\ g[k + 1] <= p.pos /\ p.pos - n <= g[k + 1]
          BY <2>4, <4>1
        <5>2. g[k + 1] \in Int /\ p.pos - n - MaxHist + 1 <= g[k + 1]
          BY <2>2, <2>3, <5>1
        <5> QED BY <2>5, <5>1, <5>2
      <4> QED BY <4>2, <4>3 DEF Enters
    <3> QED BY <3>1, <3>2
  <2>14. ASSUME NEW j \in 1 .. n + 2, NEW k \in 1 .. n + 2, j <= k
         PROVE  f[j] <= f[k] /\ f[k] - f[j] <= k - j
    <3>1. CASE k \in 1 .. n + 1
      <4>1. j \in 1 .. n + 1
        BY <2>14, <3>1
      <4>2. g[j] <= g[k] /\ g[k] - g[j] <= k - j
        BY <2>14, <3>1, <4>1 DEF Tracked
      <4> QED BY <3>1, <4>1, <4>2
    <3>2. CASE k = n + 2 /\ j \in 1 .. n + 1
      <4>1. g[j] \in Nat /\ g[j] <= g[n + 1] /\ g[n + 1] - g[j] <= n + 1 - j
        BY <1>0, <3>2 DEF Tracked
      <4>2. f[j] = g[j] /\ f[k] = g[n + 1] + 1
        BY <2>2, <2>10, <3>2
      <4>3. g[n + 1] \in Nat
        BY <2>2
      <4> QED BY <3>2, <4>1, <4>2, <4>3
    <3>3. CASE k = n + 2 /\ j = n + 2
      BY <2>10, <3>3
    <3> QED BY <1>0, <3>1, <3>2, <3>3
  <2>15. FoldsFit(q)
    <3>1. Sum(q, q.pos) \in 0 .. MaxHist
      BY <2>10, SumBounds
    <3>2. \A i \in 0 .. HistRing - 1 : q.folds[i] \in 0 .. MaxHist
      BY <2>2, <2>9, <3>1 DEF FoldsFit
    <3>3. q \in Predictors
      BY ApplyTypes DEF q
    <3>4. q.folds \in [0 .. HistRing - 1 -> Int]
      BY <3>3 DEF Predictors
    <3> QED BY <3>2, <3>4 DEF FoldsFit
  <2>16. Tracked(q, f, n + 1, y, h)
    BY <1>0, <2>11, <2>12, <2>13, <2>14 DEF Tracked
  <2> QED BY <2>15, <2>16 DEF q
<1>2. CASE eff \notin {"taken", "nottaken"}
  <2>1. q.bits = p.bits /\ q.folds = p.folds /\ q.pos = p.pos
    BY <1>2 DEF Apply, Predictors
  <2> HIDE DEF q
  <2>2. Tracked(q, f, n, y, h)
    <3>1. n \in 0 .. n
      OBVIOUS
    <3> QED BY <2>1, <3>1, TrackedShort
  <2>3. f[n + 2] = f[n + 1] /\ f[n + 1] = p.pos
    BY <1>0, <2>1 DEF q
  <2>4. /\ \A k \in 1 .. n + 2 : f[k] \in Nat /\ FoldAt(q, f[k]) = Sum(q, f[k])
        /\ BitsAre(q, f[1], h)
    BY <1>0, <2>2, <2>3 DEF Tracked
  <2>5. ASSUME NEW k \in 1 .. n + 1 PROVE Enters(q, f[k], f[k + 1], y[k])
    <3>1. CASE k = n + 1
      <4>1. k + 1 = n + 2 /\ y[k] = eff
        BY <1>0, <3>1
      <4> QED BY <1>2, <2>3, <3>1, <4>1 DEF Enters
    <3>2. CASE k # n + 1
      <4>1. k \in 1 .. n
        BY <3>2
      <4> QED BY <2>2, <4>1 DEF Tracked
    <3> QED BY <3>1, <3>2
  <2>6. ASSUME NEW j \in 1 .. n + 2, NEW k \in 1 .. n + 2, j <= k
        PROVE  f[j] <= f[k] /\ f[k] - f[j] <= k - j
    <3>1. CASE k \in 1 .. n + 1
      <4>1. j \in 1 .. n + 1
        BY <2>6, <3>1
      <4> QED BY <2>2, <2>6, <3>1, <4>1 DEF Tracked
    <3>2. CASE k = n + 2 /\ j \in 1 .. n + 1
      <4>1. f[j] \in Nat /\ f[n + 1] \in Nat /\ f[j] <= f[n + 1] /\ f[n + 1] - f[j] <= n + 1 - j
        BY <1>0, <2>2, <3>2 DEF Tracked
      <4> QED BY <2>3, <3>2, <4>1
    <3>3. CASE k = n + 2 /\ j = n + 2
      BY <2>4, <3>3
    <3> QED BY <1>0, <3>1, <3>2, <3>3
  <2>7. Tracked(q, f, n + 1, y, h)
    BY <1>0, <2>4, <2>5, <2>6 DEF Tracked
  <2>8. FoldsFit(q)
    BY <2>1 DEF FoldsFit
  <2> QED BY <2>7, <2>8 DEF q
<1> QED BY <1>1, <1>2

(* Program follows its own recurrence.                                     *)
Onward(a, x, g, k) ==
  IF k = 0 THEN [hist |-> a.hist, rasN |-> a.rasN] ELSE Advance(g[k - 1], x[k])

(* The program's course is the recursive function its definition says.     *)
LEMMA ProgramIs ==
  ASSUME NEW a, NEW x, Len(x) \in Nat
  PROVE  LET at == Program(a, x) IN at = [k \in 0 .. Len(x) |-> Onward(a, x, at, k)]
<1> DEFINE Upto(n, g) == g = [k \in 0 .. n |-> Onward(a, x, g, k)]
           Missing == {n \in Nat : ~\E g : Upto(n, g)}
<1>1. Missing = {}
  <2> SUFFICES ASSUME Missing # {} PROVE FALSE
    OBVIOUS
  <2>1. PICK n \in Missing : \A m \in Missing : n <= m
    BY MinExists
  <2>2. CASE n = 0
    <3>1. Upto(0, [k \in 0 .. 0 |-> [hist |-> a.hist, rasN |-> a.rasN]])
      BY DEF Onward
    <3> QED BY <2>1, <2>2, <3>1
  <2>3. CASE n # 0
    <3>1. n - 1 \in Nat /\ n - 1 \notin Missing
      <4>1. n \in Nat /\ n - 1 \in Nat
        BY <2>1, <2>3
      <4> HIDE DEF Missing
      <4> QED BY <2>1, <4>1
    <3>2. PICK g : Upto(n - 1, g)
      BY <3>1
    <3> DEFINE h == [k \in 0 .. n |-> Onward(a, x, g, k)]
    <3>3. \A k \in 0 .. n - 1 : h[k] = g[k]
      BY <2>1, <2>3, <3>2
    <3>4. \A k \in 0 .. n : Onward(a, x, g, k) = Onward(a, x, h, k)
      <4> SUFFICES ASSUME NEW k \in 0 .. n PROVE Onward(a, x, g, k) = Onward(a, x, h, k)
        OBVIOUS
      <4>1. CASE k = 0
        BY <4>1 DEF Onward
      <4>2. CASE k # 0
        <5>1. k - 1 \in 0 .. n - 1
          BY <2>1, <4>2
        <5>2. h[k - 1] = g[k - 1]
          BY <3>3, <5>1
        <5> HIDE DEF h
        <5> QED BY <5>2 DEF Onward
      <4> QED BY <4>1, <4>2
    <3>5. Upto(n, h)
      BY <3>4
    <3> QED BY <2>1, <3>5
  <2> QED BY <2>2, <2>3
<1>2. \E g : Upto(Len(x), g)
  BY <1>1
<1>3. \E g : g = [k \in 0 .. Len(x) |-> Onward(a, x, g, k)]
  BY <1>2
<1> QED BY <1>3 DEF Program, Onward

(* The program's history at each mark, its bits and its fold there.         *)
HistoriesOf(p, g, n, x, a) ==
  \A k \in 0 .. n : /\ Program(a, x)[k].hist \in Hist
                    /\ BitsAre(p, g[k + 1], Program(a, x)[k].hist)
                    /\ FoldAt(p, g[k + 1]) = Ones(Program(a, x)[k].hist)

(* Then the histories and depths at the marks are the program's.           *)
LEMMA HistoriesAreTracked ==
  ASSUME NEW p, NEW g, NEW n \in Nat, NEW x, Len(x) = n, NEW a, a.hist \in Hist,
         Tracked(p, g, n, x, a.hist)
  PROVE  HistoriesOf(p, g, n, x, a)
<1> DEFINE at == Program(a, x)
           Ok(k) == at[k].hist \in Hist /\ BitsAre(p, g[k + 1], at[k].hist)
           Wrong == {k \in 0 .. n : ~Ok(k)}
<1>1. at = [k \in 0 .. n |-> Onward(a, x, at, k)]
  BY ProgramIs
<1> HIDE DEF at
<1>2. Wrong = {}
  <2> SUFFICES ASSUME Wrong # {} PROVE FALSE
    OBVIOUS
  <2>1. PICK k \in Wrong : \A m \in Wrong : k <= m
    <3>1. Wrong \subseteq Nat
      OBVIOUS
    <3> HIDE DEF Wrong
    <3> QED BY <3>1, MinExists
  <2>2. k \in 0 .. n /\ ~Ok(k)
    BY <2>1
  <2>3. at[k] = Onward(a, x, at, k)
    BY <1>1, <2>2
  <2>4. CASE k = 0
    <3>1. at[k].hist = a.hist /\ k + 1 = 1
      BY <2>3, <2>4 DEF Onward
    <3> QED BY <2>2, <3>1 DEF Tracked
  <2>5. CASE k # 0
    <3>1. k - 1 \in 0 .. n /\ k - 1 \notin Wrong /\ k - 1 + 1 = k /\ k \in 1 .. n
          /\ k \in 1 .. n + 1 /\ k + 1 \in 1 .. n + 1
      <4>1. k - 1 \in 0 .. n /\ ~(k <= k - 1) /\ k - 1 + 1 = k /\ k \in 1 .. n
            /\ k \in 1 .. n + 1 /\ k + 1 \in 1 .. n + 1
        BY <2>2, <2>5
      <4> HIDE DEF Wrong
      <4> QED BY <2>1, <4>1
    <3>2. at[k - 1].hist \in Hist /\ BitsAre(p, g[k], at[k - 1].hist)
      BY <3>1
    <3>3. at[k].hist = LastBits(at[k - 1].hist \o Bit(x[k]))
      BY <2>3, <2>5 DEF Onward, Advance
    <3>4. g[k] \in Int /\ g[k + 1] \in Int /\ Enters(p, g[k], g[k + 1], x[k])
      BY <3>1 DEF Tracked
    <3>5. Ok(k)
      BY <3>2, <3>3, <3>4, WindowMoves
    <3> QED BY <2>2, <3>5
  <2> QED BY <2>4, <2>5
<1>3. ASSUME NEW k \in 0 .. n
      PROVE  at[k].hist \in Hist /\ BitsAre(p, g[k + 1], at[k].hist)
             /\ FoldAt(p, g[k + 1]) = Ones(at[k].hist)
  <2>1. Ok(k)
    BY <1>2
  <2>2. k + 1 \in 1 .. n + 1
    OBVIOUS
  <2>3. g[k + 1] \in Int /\ FoldAt(p, g[k + 1]) = Sum(p, g[k + 1])
    BY <2>2 DEF Tracked
  <2> QED BY <2>1, <2>3, SumIsOnes
<1> QED BY <1>3 DEF at, HistoriesOf

(* The depths of n instructions in flight, from the depth d before them.   *)
Nested(g, n, x, d) ==
  /\ g[1] = d
  /\ \A k \in 1 .. n : g[k + 1] = Depth(g[k], x[k])

(* Then the depth before each instruction is the program's.                *)
LEMMA DepthsAreNested ==
  ASSUME NEW g, NEW n \in Nat, NEW x, Len(x) = n, NEW a, Nested(g, n, x, a.rasN)
  PROVE  \A k \in 0 .. n : Program(a, x)[k].rasN = g[k + 1]
<1> DEFINE at == Program(a, x)
           Wrong == {k \in 0 .. n : at[k].rasN # g[k + 1]}
<1>1. at = [k \in 0 .. n |-> Onward(a, x, at, k)]
  BY ProgramIs
<1> HIDE DEF at
<1>2. Wrong = {}
  <2> SUFFICES ASSUME Wrong # {} PROVE FALSE
    OBVIOUS
  <2>1. PICK k \in Wrong : \A m \in Wrong : k <= m
    <3>1. Wrong \subseteq Nat
      OBVIOUS
    <3> HIDE DEF Wrong
    <3> QED BY <3>1, MinExists
  <2>2. k \in 0 .. n /\ at[k].rasN # g[k + 1]
    BY <2>1
  <2>3. at[k] = Onward(a, x, at, k)
    BY <1>1, <2>2
  <2>4. CASE k = 0
    <3>1. at[k].rasN = a.rasN /\ k + 1 = 1
      BY <2>3, <2>4 DEF Onward
    <3> QED BY <2>2, <3>1 DEF Nested
  <2>5. CASE k # 0
    <3>1. k - 1 \in 0 .. n /\ k - 1 \notin Wrong /\ k - 1 + 1 = k /\ k \in 1 .. n
      <4>1. k - 1 \in 0 .. n /\ ~(k <= k - 1) /\ k - 1 + 1 = k /\ k \in 1 .. n
        BY <2>2, <2>5
      <4> HIDE DEF Wrong
      <4> QED BY <2>1, <4>1
    <3>2. at[k - 1].rasN = g[k]
      BY <3>1
    <3>3. at[k].rasN = Depth(at[k - 1].rasN, x[k])
      BY <2>3, <2>5 DEF Onward, Advance
    <3> QED BY <2>2, <3>1, <3>2, <3>3 DEF Nested
  <2> QED BY <2>4, <2>5
<1> QED BY <1>2 DEF at

(* A squash keeps a prefix of the depths.                                  *)
LEMMA NestedShort ==
  ASSUME NEW g, NEW f, NEW x, NEW y, NEW d, NEW n \in Nat, NEW m \in 0 .. n, Nested(g, n, x, d),
         \A k \in 1 .. m + 1 : f[k] = g[k], \A k \in 1 .. m : y[k] = x[k]
  PROVE  Nested(f, m, y, d)
<1>1. /\ \A k \in 1 .. m : k \in 1 .. n /\ k \in 1 .. m + 1 /\ k + 1 \in 1 .. m + 1
      /\ 1 \in 1 .. m + 1
  OBVIOUS
<1> QED BY <1>1 DEF Nested

(* A commit moves the first depth on.                                      *)
LEMMA NestedLater ==
  ASSUME NEW g, NEW f, NEW x, NEW y, NEW d, NEW n \in Nat \ {0}, Nested(g, n, x, d),
         \A k \in 1 .. n : f[k] = g[k + 1], \A k \in 1 .. n - 1 : y[k] = x[k + 1]
  PROVE  Nested(f, n - 1, y, Depth(d, x[1]))
<1>1. /\ \A k \in 1 .. n - 1 : k + 1 \in 1 .. n /\ k \in 1 .. n
      /\ 1 \in 1 .. n /\ 1 + 1 = 2
  OBVIOUS
<1>2. f[1] = Depth(d, x[1])
  BY <1>1 DEF Nested
<1>3. ASSUME NEW k \in 1 .. n - 1 PROVE f[k + 1] = Depth(f[k], y[k])
  <2>1. g[k + 1 + 1] = Depth(g[k + 1], x[k + 1])
    BY <1>1 DEF Nested
  <2> QED BY <1>1, <2>1
<1> QED BY <1>2, <1>3 DEF Nested

(* A prediction adds a depth.                                              *)
LEMMA NestedMore ==
  ASSUME NEW p \in Predictors, NEW g, NEW f, NEW x, NEW y, NEW d, NEW n \in Nat, NEW eff,
         Nested(g, n, x, d), g[n + 1] = p.rasN,
         \A k \in 1 .. n + 1 : f[k] = g[k], \A k \in 1 .. n : y[k] = x[k],
         f[n + 2] = Apply(p, eff).rasN, y[n + 1] = eff
  PROVE  Nested(f, n + 1, y, d)
<1>1. /\ \A k \in 1 .. n : k \in 1 .. n + 1 /\ k + 1 \in 1 .. n + 1
      /\ 1 \in 1 .. n + 1 /\ n + 1 \in 1 .. n + 1 /\ n + 1 + 1 = n + 2
      /\ \A k \in 1 .. n + 1 : k \in 1 .. n \/ k = n + 1
  OBVIOUS
<1>2. Apply(p, eff).rasN = Depth(p.rasN, eff)
  <2>1. p.rasN \in Nat
    BY DEF Predictors
  <2>2. \A b : PushHistory(p, b).rasN = p.rasN
    BY DEF PushHistory, Predictors
  <2> QED BY <2>1, <2>2 DEF Apply, Depth, Predictors
<1>3. \A k \in 1 .. n : f[k + 1] = Depth(f[k], y[k])
  BY <1>1 DEF Nested
<1>4. f[n + 2] = Depth(f[n + 1], y[n + 1])
  BY <1>1, <1>2
<1> QED BY <1>1, <1>3, <1>4 DEF Nested

-----------------------------------------------------------------------------
(* The queues' record of those marks *)

(* Streams leave marks *)

MarksOf(p, s) == [k \in 1 .. Len(s) + 1 |-> IF k <= Len(s) THEN s[k].hist ELSE p.pos]
DepthsOf(p, s) == [k \in 1 .. Len(s) + 1 |-> IF k <= Len(s) THEN s[k].rasN ELSE p.rasN]

(* Entries s with effects x are in flight, from history h and depth d.     *)
Tracks(p, s, x, h, d) ==
  /\ FoldsFit(p) /\ h \in Hist
  /\ Tracked(p, MarksOf(p, s), Len(s), x, h)
  /\ RasRepair => Nested(DepthsOf(p, s), Len(s), x, d)

(* The marks are the checkpoints, and the predictor's own after the last.  *)
LEMMA MarksAre ==
  ASSUME NEW p, NEW s, Len(s) \in Nat
  PROVE  /\ \A k \in 1 .. Len(s) : /\ MarksOf(p, s)[k] = s[k].hist
                                   /\ DepthsOf(p, s)[k] = s[k].rasN
         /\ MarksOf(p, s)[Len(s) + 1] = p.pos /\ DepthsOf(p, s)[Len(s) + 1] = p.rasN
<1>1. \A k \in 1 .. Len(s) : k \in 1 .. Len(s) + 1 /\ k <= Len(s)
  OBVIOUS
<1>2. Len(s) + 1 \in 1 .. Len(s) + 1 /\ ~(Len(s) + 1 <= Len(s))
  OBVIOUS
<1> QED BY <1>1, <1>2 DEF MarksOf, DepthsOf

(* Effects that differ only where it does not matter.                      *)
Like(a, b) == a = b \/ (~RasRepair /\ a \notin {"taken", "nottaken"}
                                   /\ b \notin {"taken", "nottaken"})

(* Only what the effects mean matters to the record.                       *)
LEMMA TracksAlike ==
  ASSUME NEW p, NEW s, NEW t, NEW x, NEW y, NEW h, NEW d, Len(s) \in Nat, Len(t) = Len(s),
         Tracks(p, s, x, h, d),
         \A k \in 1 .. Len(s) : t[k].hist = s[k].hist /\ t[k].rasN = s[k].rasN,
         \A k \in 1 .. Len(s) : Like(x[k], y[k])
  PROVE  Tracks(p, t, y, h, d)
<1> DEFINE n == Len(s)
<1>1. MarksOf(p, t) = MarksOf(p, s) /\ DepthsOf(p, t) = DepthsOf(p, s)
  <2>1. \A k \in 1 .. n + 1 : k <= n => k \in 1 .. n
    OBVIOUS
  <2>2. \A k \in 1 .. n + 1 : /\ (IF k <= n THEN t[k].hist ELSE p.pos)
                                   = (IF k <= n THEN s[k].hist ELSE p.pos)
                              /\ (IF k <= n THEN t[k].rasN ELSE p.rasN)
                                   = (IF k <= n THEN s[k].rasN ELSE p.rasN)
    BY <2>1
  <2> QED BY <2>2 DEF MarksOf, DepthsOf
<1>2. ASSUME NEW a, NEW b, NEW k \in 1 .. n, Enters(p, a, b, x[k]) PROVE Enters(p, a, b, y[k])
  <2>1. Like(x[k], y[k])
    OBVIOUS
  <2> QED BY <1>2, <2>1 DEF Like, Enters
<1>3. Tracked(p, MarksOf(p, t), Len(t), y, h)
  <2> DEFINE g == MarksOf(p, s)
  <2>1. Tracked(p, g, n, x, h)
    BY DEF Tracks
  <2> HIDE DEF g
  <2>2. Tracked(p, g, n, y, h)
    BY <1>2, <2>1 DEF Tracked
  <2> QED BY <1>1, <2>2 DEF g
<1>4. RasRepair => Nested(DepthsOf(p, t), Len(t), y, d)
  <2> SUFFICES ASSUME RasRepair PROVE Nested(DepthsOf(p, t), Len(t), y, d)
    OBVIOUS
  <2> DEFINE g == DepthsOf(p, s)
  <2>1. Nested(g, n, x, d)
    BY DEF Tracks
  <2>2. \A k \in 1 .. n : x[k] = y[k]
    BY DEF Like
  <2> HIDE DEF g
  <2>3. Nested(g, n, y, d)
    BY <2>1, <2>2 DEF Nested
  <2> QED BY <1>1, <2>3 DEF g
<1> QED BY <1>3, <1>4 DEF Tracks

(* restore() takes the record back to a checkpoint.                        *)
LEMMA TracksShort ==
  ASSUME NEW p \in Predictors, NEW s \in Seq(Entries), NEW t, NEW x, NEW y, NEW h, NEW d,
         NEW k \in 1 .. Len(s), Len(t) = k - 1, Tracks(p, s, x, h, d),
         \A j \in 1 .. k - 1 : t[j] = s[j] /\ y[j] = x[j]
  PROVE  Tracks(Restore(p, s[k]), t, y, h, d)
<1> DEFINE q == Restore(p, s[k])
           n == Len(s)
           m == k - 1
<1>1. /\ q.bits = p.bits /\ q.folds = p.folds /\ q.pos = s[k].hist
      /\ RasRepair => q.rasN = s[k].rasN
  BY DEF Restore, Predictors
<1> HIDE DEF q
<1>2. /\ n \in Nat /\ m \in 0 .. n /\ Len(t) = m /\ m + 1 = k /\ Len(t) \in Nat
      /\ k \in 1 .. n
      /\ \A j \in 1 .. m : j \in 1 .. n /\ j \in 1 .. k - 1
      /\ \A j \in 1 .. m + 1 : j \in 1 .. m \/ j = k
  OBVIOUS
<1> DEFINE g == MarksOf(p, s)
           f == MarksOf(q, t)
           g2 == DepthsOf(p, s)
           f2 == DepthsOf(q, t)
<1>3. /\ \A j \in 1 .. n : g[j] = s[j].hist /\ g2[j] = s[j].rasN
      /\ \A j \in 1 .. m : f[j] = t[j].hist /\ f2[j] = t[j].rasN
      /\ f[m + 1] = q.pos /\ f2[m + 1] = q.rasN
  BY <1>2, MarksAre
<1>4. Tracked(p, g, n, x, h) /\ FoldsFit(p) /\ h \in Hist /\ (RasRepair => Nested(g2, n, x, d))
  BY DEF Tracks
<1> HIDE DEF g, f, g2, f2, n, m
<1>5. \A j \in 1 .. m : t[j] = s[j] /\ y[j] = x[j]
  BY <1>2
<1>6. \A j \in 1 .. m + 1 : f[j] = g[j]
  BY <1>1, <1>2, <1>3, <1>5
<1>7. Tracked(q, f, m, y, h)
  BY <1>1, <1>2, <1>4, <1>5, <1>6, TrackedShort
<1>8. RasRepair => Nested(f2, m, y, d)
  <2> SUFFICES ASSUME RasRepair PROVE Nested(f2, m, y, d)
    OBVIOUS
  <2>1. \A j \in 1 .. m + 1 : f2[j] = g2[j]
    BY <1>1, <1>2, <1>3, <1>5
  <2> QED BY <1>2, <1>4, <1>5, <2>1, NestedShort
<1>9. FoldsFit(q)
  BY <1>1, <1>4 DEF FoldsFit
<1> QED BY <1>2, <1>4, <1>7, <1>8, <1>9 DEF Tracks, f, f2, q

(* A commit takes the first instruction out of the record.                 *)
LEMMA TracksLater ==
  ASSUME NEW p, NEW s \in Seq(Entries), s # <<>>, NEW x, NEW y, NEW h, NEW d,
         Tracks(p, s, x, h, d), \A k \in 1 .. Len(s) - 1 : y[k] = x[k + 1]
  PROVE  Tracks(p, Tail(s), y, LastBits(h \o Bit(x[1])), Depth(d, x[1]))
<1> DEFINE n == Len(s)
           t == Tail(s)
<1>1. n \in Nat \ {0} /\ Len(t) = n - 1 /\ \A k \in 1 .. n - 1 : t[k] = s[k + 1]
  OBVIOUS
<1> HIDE DEF t
<1>2. /\ Len(t) \in Nat /\ n - 1 + 1 = n /\ n \in 1 .. n
      /\ \A k \in 1 .. n - 1 : k + 1 \in 1 .. n
      /\ \A k \in 1 .. n : k \in 1 .. n - 1 \/ k = n
  BY <1>1
<1> DEFINE g == MarksOf(p, s)
           f == MarksOf(p, t)
           g2 == DepthsOf(p, s)
           f2 == DepthsOf(p, t)
<1>3. /\ \A j \in 1 .. n : g[j] = s[j].hist /\ g2[j] = s[j].rasN
      /\ \A j \in 1 .. n - 1 : f[j] = t[j].hist /\ f2[j] = t[j].rasN
      /\ f[n - 1 + 1] = p.pos /\ f2[n - 1 + 1] = p.rasN
      /\ g[n + 1] = p.pos /\ g2[n + 1] = p.rasN
  BY <1>1, <1>2, MarksAre
<1>4. Tracked(p, g, n, x, h) /\ FoldsFit(p) /\ h \in Hist /\ (RasRepair => Nested(g2, n, x, d))
  BY DEF Tracks
<1> HIDE DEF g, f, g2, f2, n
<1>5. (\A k \in 1 .. n : f[k] = g[k + 1]) /\ (\A k \in 1 .. n : f2[k] = g2[k + 1])
  <2> SUFFICES ASSUME NEW k \in 1 .. n PROVE f[k] = g[k + 1] /\ f2[k] = g2[k + 1]
    OBVIOUS
  <2>1. CASE k = n
    BY <1>2, <1>3, <2>1
  <2>2. CASE k \in 1 .. n - 1
    <3>1. k + 1 \in 1 .. n
      BY <1>2, <2>2
    <3>2. g[k + 1] = s[k + 1].hist /\ g2[k + 1] = s[k + 1].rasN
      BY <1>3, <3>1
    <3>3. f[k] = t[k].hist /\ f2[k] = t[k].rasN /\ t[k] = s[k + 1]
      BY <1>1, <1>3, <2>2
    <3> QED BY <3>2, <3>3, Zenon
  <2> QED BY <1>2, <2>1, <2>2
<1>6. \A k \in 1 .. n - 1 : y[k] = x[k + 1]
  BY DEF n
<1>7. /\ Tracked(p, f, n - 1, y, LastBits(h \o Bit(x[1])))
      /\ LastBits(h \o Bit(x[1])) \in Hist
  <2>1. \A k \in 1 .. n : f[k] = g[k + 1]
    BY <1>5
  <2>2. n \in Nat \ {0} /\ Tracked(p, g, n, x, h) /\ h \in Hist
    BY <1>1, <1>4
  <2> QED BY <1>6, <2>1, <2>2, TrackedLater
<1>8. RasRepair => Nested(f2, n - 1, y, Depth(d, x[1]))
  BY <1>1, <1>4, <1>5, <1>6, NestedLater
<1> QED BY <1>1, <1>4, <1>7, <1>8 DEF Tracks, f, f2, t

(* Predicting one more instruction extends the record.                     *)
LEMMA TracksMore ==
  ASSUME NEW p \in Predictors, NEW s, NEW t, NEW x, NEW y, NEW h, NEW d, NEW eff,
         Len(s) \in Nat, Len(s) < RobSize + FetchQSize, Len(t) = Len(s) + 1,
         Tracks(p, s, x, h, d), \A k \in 1 .. Len(s) : t[k] = s[k] /\ y[k] = x[k],
         t[Len(t)].hist = p.pos, t[Len(t)].rasN = p.rasN, y[Len(t)] = eff
  PROVE  Tracks(Apply(p, eff), t, y, h, d)
<1> DEFINE n == Len(s)
           q == Apply(p, eff)
           g == MarksOf(p, s)
           f == MarksOf(q, t)
           g2 == DepthsOf(p, s)
           f2 == DepthsOf(q, t)
<1>1. /\ n \in Nat /\ Len(t) = n + 1 /\ Len(t) \in Nat /\ n + 1 + 1 = n + 2
      /\ \A k \in 1 .. n + 1 : k \in 1 .. n \/ k = n + 1
      /\ \A k \in 1 .. n : k \in 1 .. n + 1
      /\ n + 1 \in 1 .. n + 1
  OBVIOUS
<1> HIDE DEF q
<1>2. /\ \A j \in 1 .. n : g[j] = s[j].hist /\ g2[j] = s[j].rasN
      /\ \A j \in 1 .. n + 1 : f[j] = t[j].hist /\ f2[j] = t[j].rasN
      /\ f[n + 1 + 1] = q.pos /\ f2[n + 1 + 1] = q.rasN
      /\ g[n + 1] = p.pos /\ g2[n + 1] = p.rasN
  BY <1>1, MarksAre
<1>3. Tracked(p, g, n, x, h) /\ FoldsFit(p) /\ h \in Hist /\ (RasRepair => Nested(g2, n, x, d))
  BY DEF Tracks
<1>4. n < RobSize + FetchQSize /\ y[n + 1] = eff /\ t[n + 1].hist = p.pos /\ t[n + 1].rasN = p.rasN
      /\ \A k \in 1 .. n : t[k] = s[k] /\ y[k] = x[k]
  BY <1>1
<1> HIDE DEF g, f, g2, f2, n
<1>5. (\A k \in 1 .. n + 1 : f[k] = g[k]) /\ (\A k \in 1 .. n + 1 : f2[k] = g2[k])
  BY <1>1, <1>2, <1>4
<1>9. (\A k \in 1 .. n : t[k] = s[k]) /\ (\A k \in 1 .. n : y[k] = x[k]) /\ y[n + 1] = eff
  BY <1>4
<1>6. f[n + 2] = q.pos /\ f2[n + 2] = q.rasN
  BY <1>1, <1>2
<1>7. Tracked(q, f, n + 1, y, h) /\ FoldsFit(q)
  <2>1. f[n + 2] = Apply(p, eff).pos
    BY <1>6 DEF q
  <2>2. n \in Nat /\ g[n + 1] = p.pos /\ n < RobSize + FetchQSize
    BY <1>1, <1>2, <1>4
  <2>3. Tracked(Apply(p, eff), f, n + 1, y, h) /\ FoldsFit(Apply(p, eff))
    BY <1>3, <1>5, <1>9, <2>1, <2>2, TrackedMore
  <2> QED BY <2>3 DEF q
<1>8. RasRepair => Nested(f2, n + 1, y, d)
  <2> SUFFICES ASSUME RasRepair PROVE Nested(f2, n + 1, y, d)
    OBVIOUS
  <2>1. Nested(g2, n, x, d) /\ g2[n + 1] = p.rasN /\ f2[n + 2] = Apply(p, eff).rasN /\ n \in Nat
    BY <1>1, <1>2, <1>3, <1>6 DEF q
  <2> QED BY <1>5, <1>9, <2>1, NestedMore
<1> QED BY <1>1, <1>3, <1>7, <1>8 DEF Tracks, f, f2, q

(* A block of fetched words.                                               *)
LEMMA TracksBlock ==
  ASSUME NEW p \in Predictors, NEW s \in Seq(Entries), NEW new \in Seq(Entries),
         NEW first \in Nat, NEW last \in Nat, NEW choice, first <= last,
         Len(new) = last - first + 1,
         \A i \in 1 .. Len(new) :
           /\ new[i].hist = Before(p, first, last, choice)[first + i - 1].pos
           /\ new[i].rasN = Before(p, first, last, choice)[first + i - 1].rasN,
         NEW x, NEW y, NEW h, NEW d, Tracks(p, s, x, h, d),
         Len(s) + Len(new) <= RobSize + FetchQSize,
         \A k \in 1 .. Len(s) : y[k] = x[k],
         \A i \in 1 .. Len(new) : y[Len(s) + i] = choice[first + i - 1].eff
  PROVE  Tracks(Before(p, first, last, choice)[last + 1], s \o new, y, h, d)
<1> DEFINE at == Before(p, first, last, choice)
           t == s \o new
           n == Len(s)
           l == Len(new)
           Upto(i) == SubSeq(t, 1, n + i)
           Ok(i) == Tracks(at[first + i], Upto(i), y, h, d)
           Wrong == {i \in 0 .. l : ~Ok(i)}
<1>1. at = [w \in first .. last + 1 |-> Step(p, first, choice, at, w)]
  BY BeforeIs
<1>2. \A w \in first .. last + 1 : at[w] \in Predictors
  BY BeforeTypes
<1>3. /\ n \in Nat /\ l \in Nat /\ l = last - first + 1 /\ n + l <= RobSize + FetchQSize
      /\ t \in Seq(Entries) /\ Len(t) = n + l
      /\ \A k \in 1 .. n : t[k] = s[k]
      /\ \A i \in 1 .. l : t[n + i] = new[i]
  <2>1. n \in Nat /\ l \in Nat /\ l = last - first + 1 /\ n + l <= RobSize + FetchQSize
    OBVIOUS
  <2>2. /\ t \in Seq(Entries) /\ Len(t) = n + l
        /\ \A k \in 1 .. n : t[k] = s[k]
        /\ \A i \in 1 .. l : t[n + i] = new[i]
    <3>1. /\ t \in Seq(Entries) /\ Len(t) = n + l
          /\ \A k \in 1 .. n + l : t[k] = IF k <= n THEN s[k] ELSE new[k - n]
      BY ConcatProperties
    <3> HIDE DEF t, n, l
    <3>2. \A k \in 1 .. n : k \in 1 .. n + l /\ k <= n
      BY <2>1
    <3>3. \A i \in 1 .. l : n + i \in 1 .. n + l /\ ~(n + i <= n) /\ (n + i) - n = i
      BY <2>1
    <3> QED BY <3>1, <3>2, <3>3
  <2> QED BY <2>1, <2>2
<1>4. /\ \A i \in 1 .. l : new[i].hist = at[first + i - 1].pos /\ new[i].rasN = at[first + i - 1].rasN
      /\ \A k \in 1 .. n : y[k] = x[k]
      /\ \A i \in 1 .. l : y[n + i] = choice[first + i - 1].eff
  <2> HIDE DEF at
  <2> QED BY DEF at
<1> HIDE DEF at, t
<1>5. ASSUME NEW i \in 0 .. l
      PROVE  Len(Upto(i)) = n + i /\ \A k \in 1 .. n + i : Upto(i)[k] = t[k]
  <2> DEFINE m == n + i
  <2>1. m \in Int /\ 0 <= m /\ m <= Len(t) /\ (1 <= m => m - 1 + 1 = m) /\ (~(1 <= m) => m = 0)
        /\ m - 1 + 1 = m
    BY <1>3
  <2> HIDE DEF m
  <2>2. \A k \in 1 .. m : t[k] \in Entries
    BY <1>3, <2>1
  <2> DEFINE u == SubSeq(t, 1, m)
  <2>3. Len(u) = (IF 1 <= m THEN m - 1 + 1 ELSE 0) /\ \A k \in 1 .. m - 1 + 1 : u[k] = t[1 + k - 1]
    BY <2>1, <2>2, SubSeqProperties
  <2> HIDE DEF u
  <2>4. Len(u) = m /\ \A k \in 1 .. m : u[k] = t[k]
    BY <2>1, <2>3
  <2> QED BY <2>4 DEF m, u
<1>6. Wrong = {}
  <2> SUFFICES ASSUME Wrong # {} PROVE FALSE
    OBVIOUS
  <2>1. PICK i \in Wrong : \A m \in Wrong : i <= m
    <3>1. Wrong \subseteq Nat
      OBVIOUS
    <3> HIDE DEF Wrong
    <3> QED BY <3>1, MinExists
  <2>2. i \in 0 .. l /\ ~Ok(i)
    BY <2>1
  <2>3. CASE i = 0
    <3>1. first + i = first /\ first \in first .. last + 1 /\ n + i = n
      BY <1>3, <2>3
    <3>2. at[first + i] = p
      BY <1>1, <3>1 DEF Step
    <3>3. Len(Upto(i)) = n /\ \A k \in 1 .. n : Upto(i)[k] = s[k]
      BY <1>3, <1>5, <2>2, <3>1
    <3> HIDE DEF Upto
    <3>4. \A k \in 1 .. n : Like(x[k], y[k])
      BY <1>4 DEF Like
    <3>5. Tracks(p, Upto(i), y, h, d)
      BY <1>3, <3>3, <3>4, TracksAlike
    <3> QED BY <2>2, <3>2, <3>5
  <2>4. CASE i # 0
    <3> DEFINE j == i - 1
               w == first + i
    <3>1. j \in 0 .. l /\ j \notin Wrong
      <4>1. j \in 0 .. l /\ ~(i <= j)
        BY <1>3, <2>2, <2>4
      <4> HIDE DEF Wrong, j
      <4> QED BY <2>1, <4>1
    <3>2. /\ i \in 1 .. l /\ w \in first .. last + 1 /\ w # first /\ w - 1 = first + i - 1
          /\ first + j = w - 1 /\ w - 1 \in first .. last + 1 /\ n + i = n + j + 1
          /\ n + j \in Nat /\ n + j < RobSize + FetchQSize
          /\ (\A k \in 1 .. n + j : k \in 1 .. n + i)
          /\ n + i \in 1 .. n + i
      <4> DEFINE cap == RobSize + FetchQSize
      <4>1. cap \in Nat
        BY RingIsLong
      <4> HIDE DEF cap
      <4>2. n \in Nat /\ l \in Nat /\ l = last - first + 1 /\ n + l <= cap /\ i \in 0 .. l /\ i # 0
        BY <1>3, <2>2, <2>4 DEF cap
      <4> HIDE DEF n, l
      <4>3. n + j < cap
        <5>1. i \in Int /\ i <= l /\ j = i - 1 /\ n \in Int /\ l \in Int
              /\ n + l <= cap /\ cap \in Int
          BY <4>1, <4>2
        <5> HIDE DEF j, Wrong
        <5> QED BY <5>1
      <4> QED BY <4>2, <4>3 DEF cap
    <3>3. Tracks(at[w - 1], Upto(j), y, h, d)
      BY <3>1, <3>2
    <3>4. /\ Len(Upto(j)) = n + j /\ Len(Upto(i)) = n + i
          /\ \A k \in 1 .. n + j : Upto(i)[k] = Upto(j)[k]
          /\ Upto(i)[n + i] = t[n + i]
      BY <1>5, <2>2, <3>1, <3>2
    <3> HIDE DEF Upto, j, w
    <3>5. at[w] = Apply(at[w - 1], choice[w - 1].eff) /\ at[w - 1] \in Predictors
      BY <1>1, <1>2, <3>2 DEF Step
    <3>6. /\ Upto(i)[n + i].hist = at[w - 1].pos /\ Upto(i)[n + i].rasN = at[w - 1].rasN
          /\ y[n + i] = choice[w - 1].eff
      <4>1. Upto(i)[n + i] = new[i]
        BY <1>3, <3>2, <3>4
      <4>2. /\ new[i].hist = at[first + i - 1].pos /\ new[i].rasN = at[first + i - 1].rasN
            /\ y[n + i] = choice[first + i - 1].eff
        BY <1>4, <3>2
      <4>3. w - 1 = first + i - 1
        BY <3>2
      <4> QED BY <4>1, <4>2, <4>3, Zenon
    <3>7. Tracks(Apply(at[w - 1], choice[w - 1].eff), Upto(i), y, h, d)
      <4>1. n + j \in Nat /\ Len(Upto(j)) = n + j /\ n + j < RobSize + FetchQSize
            /\ Len(Upto(i)) = n + j + 1 /\ n + i = n + j + 1
        BY <3>2, <3>4
      <4>2. \A k \in 1 .. Len(Upto(j)) : Upto(i)[k] = Upto(j)[k] /\ y[k] = y[k]
        BY <3>4
      <4> DEFINE v == n + j
                 q == at[w - 1]
      <4>3. /\ Upto(i)[Len(Upto(i))].hist = q.pos /\ Upto(i)[Len(Upto(i))].rasN = q.rasN
            /\ y[Len(Upto(i))] = choice[w - 1].eff
        BY <3>4, <3>6, Zenon
      <4>4. q \in Predictors /\ Tracks(q, Upto(j), y, h, d)
        BY <3>3, <3>5
      <4> HIDE DEF v, q
      <4>5. Len(Upto(j)) \in Nat /\ Len(Upto(j)) < RobSize + FetchQSize
            /\ Len(Upto(i)) = Len(Upto(j)) + 1
        BY <4>1
      <4>6. Tracks(Apply(q, choice[w - 1].eff), Upto(i), y, h, d)
        BY <4>2, <4>3, <4>4, <4>5, TracksMore
      <4> QED BY <4>6 DEF q
    <3> QED BY <2>2, <3>5, <3>7 DEF w
  <2> QED BY <2>3, <2>4
<1>7. Ok(l) /\ first + l = last + 1
  <2>1. l \in 0 .. l /\ first + l = last + 1
    BY <1>3
  <2>2. l \notin Wrong
    BY <1>6
  <2> HIDE DEF l, Ok
  <2> QED BY <2>1, <2>2 DEF Wrong
<1>8. Upto(l) = t
  <2>1. Len(Upto(l)) = n + l /\ \A k \in 1 .. n + l : Upto(l)[k] = t[k]
    BY <1>3, <1>5
  <2>2. Upto(l) \in Seq(Entries)
    <3>1. \A k \in 1 .. n + l : t[k] \in Entries
      BY <1>3
    <3>2. n + l \in Int
      BY <1>3
    <3> QED BY <3>1, <3>2, SubSeqProperties
  <2> HIDE DEF Upto
  <2> QED BY <1>3, <2>1, <2>2, SeqEqual
<1> QED BY <1>7, <1>8 DEF at, t

-----------------------------------------------------------------------------
(* The inductive invariant of what is speculative *)

(* What the instructions of a stream mean for history and depth.           *)
Meanings(s) == [k \in 1 .. Len(s) |-> EffectOf(s[k])]

(* The effect of a prediction is that of the kind of the word, if it is    *)
(* predicted at all; calls and returns are always taken.                   *)
Fits(e) ==
  /\ Kind[e.pc] = "call" => e.eff = IF e.taken THEN "push" ELSE "none"
  /\ Kind[e.pc] = "ret" => e.eff = IF e.taken THEN "pop" ELSE "none"
  /\ Kind[e.pc] \notin {"call", "ret"} => e.eff \notin {"push", "pop"}
  /\ Kind[e.pc] \in {"call", "ret"} /\ e.resolved => e.actual.taken

(* Rewrites change targets only.                                           *)
KindsStay == \A P \in Patches : P.kind = Kind[P.pc]

SameKinds ==
  \A w \in Pcs : code[w].kind = Kind[w] /\ \A I \in trained[w] : I.kind = Kind[w]

(* The predictor p is where the instructions of r and f lead from a.       *)
Recorded(r, f, p, a) ==
  \E d : /\ Tracks(p, r \o f.q, Meanings(r \o f.q), a.hist, d)
         /\ KindsStay => /\ \A k \in 1 .. Len(r \o f.q) : Fits((r \o f.q)[k])
                         /\ d = a.rasN

(* An answer on its way finds room for its block.                          *)
Room(r, f) ==
  /\ Len(r) <= RobSize /\ Len(f.q) <= FetchQSize
  /\ f.outstanding => Len(f.q) + BlockWords <= FetchQSize
  /\ \A k \in 1 .. Len(f.q) : ~f.q[k].resolved

Stages == {"commit", "writeback", "agu", "dispatch", "fetch", "edge"}

SpecInv ==
  /\ stage \in Stages /\ Room(rob, fe) /\ Recorded(rob, fe, pr, arch)
  /\ KindsStay => SameKinds

(* Rewrites that keep kinds keep branches.                                 *)
LEMMA KindsAreBranches == KindsStay => BranchesStay
<1> SUFFICES ASSUME KindsStay, NEW P \in Patches
             PROVE  Branch(P.kind) \/ \A I \in Held(P.pc) : ~Branch(I.kind)
  BY DEF BranchesStay
<1>1. ASSUME NEW I \in Held(P.pc) PROVE I.kind = P.kind
  <2>1. P.kind = Kind[P.pc] /\ \A Q \in Patches : Q.pc = P.pc => Q.kind = Kind[P.pc]
    BY DEF KindsStay
  <2>2. \A k, t : Instr(k, t).kind = k
    BY DEF Instr
  <2>3. I = Instr(Kind[P.pc], Target[P.pc])
        \/ \E Q \in {Q \in Patches : Q.pc = P.pc} : I = Instr(Q.kind, Q.target)
    BY DEF Held
  <2> QED BY <2>1, <2>2, <2>3
<1> QED BY <1>1

(* The meanings of a joined stream are those of its parts, joined.         *)
LEMMA MeaningsAre ==
  ASSUME NEW s \in Seq(Entries)
  PROVE  Len(Meanings(s)) = Len(s) /\ \A k \in 1 .. Len(s) : Meanings(s)[k] = EffectOf(s[k])
<1>1. Len(s) \in Nat
  OBVIOUS
<1> DEFINE n == Len(s)
           x == Meanings(s)
<1>2. x = [k \in 1 .. n |-> x[k]] /\ \A k \in 1 .. n : x[k] = EffectOf(s[k])
  BY DEF Meanings
<1> HIDE DEF n, x
<1>3. Len([k \in 1 .. n |-> x[k]]) = n
  BY <1>1 DEF n
<1> QED BY <1>2, <1>3 DEF n, x

(* A prediction fits its word.                                             *)
LEMMA PredictionsFit ==
  ASSUME SameKinds, NEW w \in Pcs, NEW c \in Predict(w), NEW e, e.pc = w, e.taken = c.taken,
         e.eff = c.eff, e.resolved = FALSE
  PROVE  Fits(e)
<1>1. CASE c = Miss
  BY <1>1 DEF Miss, Fits
<1>2. ASSUME NEW I \in trained[w], c \in Hits(I) PROVE Fits(e)
  <2>1. I.kind = Kind[w] /\ Kind[w] \in Kinds
    BY FrontEndAssumption DEF SameKinds
  <2>3. CASE I.kind = "cond"
    <3>1. c = Hit(TRUE, I.target, "taken") \/ c = Hit(FALSE, I.target, "nottaken")
      BY <1>2, <2>3 DEF Hits
    <3>2. e.eff \in {"taken", "nottaken"}
      BY <3>1 DEF Hit
    <3> QED BY <2>1, <2>3, <3>2 DEF Fits
  <2>4. CASE I.kind = "call"
    <3>1. c = Hit(TRUE, I.target, "push")
      BY <1>2, <2>4 DEF Hits
    <3>2. e.eff = "push" /\ e.taken = TRUE
      BY <3>1 DEF Hit
    <3> QED BY <2>1, <2>4, <3>2 DEF Fits
  <2>5. CASE I.kind = "jump"
    <3>1. c = Hit(TRUE, I.target, "none")
      BY <1>2, <2>5 DEF Hits
    <3>2. e.eff = "none"
      BY <3>1 DEF Hit
    <3> QED BY <2>1, <2>5, <3>2 DEF Fits
  <2>6. CASE I.kind = "ret"
    <3>1. PICK t \in Returns : c = Hit(TRUE, t, "pop")
      BY <1>2, <2>6 DEF Hits
    <3>2. e.eff = "pop" /\ e.taken = TRUE
      BY <3>1 DEF Hit
    <3> QED BY <2>1, <2>6, <3>2 DEF Fits
  <2>7. CASE I.kind = "plain"
    BY <1>2, <2>7 DEF Hits
  <2> QED BY <2>1, <2>3, <2>4, <2>5, <2>6, <2>7 DEF Kinds
<1> QED BY <1>1, <1>2 DEF Predict

(* The elements of a concatenation.                                        *)
LEMMA Joined ==
  ASSUME NEW s \in Seq(Entries), NEW t \in Seq(Entries)
  PROVE  /\ s \o t \in Seq(Entries) /\ Len(s \o t) = Len(s) + Len(t)
         /\ Len(s) \in Nat /\ Len(t) \in Nat
         /\ \A k \in 1 .. Len(s) : (s \o t)[k] = s[k]
         /\ \A i \in 1 .. Len(t) : (s \o t)[Len(s) + i] = t[i]
OBVIOUS

(* What is left of a block is at most a block.                             *)
LEMMA BlockIsShort ==
  ASSUME NEW pc \in Pcs, NEW w \in BlockRest(pc)
  PROVE  w \in Int /\ w - pc + 1 <= BlockWords
<1>1. BlockWords \in Nat \ {0} /\ pc \in Nat
  BY FrontEndAssumption DEF Pcs
<1>2. pc % BlockWords \in 0 .. BlockWords - 1
  BY <1>1, Division
<1> DEFINE r == pc % BlockWords
<1>3. w \in pc .. (pc - r) + BlockWords - 1
  BY DEF BlockRest, BlockOf
<1> HIDE DEF r
<1>4. r \in 0 .. BlockWords - 1
  BY <1>2 DEF r
<1> QED BY <1>1, <1>3, <1>4
-----------------------------------------------------------------------------
(* consume() keeps the record, and leaves room.                            *)
LEMMA ConsumeRecords ==
  ASSUME Shape, Training, KindsStay => SameKinds, NEW f \in Fetches, NEW p \in Predictors,
         f.outstanding, Room(rob, f), Recorded(rob, f, p, arch),
         NEW choice \in BlockChoices(f.fetchPc)
  PROVE  LET c == Consume(f, p, choice)
         IN  Room(rob, c.fe) /\ Recorded(rob, c.fe, c.pr, arch)
<1> DEFINE first == f.fetchPc
           last == LastFetched(first, choice)
           at == Before(p, first, last, choice)
           new == [i \in 1 .. last - first + 1 |->
                     Fetched(at[first + i - 1], first + i - 1, choice[first + i - 1])]
           c == Consume(f, p, choice)
           s == rob \o f.q
<1>1. /\ f = [pc |-> f.pc, outstanding |-> f.outstanding, stale |-> f.stale,
              fetchPc |-> f.fetchPc, q |-> f.q, pend |-> f.pend, target |-> f.target]
      /\ f.fetchPc \in Pcs /\ f.q \in Seq(Entries) /\ rob \in Seq(Entries)
  BY DEF Fetches, Shape
<1>2. CASE f.stale
  <2>1. c.fe = [f EXCEPT !.outstanding = FALSE, !.stale = FALSE] /\ c.pr = p
    BY <1>2 DEF Consume
  <2>2. c.fe.q = f.q /\ c.fe.outstanding = FALSE
    BY <1>1, <2>1
  <2> HIDE DEF c
  <2> QED BY <2>1, <2>2, Zenon DEF Room, Recorded, c
<1>3. CASE ~f.stale
  <2>1. /\ first \in Pcs /\ first \in Nat /\ last \in Pcs /\ last \in Nat /\ first <= last
        /\ last - first + 1 <= BlockWords
        /\ \A w \in first .. last : w \in BlockRest(first) /\ w \in Pcs
    <3>1. first \in Pcs
      BY <1>1
    <3> HIDE DEF first
    <3>2. /\ last \in Pcs /\ first <= last /\ last \in BlockRest(first)
          /\ \A w \in first .. last - 1 : w \in BlockRest(first)
      BY <3>1, LastIsFirstTaken
    <3> HIDE DEF last
    <3>3. first \in Nat /\ last \in Nat /\ last < Words
      BY <3>1, <3>2, FrontEndAssumption DEF Pcs
    <3>4. last - first + 1 <= BlockWords
      BY <3>1, <3>2, BlockIsShort
    <3>5. ASSUME NEW w \in first .. last PROVE w \in BlockRest(first) /\ w \in Pcs
      <4>1. w = last \/ w \in first .. last - 1
        BY <3>3
      <4>2. w \in Pcs
        BY <3>3, FrontEndAssumption DEF Pcs
      <4> QED BY <3>2, <4>1, <4>2
    <3> QED BY <3>1, <3>2, <3>3, <3>4, <3>5
  <2>2. \A w \in first .. last + 1 : at[w] \in Predictors
    BY <2>1, BeforeTypes
  <2> HIDE DEF at, last
  <2>3. ASSUME NEW w \in first .. last PROVE w \in Pcs /\ choice[w] \in Predict(w)
    <3> HIDE DEF first
    <3>1. w \in BlockRest(first) /\ choice \in BlockChoices(first)
      BY <2>1 DEF first
    <3> QED BY <2>1, <3>1 DEF BlockChoices
  <2>4. ASSUME NEW w \in first .. last
        PROVE  Fetched(at[w], w, choice[w]) \in Entries
    <3>1. /\ choice[w].taken \in BOOLEAN /\ choice[w].target \in Nat /\ choice[w].eff \in Effects
      BY <2>3, Predictions
    <3>2. at[w].pos \in Nat /\ at[w].rasN \in Nat
      <4>1. w \in first .. last + 1
        BY <2>1
      <4> QED BY <2>2, <4>1 DEF Predictors
    <3>3. To(FALSE, 0) \in Outs
      BY DEF To, Outs
    <3> QED BY <2>3, <3>1, <3>2, <3>3 DEF Fetched, Entries
  <2>5. /\ new \in Seq(Entries) /\ Len(new) = last - first + 1
        /\ \A i \in 1 .. Len(new) :
             /\ first + i - 1 \in first .. last
             /\ new[i] = Fetched(at[first + i - 1], first + i - 1, choice[first + i - 1])
    <3>1. last - first + 1 \in Nat
      BY <2>1
    <3>2. \A i \in 1 .. last - first + 1 : first + i - 1 \in first .. last
      BY <2>1
    <3>3. new \in [1 .. last - first + 1 -> Entries]
      BY <2>4, <3>2
    <3>4. \A i \in 1 .. last - first + 1 :
            new[i] = Fetched(at[first + i - 1], first + i - 1, choice[first + i - 1])
      OBVIOUS
    <3> HIDE DEF new, first
    <3>5. new \in Seq(Entries) /\ Len(new) = last - first + 1
      BY <3>1, <3>3
    <3> QED BY <3>2, <3>4, <3>5
  <2> HIDE DEF new
  <2>6. ASSUME NEW i \in 1 .. Len(new)
        PROVE  /\ new[i].pc = first + i - 1 /\ new[i].taken = choice[first + i - 1].taken
               /\ new[i].eff = choice[first + i - 1].eff /\ new[i].resolved = FALSE
               /\ new[i].hist = at[first + i - 1].pos /\ new[i].rasN = at[first + i - 1].rasN
    <3> DEFINE w == first + i - 1
    <3>1. new[i] = Fetched(at[w], w, choice[w])
      BY <2>5
    <3> HIDE DEF w
    <3>2. /\ new[i].pc = w /\ new[i].taken = choice[w].taken /\ new[i].eff = choice[w].eff
          /\ new[i].resolved = FALSE /\ new[i].hist = at[w].pos /\ new[i].rasN = at[w].rasN
      BY <3>1 DEF Fetched
    <3> QED BY <3>2 DEF w
  <2>7. /\ c.pr = at[last + 1] /\ c.fe.q = f.q \o new /\ c.fe.outstanding = FALSE
    BY <1>1, <1>3 DEF Consume, ProcessFetch, at, last, new
  <2> HIDE DEF c
  <2>8. s \in Seq(Entries) /\ rob \o (f.q \o new) = s \o new /\ Len(s) = Len(rob) + Len(f.q)
        /\ Len(rob) \in Nat /\ Len(f.q) \in Nat /\ Len(new) \in Nat
    <3>1. (rob \o f.q) \o new = rob \o (f.q \o new)
      BY <1>1, <2>5, Rejoin, Zenon
    <3>2. rob \o f.q \in Seq(Entries) /\ Len(rob \o f.q) = Len(rob) + Len(f.q)
      BY <1>1
    <3> QED BY <1>1, <2>5, <3>1, <3>2
  <2>9. Len(new) <= BlockWords /\ Len(f.q) + BlockWords <= FetchQSize /\ Len(rob) <= RobSize
    BY <2>1, <2>5 DEF Room
  <2>10. Len(s) + Len(new) <= RobSize + FetchQSize /\ Len(f.q) + Len(new) <= FetchQSize
    <3>1. BlockWords \in Nat /\ RobSize \in Nat /\ FetchQSize \in Nat
      BY FrontEndAssumption
    <3> HIDE DEF s
    <3> QED BY <2>8, <2>9, <3>1
  <2>11. Room(rob, c.fe)
    <3> DEFINE u == f.q \o new
               m == Len(f.q)
    <3>1. Len(u) = m + Len(new) /\ m \in Nat
          /\ (\A k \in 1 .. m : u[k] = f.q[k]) /\ \A i \in 1 .. Len(new) : u[m + i] = new[i]
      BY <1>1, <2>5, Joined
    <3>2. \A k \in 1 .. m : ~f.q[k].resolved
      BY DEF Room
    <3> HIDE DEF u, m
    <3>3. ASSUME NEW k \in 1 .. Len(u) PROVE ~u[k].resolved
      <4>1. CASE k \in 1 .. m
        BY <3>1, <3>2, <4>1
      <4>2. CASE k \notin 1 .. m
        <5> DEFINE i == k - m
        <5>1. i \in 1 .. Len(new) /\ k = m + i
          BY <2>8, <3>1, <4>2
        <5> HIDE DEF i
        <5>2. u[k] = new[i] /\ new[i].resolved = FALSE
          BY <2>6, <3>1, <5>1
        <5> QED BY <5>2
      <4> QED BY <4>1, <4>2
    <3>4. Len(u) <= FetchQSize
      BY <2>10, <3>1 DEF m
    <3> QED BY <2>7, <2>9, <3>3, <3>4 DEF Room, u
  <2>12. PICK d : /\ Tracks(p, s, Meanings(s), arch.hist, d)
                  /\ KindsStay => (\A k \in 1 .. Len(s) : Fits(s[k])) /\ d = arch.rasN
    BY DEF Recorded
  <2> DEFINE t == s \o new
             n == Len(s)
  <2>13. /\ t \in Seq(Entries) /\ Len(t) = n + Len(new) /\ n \in Nat
         /\ (\A k \in 1 .. n : t[k] = s[k]) /\ \A i \in 1 .. Len(new) : t[n + i] = new[i]
    BY <2>5, <2>8, Joined
  <2> HIDE DEF s, t, n
  <2>14. /\ \A k \in 1 .. n : Meanings(t)[k] = Meanings(s)[k]
         /\ \A i \in 1 .. Len(new) : Meanings(t)[n + i] = choice[first + i - 1].eff
    <3>1. /\ \A k \in 1 .. n : Meanings(s)[k] = EffectOf(s[k])
          /\ \A k \in 1 .. n + Len(new) : Meanings(t)[k] = EffectOf(t[k])
      BY <2>8, <2>13, MeaningsAre DEF n
    <3>2. ASSUME NEW k \in 1 .. n PROVE Meanings(t)[k] = Meanings(s)[k]
      <4>1. k \in 1 .. n + Len(new)
        BY <2>8, <2>13
      <4> QED BY <2>13, <3>1, <4>1
    <3>3. ASSUME NEW i \in 1 .. Len(new) PROVE Meanings(t)[n + i] = choice[first + i - 1].eff
      <4>1. n + i \in 1 .. n + Len(new)
        BY <2>8, <2>13
      <4>2. EffectOf(new[i]) = choice[first + i - 1].eff
        BY <2>6 DEF EffectOf
      <4> QED BY <2>13, <3>1, <4>1, <4>2
    <3> QED BY <3>2, <3>3
  <2>15. Tracks(c.pr, t, Meanings(t), arch.hist, d)
    <3>1. Tracks(at[last + 1], t, Meanings(t), arch.hist, d)
      <4>1. Len(s) + Len(new) <= RobSize + FetchQSize
        BY <2>10
      <4>2. /\ \A k \in 1 .. Len(s) : Meanings(t)[k] = Meanings(s)[k]
            /\ \A i \in 1 .. Len(new) : Meanings(t)[Len(s) + i] = choice[first + i - 1].eff
        BY <2>14 DEF n
      <4>3. \A i \in 1 .. Len(new) : /\ new[i].hist = at[first + i - 1].pos
                                     /\ new[i].rasN = at[first + i - 1].rasN
        BY <2>6
      <4>4. first \in Nat /\ last \in Nat /\ first <= last /\ Len(new) = last - first + 1
        BY <2>1, <2>5
      <4>5. s \in Seq(Entries) /\ new \in Seq(Entries) /\ Tracks(p, s, Meanings(s), arch.hist, d)
        BY <2>5, <2>8, <2>12
      <4> HIDE DEF first
      <4> DEFINE x == Meanings(s)
                 y == Meanings(t)
      <4> HIDE DEF x, y
      <4>6. Tracks(at[last + 1], s \o new, y, arch.hist, d)
        BY <4>1, <4>2, <4>3, <4>4, <4>5, TracksBlock DEF at, x, y
      <4> QED BY <4>6 DEF t, y
    <3> QED BY <2>7, <3>1
  <2>16. KindsStay => (\A k \in 1 .. Len(t) : Fits(t[k])) /\ d = arch.rasN
    <3> SUFFICES ASSUME KindsStay, NEW k \in 1 .. Len(t) PROVE Fits(t[k])
      BY <2>12
    <3>1. CASE k \in 1 .. n
      BY <2>12, <2>13, <3>1 DEF n
    <3>2. CASE k \notin 1 .. n
      <4> DEFINE i == k - n
      <4>1. i \in 1 .. Len(new) /\ k = n + i
        BY <2>8, <2>13, <3>2
      <4> HIDE DEF i
      <4> DEFINE w == first + i - 1
      <4>2. w \in first .. last /\ t[k] = new[i]
        BY <2>5, <2>13, <4>1
      <4>3. /\ new[i].pc = w /\ new[i].taken = choice[w].taken
            /\ new[i].eff = choice[w].eff /\ new[i].resolved = FALSE
        BY <2>6, <4>1
      <4> HIDE DEF w
      <4>4. w \in Pcs /\ choice[w] \in Predict(w) /\ SameKinds
        BY <2>3, <4>2
      <4>5. Fits(new[i])
        BY <4>3, <4>4, PredictionsFit
      <4> QED BY <4>2, <4>5
    <3> QED BY <3>1, <3>2
  <2>17. rob \o c.fe.q = t
    BY <2>7, <2>8 DEF t
  <2>18. Recorded(rob, c.fe, c.pr, arch)
    <3>1. \E z : /\ Tracks(c.pr, t, Meanings(t), arch.hist, z)
                 /\ KindsStay => (\A k \in 1 .. Len(t) : Fits(t[k])) /\ z = arch.rasN
      BY <2>15, <2>16
    <3> QED BY <2>17, <3>1, Zenon DEF Recorded
  <2> QED BY <2>11, <2>18 DEF c
<1> QED BY <1>2, <1>3

-----------------------------------------------------------------------------
(* Each step keeps it *)

(* What is left to show of a step that rewrites no code.                   *)
LEMMA RecordKeeps ==
  ASSUME SpecInv, UNCHANGED text, stage' \in Stages, Room(rob', fe'),
         Recorded(rob', fe', pr', arch')
  PROVE  SpecInv'
<1>1. code' = code /\ trained' = trained
  BY DEF text
<1>2. \A e : EffectOf(e)' = EffectOf(e)
  BY <1>1 DEF EffectOf, RealEffect
<1>3. Recorded(rob, fe, pr, arch)'
  BY <1>2 DEF Recorded, Meanings
<1>4. Room(rob, fe)'
  BY DEF Room
<1>5. KindsStay => SameKinds'
  BY <1>1 DEF SpecInv, SameKinds
<1> QED BY <1>3, <1>4, <1>5 DEF SpecInv

(* Only the queue of the fetch state is recorded.                          *)
LEMMA SameQueue ==
  ASSUME NEW r, NEW f, NEW g, NEW p, NEW a, Recorded(r, f, p, a), g.q = f.q
  PROVE  Recorded(r, g, p, a)
BY Zenon DEF Recorded

(* An answer of the icache, consumed or dropped.                           *)
LEMMA AnswerRecords ==
  ASSUME FrontInv, SpecInv, NEW a \in AfterAnswer
  PROVE  Room(rob, a.fe) /\ Recorded(rob, a.fe, a.pr, arch)
<1>1. /\ fe \in Fetches /\ pr \in Predictors /\ Shape /\ Training
      /\ Room(rob, fe) /\ Recorded(rob, fe, pr, arch) /\ (KindsStay => SameKinds)
  BY DEF FrontInv, Shape, SpecInv
<1>2. CASE ready
  <2>1. PICK c \in BlockChoices(fe.fetchPc) : a = Consume(fe, pr, c)
    BY <1>2 DEF AfterAnswer
  <2>2. fe.outstanding
    BY <1>2 DEF FrontInv
  <2>3. Room(rob, Consume(fe, pr, c).fe)
        /\ Recorded(rob, Consume(fe, pr, c).fe, Consume(fe, pr, c).pr, arch)
    BY <1>1, <2>2, ConsumeRecords
  <2> QED BY <2>1, <2>3
<1>3. CASE ~ready
  <2>1. a = [fe |-> fe, pr |-> pr]
    BY <1>3 DEF AfterAnswer
  <2>2. a.fe = fe /\ a.pr = pr
    BY <2>1
  <2> QED BY <1>1, <2>2
<1> QED BY <1>2, <1>3

(* A request touches neither queue nor predictor.                          *)
LEMMA RequestRecords ==
  ASSUME NEW f \in Fetches, NEW p, Room(rob, f), Recorded(rob, f, p, arch), MayRequest(f)
  PROVE  Room(rob, Requested(f)) /\ Recorded(rob, Requested(f), p, arch)
<1> DEFINE g == Requested(f)
<1>1. g.q = f.q
  BY DEF Requested, Fetches
<1>2. Len(f.q) + BlockWords <= FetchQSize
  BY DEF MayRequest, Idle
<1> HIDE DEF g
<1>3. Room(rob, g)
  BY <1>1, <1>2 DEF Room
<1>4. Recorded(rob, g, p, arch)
  BY <1>1, SameQueue
<1> QED BY <1>3, <1>4 DEF g

(* The fetch stage.                                                        *)
LEMMA FetchStageRecords ==
  ASSUME FrontInv, SpecInv, FetchStage
  PROVE  SpecInv'
<1>1. /\ stage' \in Stages /\ UNCHANGED <<rob, text, arch>>
  BY DEF FetchStage, Stages
<1>2. Shape /\ Training /\ (KindsStay => SameKinds)
  BY DEF FrontInv, SpecInv
<1>3. SUFFICES Room(rob, fe') /\ Recorded(rob, fe', pr', arch)
  BY <1>1, RecordKeeps
<1>4. ASSUME NEW a \in AfterAnswer, fe' = a.fe, pr' = a.pr
      PROVE  Room(rob, fe') /\ Recorded(rob, fe', pr', arch)
  BY <1>4, AnswerRecords
<1>5. ASSUME NEW a \in AfterAnswer, MayRequest(a.fe), fe' = Requested(a.fe), pr' = a.pr
      PROVE  Room(rob, fe') /\ Recorded(rob, fe', pr', arch)
  <2>1. a.fe \in Fetches
    BY AnswerKeeps
  <2> QED BY <1>5, <2>1, AnswerRecords, RequestRecords
<1>6. ASSUME NEW a \in AfterAnswer, MayRequest(a.fe), NEW c \in BlockChoices(a.fe.pc),
             fe' = Consume(Requested(a.fe), a.pr, c).fe,
             pr' = Consume(Requested(a.fe), a.pr, c).pr
      PROVE  Room(rob, fe') /\ Recorded(rob, fe', pr', arch)
  <2> DEFINE g == Requested(a.fe)
  <2>1. a.fe \in Fetches /\ a.pr \in Predictors /\ OnThePath(rob, a.fe, arch.next)
    BY AnswerKeeps
  <2>2. g \in Fetches /\ g.outstanding
    BY <1>6, <2>1, RequestKeeps
  <2>3. g.fetchPc = a.fe.pc
    BY <2>1 DEF Requested, Fetches
  <2>4. Room(rob, g) /\ Recorded(rob, g, a.pr, arch)
    BY <1>6, <2>1, AnswerRecords, RequestRecords
  <2> HIDE DEF g
  <2>5. c \in BlockChoices(g.fetchPc)
    BY <2>3
  <2>6. Room(rob, Consume(g, a.pr, c).fe)
        /\ Recorded(rob, Consume(g, a.pr, c).fe, Consume(g, a.pr, c).pr, arch)
    BY <1>2, <2>1, <2>2, <2>4, <2>5, ConsumeRecords
  <2> QED BY <1>6, <2>6 DEF g
<1> QED BY <1>4, <1>5, <1>6 DEF FetchStage

(* The clock edge.                                                         *)
LEMMA EdgeRecords ==
  ASSUME FrontInv, SpecInv, Edge
  PROVE  SpecInv'
<1>1. /\ fe \in Fetches /\ Room(rob, fe) /\ Recorded(rob, fe, pr, arch)
      /\ UNCHANGED <<pr, rob, text, arch>> /\ stage' \in Stages
  BY DEF Edge, FrontInv, Shape, SpecInv, Stages
<1>2. fe'.q = fe.q /\ fe'.outstanding = fe.outstanding
  BY <1>1 DEF Edge, Fetches
<1>3. Room(rob, fe')
  BY <1>1, <1>2 DEF Room
<1>4. Recorded(rob, fe', pr, arch)
  BY <1>1, <1>2, SameQueue
<1> QED BY <1>1, <1>3, <1>4, RecordKeeps

(* At commit, what an instruction does to the depth is what its kind says. *)
LEMMA DepthIsReal ==
  ASSUME Shape, SameKinds, NEW e \in Entries, Fits(e), Outcomes(e.pc) = {} \/ e.resolved, NEW d
  PROVE  Depth(d, EffectOf(e)) = Depth(d, RealEffect(e.pc, TRUE))
<1>1. e.pc \in Pcs /\ e.taken \in BOOLEAN /\ e.resolved \in BOOLEAN
  BY DEF Entries
<1>2. code[e.pc].kind = Kind[e.pc] /\ Kind[e.pc] \in Kinds
  BY <1>1, FrontEndAssumption DEF SameKinds
<1>3. CASE Kind[e.pc] = "call"
  <2>1. e.resolved /\ e.actual.taken
    BY <1>1, <1>2, <1>3, OutcomesOf DEF Branch, Fits
  <2>2. EffectOf(e) = "push"
    <3>1. CASE Mispredicted(e, e.actual)
      BY <1>2, <1>3, <2>1, <3>1 DEF EffectOf, RealEffect
    <3>2. CASE ~Mispredicted(e, e.actual)
      <4>1. e.taken
        BY <2>1, <3>2, <1>1 DEF Mispredicted
      <4> QED BY <1>3, <3>2, <4>1 DEF EffectOf, Fits
    <3> QED BY <3>1, <3>2
  <2>3. RealEffect(e.pc, TRUE) = "push"
    BY <1>2, <1>3 DEF RealEffect
  <2> QED BY <2>2, <2>3
<1>4. CASE Kind[e.pc] = "ret"
  <2>1. e.resolved /\ e.actual.taken
    BY <1>1, <1>2, <1>4, OutcomesOf DEF Branch, Fits
  <2>2. EffectOf(e) = "pop"
    <3>1. CASE Mispredicted(e, e.actual)
      BY <1>2, <1>4, <2>1, <3>1 DEF EffectOf, RealEffect
    <3>2. CASE ~Mispredicted(e, e.actual)
      <4>1. e.taken
        BY <2>1, <3>2, <1>1 DEF Mispredicted
      <4> QED BY <1>4, <3>2, <4>1 DEF EffectOf, Fits
    <3> QED BY <3>1, <3>2
  <2>3. RealEffect(e.pc, TRUE) = "pop"
    BY <1>2, <1>4 DEF RealEffect
  <2> QED BY <2>2, <2>3
<1>5. CASE Kind[e.pc] \notin {"call", "ret"}
  <2>1. \A b : RealEffect(e.pc, b) \notin {"push", "pop"}
    BY <1>2, <1>5 DEF RealEffect
  <2>2. EffectOf(e) \notin {"push", "pop"}
    BY <1>5, <2>1 DEF EffectOf, Fits
  <2> QED BY <2>1, <2>2 DEF Depth
<1> QED BY <1>3, <1>4, <1>5

(* The oldest instruction commits, and moves the program on.               *)
LEMMA CommitRecords ==
  ASSUME FrontInv, SpecInv, CommitHead
  PROVE  SpecInv'
<1> DEFINE s == rob \o fe.q
           e == rob[1]
<1>1. /\ Shape /\ rob \in Seq(Entries) /\ fe.q \in Seq(Entries) /\ rob # <<>>
      /\ Room(rob, fe) /\ Recorded(rob, fe, pr, arch) /\ (KindsStay => SameKinds)
      /\ stage \in Stages
  BY DEF CommitHead, FrontInv, Shape, Fetches, SpecInv
<1>2. /\ rob' = Tail(rob) /\ UNCHANGED <<stage, fe, pr, text>>
      /\ Outcomes(e.pc) = {} \/ e.resolved
      /\ arch'.hist = LastBits(arch.hist \o Bit(EffectOf(e)))
      /\ arch'.rasN = Depth(arch.rasN, RealEffect(e.pc, TRUE))
  <2>1. Head(rob) = e
    BY <1>1
  <2>2. /\ rob' = Tail(rob) /\ UNCHANGED <<stage, fe, pr, text>>
        /\ Outcomes(Head(rob).pc) = {} \/ Head(rob).resolved
        /\ arch' = [next |-> NextOf(Head(rob)),
                    hist |-> LastBits(arch.hist \o Bit(EffectOf(Head(rob)))),
                    rasN |-> Depth(arch.rasN, RealEffect(Head(rob).pc, TRUE))]
    BY DEF CommitHead
  <2>3. /\ arch'.hist = LastBits(arch.hist \o Bit(EffectOf(Head(rob))))
        /\ arch'.rasN = Depth(arch.rasN, RealEffect(Head(rob).pc, TRUE))
    BY <2>2
  <2> HIDE DEF e
  <2> QED BY <2>1, <2>2, <2>3, Zenon
<1>3. /\ s \in Seq(Entries) /\ s # <<>> /\ s[1] = e /\ Tail(s) = Tail(rob) \o fe.q
      /\ Tail(s) \in Seq(Entries) /\ Len(Tail(s)) = Len(s) - 1 /\ Len(s) \in Nat /\ 1 \in 1 .. Len(s)
      /\ e \in Entries
  BY <1>1
<1>4. \A k \in 1 .. Len(s) - 1 : Tail(s)[k] = s[k + 1] /\ k + 1 \in 1 .. Len(s)
  BY <1>3
<1>5. PICK d : /\ Tracks(pr, s, Meanings(s), arch.hist, d)
               /\ KindsStay => (\A k \in 1 .. Len(s) : Fits(s[k])) /\ d = arch.rasN
  BY <1>1 DEF Recorded
<1> HIDE DEF s, e
<1>6. Meanings(s)[1] = EffectOf(e)
      /\ \A k \in 1 .. Len(s) - 1 : Meanings(Tail(s))[k] = Meanings(s)[k + 1]
  BY <1>3, <1>4, MeaningsAre
<1>7. Tracks(pr, Tail(s), Meanings(Tail(s)), arch'.hist, Depth(d, EffectOf(e)))
  <2>1. Tracks(pr, Tail(s), Meanings(Tail(s)),
               LastBits(arch.hist \o Bit(Meanings(s)[1])), Depth(d, Meanings(s)[1]))
    BY <1>3, <1>5, <1>6, TracksLater
  <2> QED BY <1>2, <1>6, <2>1
<1>8. KindsStay => /\ \A k \in 1 .. Len(Tail(s)) : Fits(Tail(s)[k])
                   /\ Depth(d, EffectOf(e)) = arch'.rasN
  <2> SUFFICES ASSUME KindsStay
               PROVE  /\ \A k \in 1 .. Len(Tail(s)) : Fits(Tail(s)[k])
                      /\ Depth(d, EffectOf(e)) = arch'.rasN
    OBVIOUS
  <2>1. Fits(e)
    BY <1>3, <1>5
  <2>2. Depth(d, EffectOf(e)) = Depth(d, RealEffect(e.pc, TRUE))
    BY <1>1, <1>2, <1>3, <2>1, DepthIsReal
  <2> QED BY <1>2, <1>3, <1>4, <1>5, <2>2
<1>9. Recorded(rob', fe', pr', arch')
  <2>1. rob' \o fe'.q = Tail(s) /\ pr' = pr
    BY <1>2, <1>3
  <2> QED BY <1>7, <1>8, <2>1 DEF Recorded
<1>10. Room(rob', fe')
  <2>1. Len(rob') <= Len(rob) /\ Len(rob') \in Nat /\ Len(rob) \in Nat /\ RobSize \in Nat
    BY <1>1, <1>2, FrontEndAssumption
  <2>2. Len(rob) <= RobSize
    BY <1>1 DEF Room
  <2>3. Len(rob') <= RobSize
    BY <2>1, <2>2
  <2> QED BY <1>1, <1>2, <2>3 DEF Room
<1> QED BY <1>1, <1>2, <1>9, <1>10, RecordKeeps

(* Dispatch moves the front of the fetch queue to the ROB.                 *)
LEMMA DispatchRecords ==
  ASSUME FrontInv, SpecInv, Dispatch
  PROVE  SpecInv'
<1>1. /\ rob \in Seq(Entries) /\ fe \in Fetches
      /\ fe.q \in Seq(Entries) /\ fe.q # <<>> /\ Len(rob) < RobSize
      /\ rob' = Append(rob, Head(fe.q)) /\ UNCHANGED <<stage, pr, text, arch>>
      /\ fe' = [fe EXCEPT !.q = Tail(fe.q)]
      /\ Room(rob, fe) /\ Recorded(rob, fe, pr, arch) /\ stage \in Stages
  BY DEF Dispatch, FrontInv, Shape, Fetches, SpecInv
<1>2. rob' \in Seq(Entries) /\ Tail(fe.q) \in Seq(Entries)
      /\ rob' \o Tail(fe.q) = rob \o fe.q
  <2> DEFINE h == <<Head(fe.q)>>
             t == Tail(fe.q)
  <2>1. /\ rob' \in Seq(Entries) /\ h \in Seq(Entries) /\ t \in Seq(Entries)
        /\ rob' = rob \o h
    BY <1>1
  <2>2. h \o t = fe.q
    BY <1>1
  <2> HIDE DEF h, t
  <2>3. (rob \o h) \o t = rob \o (h \o t)
    BY <1>1, <2>1, Rejoin, Zenon
  <2> QED BY <2>1, <2>2, <2>3 DEF t
<1>3. fe'.q = Tail(fe.q) /\ fe'.outstanding = fe.outstanding
  BY <1>1 DEF Fetches
<1>4. /\ Len(rob') = Len(rob) + 1 /\ Len(rob) \in Nat /\ Len(fe.q) \in Nat
      /\ Len(Tail(fe.q)) = Len(fe.q) - 1
      /\ \A k \in 1 .. Len(fe.q) - 1 : Tail(fe.q)[k] = fe.q[k + 1]
  BY <1>1
<1>5. Room(rob', fe')
  <2>1. Len(rob') <= RobSize /\ RobSize \in Nat /\ FetchQSize \in Nat /\ BlockWords \in Nat
    BY <1>1, <1>4, FrontEndAssumption
  <2> DEFINE m == Len(fe.q)
             l == Len(Tail(fe.q))
  <2>2. m <= FetchQSize /\ (fe.outstanding => m + BlockWords <= FetchQSize)
        /\ \A k \in 1 .. m : ~fe.q[k].resolved
    BY <1>1 DEF Room
  <2>3. l = m - 1 /\ m \in Nat /\ \A k \in 1 .. l : Tail(fe.q)[k] = fe.q[k + 1]
    BY <1>4
  <2> HIDE DEF m, l
  <2>4. l <= FetchQSize /\ (fe.outstanding => l + BlockWords <= FetchQSize)
    BY <2>1, <2>2, <2>3
  <2>5. \A k \in 1 .. l : k + 1 \in 1 .. m
    BY <2>3
  <2>6. \A k \in 1 .. l : ~Tail(fe.q)[k].resolved
    BY <2>2, <2>3, <2>5
  <2> QED BY <1>3, <2>1, <2>4, <2>6 DEF Room, l
<1>6. Recorded(rob', fe', pr', arch')
  <2>1. rob' \o fe'.q = rob \o fe.q /\ pr' = pr /\ arch' = arch
    BY <1>1, <1>2, <1>3
  <2> QED BY <1>1, <2>1, Zenon DEF Recorded
<1> QED BY <1>1, <1>5, <1>6, RecordKeeps

(* The end of a stage changes nothing recorded.                            *)
LEMMA EndStageRecords ==
  ASSUME SpecInv, EndStage
  PROVE  SpecInv'
<1>1. /\ UNCHANGED <<fe, pr, rob, text, arch>> /\ stage' \in Stages
  BY DEF EndStage, StageAfter, Stages
<1> QED BY <1>1, RecordKeeps DEF SpecInv

(* A squash leaves room.                                                   *)
LEMMA SquashLeavesRoom ==
  ASSUME FrontInv, NEW r, Len(r) <= RobSize, NEW t
  PROVE  Room(r, Squashed(fe, t)) /\ Squashed(fe, t).q = <<>>
<1> DEFINE g == Squashed(fe, t)
<1>1. g.q = <<>> /\ FetchQSize \in Nat /\ BlockWords \in Nat /\ BlockWords <= FetchQSize
  BY FrontEndAssumption DEF Squashed, FrontInv, Shape, Fetches
<1> HIDE DEF g
<1>2. Len(g.q) = 0
  BY <1>1
<1>3. Room(r, g)
  BY <1>1, <1>2 DEF Room
<1> QED BY <1>1, <1>3 DEF g

(* A violation squashes from the load on and restores its checkpoint.      *)
LEMMA ViolateRecords ==
  ASSUME FrontInv, SpecInv, NEW k \in 1 .. Len(rob), Violate(k)
  PROVE  SpecInv'
<1> DEFINE s == rob \o fe.q
           r == SubSeq(rob, 1, k - 1)
<1>1. /\ rob \in Seq(Entries) /\ fe.q \in Seq(Entries) /\ pr \in Predictors
      /\ rob' = r /\ UNCHANGED <<stage, text, arch>>
      /\ pr' = Restore(pr, rob[k]) /\ fe' = Squashed(fe, rob[k].pc)
      /\ Room(rob, fe) /\ Recorded(rob, fe, pr, arch) /\ stage \in Stages
  BY DEF Violate, FrontInv, Shape, Fetches, SpecInv
<1>2. /\ s \in Seq(Entries) /\ s[k] = rob[k] /\ k \in 1 .. Len(s) /\ Len(s) \in Nat
      /\ r \in Seq(Entries) /\ Len(r) = k - 1 /\ \A j \in 1 .. k - 1 : r[j] = s[j]
      /\ Len(rob) \in Nat
  <2>1. s \in Seq(Entries) /\ s[k] = rob[k] /\ k \in 1 .. Len(s) /\ Len(s) \in Nat
        /\ Len(rob) \in Nat /\ \A j \in 1 .. Len(rob) : s[j] = rob[j]
    BY <1>1
  <2>2. r \in Seq(Entries) /\ Len(r) = k - 1 /\ \A j \in 1 .. k - 1 : r[j] = rob[j]
    BY <1>1
  <2>3. \A j \in 1 .. k - 1 : j \in 1 .. Len(rob)
    BY <1>1
  <2> HIDE DEF s, r
  <2> QED BY <2>1, <2>2, <2>3
<1>3. PICK d : /\ Tracks(pr, s, Meanings(s), arch.hist, d)
               /\ KindsStay => (\A j \in 1 .. Len(s) : Fits(s[j])) /\ d = arch.rasN
  BY <1>1 DEF Recorded
<1> HIDE DEF s, r
<1>4. \A j \in 1 .. k - 1 : r[j] = s[j] /\ Meanings(r)[j] = Meanings(s)[j] /\ j \in 1 .. Len(s)
  <2>1. \A j \in 1 .. k - 1 : j \in 1 .. Len(s) /\ j \in 1 .. Len(r)
    BY <1>2
  <2> QED BY <1>2, <2>1, MeaningsAre
<1>5. Tracks(pr', r, Meanings(r), arch.hist, d)
  BY <1>1, <1>2, <1>3, <1>4, TracksShort
<1>6. Room(r, fe') /\ fe'.q = <<>>
  <2>1. Len(r) <= RobSize
    <3>1. Len(rob) <= RobSize /\ RobSize \in Nat
      BY <1>1, FrontEndAssumption DEF Room
    <3> QED BY <1>2, <3>1
  <2> QED BY <1>1, <2>1, SquashLeavesRoom
<1>7. r \o fe'.q = r
  BY <1>2, <1>6
<1>8. KindsStay => (\A j \in 1 .. Len(r) : Fits(r[j])) /\ d = arch.rasN
  BY <1>2, <1>3, <1>4
<1>9. Recorded(rob', fe', pr', arch')
  <2>1. rob' \o fe'.q = r /\ arch' = arch
    BY <1>1, <1>7
  <2> QED BY <1>5, <1>8, <2>1 DEF Recorded
<1> QED BY <1>1, <1>6, <1>9, RecordKeeps

(* A branch resolves: correct, or squashed, restored and replayed.         *)
LEMMA ResolveRecords ==
  ASSUME FrontInv, SpecInv, NEW k \in 1 .. Len(rob), Resolve(k)
  PROVE  SpecInv'
<1> DEFINE e == rob[k]
           s == rob \o fe.q
<1>1. PICK o \in Outcomes(e.pc) :
        LET r == [rob EXCEPT ![k].resolved = TRUE, ![k].actual = o]
        IN  IF Mispredicted(e, o)
            THEN /\ rob' = SubSeq(r, 1, k)
                 /\ pr' = Apply(Restore(pr, e), ReplayEffect(e, o.taken))
                 /\ fe' = Squashed(fe, o.next)
                 /\ stage' = "agu"
            ELSE rob' = r /\ UNCHANGED <<pr, fe, stage>>
  BY DEF Resolve
<1> DEFINE d == [e EXCEPT !.resolved = TRUE, !.actual = o]
           r == [rob EXCEPT ![k] = d]
<1>2. /\ Shape /\ rob \in Seq(Entries) /\ fe.q \in Seq(Entries) /\ pr \in Predictors
      /\ UNCHANGED <<text, arch>> /\ ~e.resolved
      /\ Room(rob, fe) /\ Recorded(rob, fe, pr, arch) /\ stage \in Stages
      /\ KindsStay => SameKinds
  BY DEF Resolve, FrontInv, Shape, Fetches, SpecInv
<1>3. e \in Entries /\ e.pc \in Pcs /\ e.hist \in Nat /\ e.rasN \in Nat
  <2>1. e \in Entries
    BY <1>2
  <2> HIDE DEF e
  <2>2. e.pc \in Pcs /\ e.hist \in Nat /\ e.rasN \in Nat
    BY <2>1 DEF Entries
  <2> QED BY <2>1, <2>2
<1>4. o \in Outs
  <2> HIDE DEF e
  <2> QED BY <1>2, <1>3, OutcomesOf
<1>5. /\ d \in Entries /\ d.pc = e.pc /\ d.taken = e.taken /\ d.eff = e.eff /\ d.target = e.target
      /\ d.hist = e.hist /\ d.rasN = e.rasN /\ d.resolved = TRUE /\ d.actual = o
  <2> HIDE DEF e
  <2> QED BY <1>3, <1>4 DEF Entries
<1>6. [rob EXCEPT ![k].resolved = TRUE, ![k].actual = o] = r
  BY <1>2
<1>7. r \in Seq(Entries) /\ Len(r) = Len(rob) /\ r[k] = d
      /\ \A j \in 1 .. Len(rob) : j # k => r[j] = rob[j]
  <2> HIDE DEF d
  <2> QED BY <1>2, <1>5
<1>8. s \in Seq(Entries) /\ Len(s) = Len(rob) + Len(fe.q) /\ Len(rob) \in Nat /\ Len(fe.q) \in Nat
      /\ \A j \in 1 .. Len(rob) : s[j] = rob[j] /\ j \in 1 .. Len(s)
  BY <1>2
<1>9. PICK n : /\ Tracks(pr, s, Meanings(s), arch.hist, n)
               /\ KindsStay => (\A j \in 1 .. Len(s) : Fits(s[j])) /\ n = arch.rasN
  BY <1>2 DEF Recorded
<1>10. s[k] = e /\ k \in 1 .. Len(s)
  BY <1>8
<1> HIDE DEF d, r, s, e
(* A call or a return is taken, whatever was predicted.                    *)
<1>11. KindsStay => Fits(d)
  <2> SUFFICES ASSUME KindsStay PROVE Fits(d)
    OBVIOUS
  <2>1. Fits(e)
    BY <1>9, <1>10
  <2>2. code[e.pc].kind = Kind[e.pc]
    BY <1>2, <1>3 DEF SameKinds
  <2>3. Kind[e.pc] \in {"call", "ret"} => o.taken
    <3>1. CASE Kind[e.pc] = "call"
      <4>1. o = To(TRUE, code[e.pc].target)
        BY <2>2, <3>1 DEF Outcomes
      <4> QED BY <4>1 DEF To
    <3>2. CASE Kind[e.pc] = "ret"
      <4>1. o \in {To(TRUE, t) : t \in Returns}
        BY <2>2, <3>2 DEF Outcomes
      <4> QED BY <4>1 DEF To
    <3> QED BY <3>1, <3>2
  <2> QED BY <1>5, <2>1, <2>3 DEF Fits
<1>12. CASE Mispredicted(e, o)
  <2> DEFINE b == SubSeq(s, 1, k - 1)
             t == SubSeq(r, 1, k)
             q == Restore(pr, e)
             eff == ReplayEffect(e, o.taken)
             x == [j \in 1 .. k |-> IF j = k THEN eff ELSE Meanings(s)[j]]
  <2>1. /\ rob' = t /\ pr' = Apply(q, eff) /\ fe' = Squashed(fe, o.next) /\ stage' \in Stages
    BY <1>1, <1>6, <1>12 DEF e, Stages
  <2>2. q \in Predictors /\ q.pos = e.hist /\ (RasRepair => q.rasN = e.rasN)
    BY <1>2, <1>3 DEF Restore, Predictors
  <2>3. k \in Nat /\ k >= 1 /\ k - 1 \in 0 .. Len(s) /\ k \in 0 .. Len(r) /\ Len(s) \in Nat
    BY <1>7, <1>8
  <2>4. /\ b \in Seq(Entries) /\ Len(b) = k - 1 /\ \A j \in 1 .. k - 1 : b[j] = s[j]
    BY <1>8, <2>3
  <2>5. /\ t \in Seq(Entries) /\ Len(t) = k /\ \A j \in 1 .. k : t[j] = r[j]
    BY <1>7, <2>3
  <2> HIDE DEF b, t, q
  <2>6. t[k] = d /\ \A j \in 1 .. k - 1 : t[j] = b[j] /\ t[j] = s[j] /\ j \in 1 .. Len(s)
    <3>1. \A j \in 1 .. k - 1 : j \in 1 .. Len(rob) /\ j # k /\ j \in 1 .. k /\ j \in 1 .. Len(s)
      BY <1>8, <2>3
    <3>2. k \in 1 .. k
      BY <2>3
    <3>3. t[k] = d
      BY <1>7, <2>5, <3>2
    <3>4. ASSUME NEW j \in 1 .. k - 1 PROVE t[j] = b[j] /\ t[j] = s[j] /\ j \in 1 .. Len(s)
      <4>1. t[j] = r[j] /\ b[j] = s[j]
        BY <2>4, <2>5, <3>1
      <4>2. r[j] = rob[j] /\ s[j] = rob[j]
        BY <1>7, <1>8, <3>1
      <4> QED BY <3>1, <4>1, <4>2
    <3> QED BY <3>3, <3>4
  <2>7. x[k] = eff /\ \A j \in 1 .. k - 1 : x[j] = Meanings(s)[j]
    <3>1. k \in 1 .. k /\ \A j \in 1 .. k - 1 : j \in 1 .. k /\ j # k
      BY <2>3
    <3> HIDE DEF eff
    <3> QED BY <3>1
  <2>8. Like(eff, EffectOf(d))
    <3>1. EffectOf(d) = RealEffect(e.pc, o.taken)
      <4>1. Mispredicted(d, d.actual)
        BY <1>5, <1>12 DEF Mispredicted
      <4> QED BY <1>5, <4>1 DEF EffectOf
    <3>2. RasRepair \in BOOLEAN /\ code[e.pc].kind \in Kinds
      BY <1>2, <1>3, FrontEndAssumption DEF Shape, Instrs
    <3>3. CASE RasRepair
      <4>1. eff = RealEffect(e.pc, o.taken)
        BY <3>3 DEF ReplayEffect, RealEffect
      <4> QED BY <3>1, <4>1 DEF Like
    <3>4. CASE ~RasRepair /\ code[e.pc].kind = "cond"
      <4>1. eff = RealEffect(e.pc, o.taken)
        BY <3>4 DEF ReplayEffect, RealEffect
      <4> QED BY <3>1, <4>1 DEF Like
    <3>5. CASE ~RasRepair /\ code[e.pc].kind # "cond"
      <4>1. eff \notin {"taken", "nottaken"}
        BY <3>5 DEF ReplayEffect
      <4>2. RealEffect(e.pc, o.taken) \notin {"taken", "nottaken"}
        BY <3>5 DEF RealEffect
      <4> QED BY <3>1, <3>5, <4>1, <4>2 DEF Like
    <3> QED BY <3>3, <3>4, <3>5
  <2> HIDE DEF x, eff
  <2>9. Tracks(q, b, x, arch.hist, n)
    <3>1. \A j \in 1 .. k - 1 : b[j] = s[j] /\ x[j] = Meanings(s)[j]
      BY <2>4, <2>7
    <3>2. Tracks(Restore(pr, s[k]), b, x, arch.hist, n)
      BY <1>2, <1>8, <1>9, <1>10, <2>4, <3>1, TracksShort
    <3> QED BY <1>10, <3>2 DEF q
  <2>10. Tracks(Apply(q, eff), t, x, arch.hist, n)
    <3>1. Len(b) \in Nat /\ Len(t) = Len(b) + 1 /\ Len(b) < RobSize + FetchQSize
      <4>1. Len(rob) <= RobSize /\ RobSize \in Nat /\ FetchQSize \in Nat /\ k <= Len(rob)
        BY <1>2, <1>8, FrontEndAssumption DEF Room
      <4> QED BY <1>8, <2>3, <2>4, <2>5, <4>1
    <3>2. \A j \in 1 .. Len(b) : t[j] = b[j] /\ x[j] = x[j]
      BY <2>4, <2>6
    <3>3. CASE RasRepair
      <4>1. t[Len(t)].hist = q.pos /\ t[Len(t)].rasN = q.rasN /\ x[Len(t)] = eff
        BY <1>5, <2>2, <2>5, <2>6, <2>7, <3>3
      <4> QED BY <2>2, <2>9, <3>1, <3>2, <4>1, TracksMore
    <3>4. CASE ~RasRepair
      (* Then nothing is said about depths, and the entry may have q's.    *)
      <4> DEFINE v == [j \in 1 .. k |-> IF j = k THEN [hist |-> q.pos, rasN |-> q.rasN] ELSE b[j]]
      <4>1. v[k] = [hist |-> q.pos, rasN |-> q.rasN] /\ (\A j \in 1 .. k - 1 : v[j] = b[j])
            /\ Len(v) = k
        <5>1. k \in 1 .. k /\ \A j \in 1 .. k - 1 : j \in 1 .. k /\ j # k
          BY <2>3
        <5> QED BY <2>3, <5>1
      <4> HIDE DEF v
      <4>2. v[k].hist = q.pos /\ v[k].rasN = q.rasN
        BY <4>1
      <4>3. \A j \in 1 .. Len(b) : v[j] = b[j] /\ x[j] = x[j]
        BY <2>4, <4>1
      <4>4. v[Len(v)].hist = q.pos /\ v[Len(v)].rasN = q.rasN /\ x[Len(v)] = eff
            /\ Len(v) = Len(b) + 1
        BY <2>5, <2>7, <3>1, <4>1, <4>2
      <4>5. Tracks(Apply(q, eff), v, x, arch.hist, n)
        BY <2>2, <2>9, <3>1, <4>3, <4>4, TracksMore
      <4>6. \A j \in 1 .. k : v[j].hist = t[j].hist
        <5>1. \A j \in 1 .. k : j = k \/ j \in 1 .. k - 1
          BY <2>3
        <5>2. v[k].hist = t[k].hist
          BY <1>5, <2>2, <2>6, <4>2
        <5> QED BY <2>6, <4>1, <5>1, <5>2
      <4>7. MarksOf(Apply(q, eff), t) = MarksOf(Apply(q, eff), v)
        <5> DEFINE z == Apply(q, eff).pos
        <5>1. \A j \in 1 .. k + 1 : (IF j <= k THEN v[j].hist ELSE z) = (IF j <= k THEN t[j].hist ELSE z)
          <6>1. \A j \in 1 .. k + 1 : j <= k => j \in 1 .. k
            BY <2>3
          <6> HIDE DEF z
          <6> QED BY <4>6, <6>1
        <5> QED BY <2>5, <4>1, <5>1 DEF MarksOf
      <4> QED BY <2>5, <3>4, <4>1, <4>5, <4>7 DEF Tracks
    <3> QED BY <3>3, <3>4
  <2>11. \A j \in 1 .. Len(t) : Like(x[j], Meanings(t)[j])
    <3> SUFFICES ASSUME NEW j \in 1 .. k PROVE Like(x[j], Meanings(t)[j])
      BY <2>5
    <3>1. Meanings(t)[j] = EffectOf(t[j])
      BY <2>5, MeaningsAre
    <3>2. CASE j = k
      BY <2>6, <2>7, <2>8, <3>1, <3>2
    <3>3. CASE j # k
      <4>1. j \in 1 .. k - 1
        BY <2>3, <3>3
      <4>2. Meanings(s)[j] = EffectOf(s[j])
        BY <1>8, <2>6, <4>1, MeaningsAre
      <4> QED BY <2>6, <2>7, <3>1, <4>1, <4>2 DEF Like
    <3> QED BY <3>2, <3>3
  <2>12. Tracks(pr', t, Meanings(t), arch.hist, n)
    <3>1. Len(t) \in Nat
      BY <2>3, <2>5
    <3>2. Tracks(Apply(q, eff), t, Meanings(t), arch.hist, n)
      BY <2>10, <2>11, <3>1, TracksAlike
    <3> QED BY <2>1, <3>2 DEF q, eff
  <2>13. Room(t, fe') /\ fe'.q = <<>>
    <3>1. Len(t) <= RobSize
      <4>1. Len(rob) <= RobSize /\ RobSize \in Nat /\ k <= Len(rob)
        BY <1>2, <1>8, FrontEndAssumption DEF Room
      <4> QED BY <1>8, <2>3, <2>5, <4>1
    <3> QED BY <2>1, <3>1, SquashLeavesRoom
  <2>14. KindsStay => (\A j \in 1 .. Len(t) : Fits(t[j])) /\ n = arch.rasN
    <3> SUFFICES ASSUME KindsStay, NEW j \in 1 .. k PROVE Fits(t[j])
      BY <1>9, <2>5
    <3>1. j = k \/ j \in 1 .. k - 1
      BY <2>3
    <3> QED BY <1>9, <1>11, <2>6, <3>1
  <2>15. Recorded(rob', fe', pr', arch')
    <3>1. t \o <<>> = t
      BY <2>5
    <3>2. rob' \o fe'.q = t /\ arch' = arch
      BY <1>2, <2>1, <2>13, <3>1 DEF t
    <3> QED BY <2>12, <2>14, <3>2 DEF Recorded
  <2>16. Room(rob', fe')
    BY <2>1, <2>13 DEF t
  <2> QED BY <1>2, <2>1, <2>15, <2>16, RecordKeeps
<1>13. CASE ~Mispredicted(e, o)
  <2>1. rob' = r /\ UNCHANGED <<pr, fe, stage>>
    BY <1>1, <1>6, <1>13 DEF e
  <2> DEFINE u == r \o fe.q
  <2>2. u \in Seq(Entries) /\ Len(u) = Len(s)
        /\ \A j \in 1 .. Len(s) : u[j] = IF j = k THEN d ELSE s[j]
    <3>1. u \in Seq(Entries) /\ Len(u) = Len(s)
      <4>1. u \in Seq(Entries) /\ Len(u) = Len(r) + Len(fe.q)
        BY <1>2, <1>7
      <4> HIDE DEF u
      <4> QED BY <1>7, <1>8, <4>1
    <3>2. \A j \in 1 .. Len(s) : u[j] = IF j = k THEN d ELSE s[j]
      BY <1>2, <1>7, <1>8 DEF s
    <3> QED BY <3>1, <3>2
  <2> HIDE DEF u
  <2>3. EffectOf(d) = EffectOf(e)
    <3>1. ~Mispredicted(d, d.actual)
      BY <1>5, <1>13 DEF Mispredicted
    <3> QED BY <1>2, <1>5, <3>1 DEF EffectOf
  <2>4. \A j \in 1 .. Len(s) : /\ u[j].hist = s[j].hist /\ u[j].rasN = s[j].rasN
                               /\ EffectOf(u[j]) = EffectOf(s[j])
    BY <1>5, <1>10, <2>2, <2>3
  <2>5. \A j \in 1 .. Len(s) : Like(Meanings(s)[j], Meanings(u)[j])
    <3>1. \A j \in 1 .. Len(s) : Meanings(s)[j] = EffectOf(s[j]) /\ Meanings(u)[j] = EffectOf(u[j])
      BY <1>8, <2>2, MeaningsAre
    <3> QED BY <2>4, <3>1 DEF Like
  <2>6. Tracks(pr, u, Meanings(u), arch.hist, n)
    <3>1. Len(s) \in Nat
      BY <1>8
    <3> QED BY <1>9, <2>2, <2>4, <2>5, <3>1, TracksAlike
  <2>7. KindsStay => (\A j \in 1 .. Len(u) : Fits(u[j])) /\ n = arch.rasN
    BY <1>9, <1>11, <2>2
  <2>8. Recorded(rob', fe', pr', arch')
    <3>1. rob' \o fe'.q = u /\ arch' = arch /\ pr' = pr
      BY <1>2, <2>1 DEF u
    <3> QED BY <2>6, <2>7, <3>1 DEF Recorded
  <2>9. Room(rob', fe')
    BY <1>2, <1>7, <2>1 DEF Room
  <2> QED BY <1>2, <2>1, <2>8, <2>9, RecordKeeps
<1> QED BY <1>12, <1>13

-----------------------------------------------------------------------------
(* Nothing speculative survives *)

(* A rewrite empties the queues at a jump: the record starts anew.         *)
LEMMA RewriteRecords ==
  ASSUME FrontInv, SpecInv, NEW P \in Patches, Rewrite(P)
  PROVE  SpecInv'
<1> DEFINE I == Instr(P.kind, P.target)
           s == rob \o fe.q
<1>1. /\ Shape /\ rob = <<>> /\ fe.q \in Seq(Entries)
      /\ code' = [code EXCEPT ![P.pc] = I]
      /\ trained' = [trained EXCEPT ![P.pc] = @ \cup {I}]
      /\ UNCHANGED <<stage, fe, pr, rob, arch>>
      /\ stage \in Stages /\ Room(rob, fe) /\ Recorded(rob, fe, pr, arch)
      /\ KindsStay => SameKinds
  BY DEF Rewrite, FrontInv, Shape, Fetches, SpecInv
<1>2. P.pc \in Pcs /\ I.kind = P.kind
  BY FrontEndAssumption DEF Instr
<1>3. /\ code \in [Pcs -> Instrs] /\ trained \in [Pcs -> SUBSET Instrs]
  BY <1>1 DEF Shape
<1> HIDE DEF I
<1>4. /\ code'[P.pc] = I /\ trained'[P.pc] = trained[P.pc] \cup {I}
      /\ \A w \in Pcs : w # P.pc => code'[w] = code[w] /\ trained'[w] = trained[w]
  BY <1>1, <1>2, <1>3
<1>5. KindsStay => SameKinds'
  <2> SUFFICES ASSUME KindsStay, NEW w \in Pcs
               PROVE  code'[w].kind = Kind[w] /\ \A J \in trained'[w] : J.kind = Kind[w]
    BY DEF SameKinds
  <2>1. code[w].kind = Kind[w] /\ \A J \in trained[w] : J.kind = Kind[w]
    BY <1>1 DEF SameKinds
  <2>2. CASE w = P.pc
    <3>1. I.kind = Kind[w]
      BY <1>2, <2>2 DEF KindsStay
    <3> QED BY <1>4, <2>1, <2>2, <3>1
  <2>3. CASE w # P.pc
    BY <1>4, <2>1, <2>3
  <2> QED BY <2>2, <2>3
<1>6. s \in Seq(Entries) /\ s = fe.q /\ s' = s
  BY <1>1
<1>7. \A k \in 1 .. Len(s) : ~s[k].resolved
  BY <1>1, <1>6 DEF Room
<1> HIDE DEF s
<1>8. Meanings(s)' = Meanings(s)
  <2>1. \A k \in 1 .. Len(s) : EffectOf(s[k])' = EffectOf(s[k])
    BY <1>6, <1>7 DEF EffectOf
  <2>2. [k \in 1 .. Len(s) |-> EffectOf(s[k])]' = [k \in 1 .. Len(s) |-> EffectOf(s[k])]
    BY <1>6, <2>1
  <2> QED BY <2>2 DEF Meanings
<1>9. Recorded(rob, fe, pr, arch)'
  BY <1>1, <1>6, <1>8 DEF Recorded, s
<1>10. Room(rob, fe)'
  BY <1>1 DEF Room
<1> QED BY <1>1, <1>5, <1>9, <1>10 DEF SpecInv

(* Nothing is in flight at the start.                                      *)
LEMMA SpecInit == FInit => SpecInv
<1> SUFFICES ASSUME FInit PROVE SpecInv
  OBVIOUS
<1>1. /\ rob = <<>> /\ fe.q = <<>> /\ fe.outstanding = FALSE /\ stage \in Stages
      /\ arch.hist = [i \in 1 .. MaxHist |-> 0] /\ arch.rasN = 0
      /\ pr.pos = 0 /\ pr.bits = [i \in 0 .. HistRing - 1 |-> 0]
      /\ pr.folds = [i \in 0 .. HistRing - 1 |-> 0] /\ pr.rasN = 0
      /\ code = [w \in Pcs |-> Instr(Kind[w], Target[w])]
      /\ trained = [w \in Pcs |-> {code[w]}]
  BY DEF FInit, Stages
<1>2. HistRing \in Nat \ {0} /\ MaxHist \in Nat \ {0}
  BY RingIsLong
<1> DEFINE s == rob \o fe.q
           g == MarksOf(pr, s)
<1>3. s = <<>> /\ Len(s) = 0
  BY <1>1
<1> HIDE DEF s
<1>4. \A k \in 1 .. 0 + 1 : k = 1 /\ g[k] = 0
  <2>1. Len(s) \in Nat
    BY <1>3
  <2>2. g[0 + 1] = 0
    BY <1>1, <1>3, <2>1, MarksAre
  <2> HIDE DEF g
  <2> QED BY <2>2
<1>5. DepthsOf(pr, s)[1] = 0
  <2>1. Len(s) \in Nat /\ 0 + 1 = 1
    BY <1>3
  <2> QED BY <1>1, <1>3, <2>1, MarksAre
<1>6. \A n \in Int : BitAt(pr, n) = 0 /\ FoldAt(pr, n) = 0
  <2> SUFFICES ASSUME NEW n \in Int PROVE BitAt(pr, n) = 0 /\ FoldAt(pr, n) = 0
    OBVIOUS
  <2>1. n % HistRing \in 0 .. HistRing - 1
    BY <1>2, Division
  <2> QED BY <1>1, <2>1 DEF BitAt, FoldAt
<1>7. Sum(pr, 0) = 0
  <2>1. \A m \in 0 - MaxHist + 1 .. 0 : BitAt(pr, m) # 1
    BY <1>6
  <2>2. Recent(pr, 0) = {}
    BY <2>1 DEF Recent
  <2> QED BY <2>2, FS_EmptySet DEF Sum
<1>8. BitsAre(pr, 0, arch.hist)
  <2>1. \A i \in 0 .. MaxHist - 1 : 0 - i \in Int /\ MaxHist - i \in 1 .. MaxHist
    BY <1>2
  <2>2. \A i \in 0 .. MaxHist - 1 : arch.hist[MaxHist - i] = 0
    BY <1>1, <2>1
  <2>3. \A i \in 0 .. MaxHist - 1 : BitAt(pr, 0 - i) = 0
    BY <1>6, <2>1
  <2> QED BY <2>2, <2>3 DEF BitsAre
<1> HIDE DEF g
<1>9. Tracked(pr, g, 0, Meanings(s), arch.hist)
  <2>1. \A k \in 1 .. 0 : FALSE
    OBVIOUS
  <2>2. 1 \in 1 .. 0 + 1
    OBVIOUS
  <2>3. g[1] = 0
    BY <1>4, <2>2
  <2>4. \A k \in 1 .. 0 + 1 : g[k] \in Nat /\ FoldAt(pr, g[k]) = Sum(pr, g[k])
    BY <1>4, <1>6, <1>7
  <2>5. \A j, k \in 1 .. 0 + 1 : j <= k => g[j] <= g[k] /\ g[k] - g[j] <= k - j
    BY <1>4
  <2> QED BY <1>8, <2>1, <2>3, <2>4, <2>5 DEF Tracked
<1>10. Nested(DepthsOf(pr, s), 0, Meanings(s), arch.rasN)
  <2>1. \A k \in 1 .. 0 : FALSE
    OBVIOUS
  <2> QED BY <1>1, <1>5, <2>1 DEF Nested
<1>11. FoldsFit(pr) /\ arch.hist \in Hist
  BY <1>1, <1>2 DEF FoldsFit, Hist
<1>12. Recorded(rob, fe, pr, arch)
  <2>1. Tracks(pr, s, Meanings(s), arch.hist, arch.rasN)
    BY <1>3, <1>9, <1>10, <1>11 DEF Tracks, g
  <2>2. \A k \in 1 .. Len(s) : Fits(s[k])
    <3>1. \A k \in 1 .. 0 : FALSE
      OBVIOUS
    <3> QED BY <1>3, <3>1
  <2> QED BY <2>1, <2>2 DEF Recorded, s
<1>13. Room(rob, fe)
  <2>1. RobSize \in Nat /\ FetchQSize \in Nat
    BY FrontEndAssumption
  <2>2. Len(rob) = 0 /\ Len(fe.q) = 0
    BY <1>1
  <2> QED BY <1>1, <2>1, <2>2 DEF Room
<1>14. SameKinds
  <2>1. \A w \in Pcs : code[w].kind = Kind[w] /\ trained[w] = {code[w]}
    BY <1>1 DEF Instr
  <2> QED BY <2>1 DEF SameKinds
<1> QED BY <1>1, <1>12, <1>13, <1>14 DEF SpecInv

(* Every step keeps the record.                                            *)
LEMMA SpecStep ==
  ASSUME FrontInv, SpecInv, [FNext]_fvars
  PROVE  SpecInv'
<1>1. CASE FetchStage
  BY <1>1, FetchStageRecords
<1>2. CASE Edge
  BY <1>2, EdgeRecords
<1>3. CASE CommitHead
  BY <1>3, CommitRecords
<1>4. CASE Dispatch
  BY <1>4, DispatchRecords
<1>5. CASE EndStage
  BY <1>5, EndStageRecords
<1>6. ASSUME NEW k \in 1 .. Len(rob), Resolve(k) PROVE SpecInv'
  BY <1>6, ResolveRecords
<1>7. ASSUME NEW k \in 1 .. Len(rob), Violate(k) PROVE SpecInv'
  BY <1>7, ViolateRecords
<1>8. ASSUME NEW P \in Patches, Rewrite(P) PROVE SpecInv'
  BY <1>8, RewriteRecords
<1>9. CASE UNCHANGED fvars
  <2>1. UNCHANGED <<fe, pr, rob, text, arch, stage>>
    BY <1>9 DEF fvars
  <2> QED BY <2>1, RecordKeeps DEF SpecInv
<1> QED BY <1>1, <1>2, <1>3, <1>4, <1>5, <1>6, <1>7, <1>8, <1>9 DEF FNext

(* With the record kept, speculation leaves nothing behind.                *)
LEMMA RecordIsExact ==
  ASSUME FrontInv, SpecInv
  PROVE  /\ HistoryExact /\ FrontTypeOK
         /\ KindsStay => ReturnDepthExact
<1> DEFINE x == Meanings(Stream)
           n == Len(Stream)
           at == Program(arch, InFlight)
<1>1. /\ Shape /\ Stream \in Seq(Entries) /\ n \in Nat /\ Recorded(rob, fe, pr, arch)
  <2>1. rob \in Seq(Entries) /\ fe.q \in Seq(Entries)
    BY DEF FrontInv, Shape, Fetches
  <2> QED BY <2>1 DEF FrontInv, SpecInv, Stream
<1>2. InFlight = x /\ Len(x) = n
  BY <1>1, MeaningsAre DEF InFlight, Meanings
<1>3. PICK d : /\ Tracks(pr, Stream, x, arch.hist, d)
               /\ KindsStay => d = arch.rasN
  BY <1>1 DEF Recorded, Stream
<1> DEFINE g == MarksOf(pr, Stream)
<1>4. /\ Tracked(pr, g, n, x, arch.hist) /\ arch.hist \in Hist /\ FoldsFit(pr)
      /\ RasRepair => Nested(DepthsOf(pr, Stream), n, x, d)
  BY <1>3 DEF Tracks
<1>5. \A k \in 1 .. n : g[k] = Stream[k].hist
  BY <1>1, MarksAre
<1>6. g[n + 1] = pr.pos /\ DepthsOf(pr, Stream)[n + 1] = pr.rasN
  BY <1>1, MarksAre
<1> HIDE DEF x, n, g, at
<1>7. \A k \in 0 .. n : BitsAre(pr, g[k + 1], at[k].hist)
                        /\ FoldAt(pr, g[k + 1]) = Ones(at[k].hist)
  <2>1. HistoriesOf(pr, g, n, x, arch)
    <3>1. n \in Nat /\ Len(x) = n /\ Tracked(pr, g, n, x, arch.hist) /\ arch.hist \in Hist
      BY <1>1, <1>2, <1>4
    <3> QED BY <3>1, HistoriesAreTracked
  <2>2. at = Program(arch, x)
    BY <1>2 DEF at
  <2> QED BY <2>1, <2>2 DEF HistoriesOf
<1>8. \A k \in 0 .. n : HistoryIs(g[k + 1], at[k].hist)
  BY <1>7 DEF HistoryIs, BitsAre, BitAt, FoldAt
<1>9. HistoryExact
  <2>1. HistoryIs(pr.pos, at[n].hist)
    <3>1. n \in 0 .. n
      BY <1>1
    <3> QED BY <1>6, <1>8, <3>1
  <2>2. ASSUME NEW k \in 1 .. n PROVE HistoryIs(Stream[k].hist, at[k - 1].hist)
    <3>1. k - 1 \in 0 .. n /\ k - 1 + 1 = k
      BY <1>1
    <3>2. HistoryIs(g[k - 1 + 1], at[k - 1].hist)
      BY <1>8, <3>1
    <3> QED BY <1>5, <3>1, <3>2
  <2> QED BY <2>1, <2>2 DEF HistoryExact, n, at
<1>10. KindsStay => ReturnDepthExact
  <2> SUFFICES ASSUME KindsStay, RasRepair PROVE pr.rasN = at[n].rasN
    BY DEF ReturnDepthExact, at, n
  <2>1. Nested(DepthsOf(pr, Stream), n, x, arch.rasN)
    BY <1>3, <1>4
  <2>2. n \in 0 .. n
    BY <1>1
  <2>3. Program(arch, x)[n].rasN = DepthsOf(pr, Stream)[n + 1]
    BY <1>1, <1>2, <2>1, <2>2, DepthsAreNested
  <2> QED BY <1>2, <1>6, <2>3 DEF at
<1>11. FrontTypeOK
  <2>1. /\ fe \in Fetches /\ pr \in Predictors /\ stage \in Stages /\ Room(rob, fe)
    BY DEF FrontInv, Shape, SpecInv
  <2>2. stage \in DOMAIN StageAfter \cup {"fetch", "edge"}
    BY <2>1 DEF Stages, StageAfter
  <2>3. Len(fe.q) <= FetchQSize /\ Len(rob) <= RobSize
    BY <2>1 DEF Room
  <2>4. fe.outstanding \in BOOLEAN /\ fe.stale \in BOOLEAN /\ fe.pend \in BOOLEAN
        /\ fe.fetchPc \in Pcs
    BY <2>1 DEF Fetches
  <2>5. pr.bits \in [0 .. HistRing - 1 -> {0, 1}] /\ pr.rasN \in Nat /\ pr.pos \in Nat
    BY <2>1 DEF Predictors
  <2>6. \A i \in DOMAIN pr.folds : pr.folds[i] \in 0 .. MaxHist
    BY <1>4 DEF FoldsFit
  <2> QED BY <2>2, <2>3, <2>4, <2>5, <2>6 DEF FrontTypeOK
<1> QED BY <1>9, <1>10, <1>11

(* Unless a rewrite turns a branch into something else, the ring of bits   *)
(* and the folds hold exactly the history of the instructions in flight,   *)
(* and each checkpoint the history its prediction used, whatever was       *)
(* fetched on wrong paths and undone (predictor.cpp:213, predictor.cpp:21).*)
THEOREM HistoryAlwaysExact ==
  ASSUME BranchesStay
  PROVE  FSpec => []HistoryExact
<1>1. FrontInv /\ SpecInv => HistoryExact
  BY RecordIsExact
<1>2. FrontInv /\ SpecInv /\ [FNext]_fvars => FrontInv' /\ SpecInv'
  BY FrontStep, SpecStep
<1>3. FInit => FrontInv /\ SpecInv
  BY FrontInit, SpecInit
<1> QED BY <1>1, <1>2, <1>3, PTL DEF FSpec

(* If rewrites only change where instructions go, the depth of the return  *)
(* stack is exact as well, and the queues stay within their bounds: nothing*)
(* of a squashed path survives in the predictor (restore, replay).         *)
THEOREM SpeculationAlwaysUndone ==
  ASSUME KindsStay
  PROVE  FSpec => []SpeculationUndone
<1>1. FrontInv /\ SpecInv => SpeculationUndone
  BY RecordIsExact DEF SpeculationUndone
<1>2. FrontInv /\ SpecInv /\ [FNext]_fvars => FrontInv' /\ SpecInv'
  BY KindsAreBranches, FrontStep, SpecStep
<1>3. FInit => FrontInv /\ SpecInv
  BY FrontInit, SpecInit
<1> QED BY <1>1, <1>2, <1>3, PTL DEF FSpec
=============================================================================
