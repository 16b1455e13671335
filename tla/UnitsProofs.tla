---------------------------- MODULE UnitsProofs ----------------------------
(***************************************************************************)
(* Every operation that executes is in one place and every result reaches  *)
(* the candidate list once, and the units are delay lines: for every       *)
(* number of units, latencies and ports, and every mix of squashes.        *)
(***************************************************************************)
EXTENDS Units, RingProofs, SequenceTheorems, FiniteSetTheorems

(* Lists without repetitions                                               *)

Distinct(s) == \A i, j \in 1 .. Len(s) : s[i] = s[j] => i = j
Has(s, x) == \E i \in 1 .. Len(s) : s[i] = x

LEMMA AppendDistinct ==
  ASSUME NEW S, NEW s \in Seq(S), NEW x \in S, Distinct(s), ~Has(s, x)
  PROVE  LET t == Append(s, x)
         IN  /\ t \in Seq(S) /\ Distinct(t) /\ Has(t, x)
             /\ \A y : y # x => (Has(t, y) <=> Has(s, y))
<1> DEFINE t == Append(s, x)
<1>1. /\ t \in Seq(S) /\ Len(s) \in Nat /\ Len(t) = Len(s) + 1 /\ t[Len(s) + 1] = x
      /\ \A i \in 1 .. Len(s) : t[i] = s[i]
  OBVIOUS
<1> HIDE DEF t
<1>2. \A i \in 1 .. Len(t) : i \in 1 .. Len(s) \/ i = Len(s) + 1
  BY <1>1
<1>3. Distinct(t)
  BY <1>1, <1>2 DEF Distinct, Has
<1>4. Has(t, x)
  <2>1. Len(s) + 1 \in 1 .. Len(t)
    BY <1>1
  <2> QED BY <1>1, <2>1 DEF Has
<1>5. ASSUME NEW y, y # x PROVE Has(t, y) <=> Has(s, y)
  <2>1. \A i \in 1 .. Len(s) : i \in 1 .. Len(t)
    BY <1>1
  <2> QED BY <1>1, <1>2, <1>5, <2>1 DEF Has
<1> QED BY <1>1, <1>3, <1>4, <1>5 DEF t

LEMMA JoinDistinct ==
  ASSUME NEW S, NEW s \in Seq(S), NEW r \in Seq(S), Distinct(s), Distinct(r),
         \A x : ~(Has(s, x) /\ Has(r, x))
  PROVE  /\ s \o r \in Seq(S) /\ Distinct(s \o r)
         /\ \A x : Has(s \o r, x) <=> Has(s, x) \/ Has(r, x)
<1> DEFINE t == s \o r
<1>1. /\ t \in Seq(S) /\ Len(s) \in Nat /\ Len(r) \in Nat /\ Len(t) = Len(s) + Len(r)
      /\ \A i \in 1 .. Len(s) : t[i] = s[i]
      /\ \A i \in 1 .. Len(r) : t[Len(s) + i] = r[i]
  OBVIOUS
<1> HIDE DEF t
<1>2. \A i \in 1 .. Len(t) :
        i \in 1 .. Len(s) \/ \E j \in 1 .. Len(r) : i = Len(s) + j
  <2> SUFFICES ASSUME NEW i \in 1 .. Len(t), i \notin 1 .. Len(s)
               PROVE  \E j \in 1 .. Len(r) : i = Len(s) + j
    OBVIOUS
  <2>1. i - Len(s) \in 1 .. Len(r) /\ i = Len(s) + (i - Len(s))
    BY <1>1
  <2> QED BY <2>1
<1>3. \A i \in 1 .. Len(t) :
        \/ i \in 1 .. Len(s) /\ t[i] = s[i]
        \/ \E j \in 1 .. Len(r) : i = Len(s) + j /\ t[i] = r[j]
  BY <1>1, <1>2
<1>4. Distinct(t)
  <2> SUFFICES ASSUME NEW i \in 1 .. Len(t), NEW j \in 1 .. Len(t), t[i] = t[j]
               PROVE  i = j
    BY DEF Distinct
  <2>1. CASE i \in 1 .. Len(s) /\ j \in 1 .. Len(s)
    BY <1>1, <2>1 DEF Distinct
  <2>2. CASE i \in 1 .. Len(s) /\ j \notin 1 .. Len(s)
    <3>1. Has(s, t[i]) /\ Has(r, t[j])
      BY <1>1, <1>3, <2>2 DEF Has
    <3> QED BY <3>1
  <2>3. CASE i \notin 1 .. Len(s) /\ j \in 1 .. Len(s)
    <3>1. Has(r, t[i]) /\ Has(s, t[j])
      BY <1>1, <1>3, <2>3 DEF Has
    <3> QED BY <3>1
  <2>4. CASE i \notin 1 .. Len(s) /\ j \notin 1 .. Len(s)
    BY <1>3, <2>4 DEF Distinct
  <2> QED BY <2>1, <2>2, <2>3, <2>4
<1>5. ASSUME NEW x PROVE Has(t, x) <=> Has(s, x) \/ Has(r, x)
  <2>1. Has(t, x) => Has(s, x) \/ Has(r, x)
    BY <1>3 DEF Has
  <2>2. Has(s, x) => Has(t, x)
    <3>1. \A i \in 1 .. Len(s) : i \in 1 .. Len(t)
      BY <1>1
    <3> QED BY <1>1, <3>1 DEF Has
  <2>3. Has(r, x) => Has(t, x)
    <3>1. \A i \in 1 .. Len(r) : Len(s) + i \in 1 .. Len(t)
      BY <1>1
    <3> QED BY <1>1, <3>1 DEF Has
  <2> QED BY <2>1, <2>2, <2>3
<1> QED BY <1>1, <1>4, <1>5 DEF t

LEMMA SetAsList ==
  ASSUME NEW S, IsFiniteSet(S)
  PROVE  LET s == SetToSeq(S)
         IN  s \in Seq(S) /\ Distinct(s) /\ \A x : Has(s, x) <=> x \in S
<1> DEFINE n == Cardinality(S)
           s == SetToSeq(S)
<1>1. n \in Nat /\ ExistsBijection(1 .. n, S)
  BY FS_CardinalityType
<1>2. \E f \in [1 .. n -> S] : IsInjective(f)
  BY <1>1 DEF ExistsBijection, Bijection, Injection
<1>3. s \in [1 .. n -> S] /\ IsInjective(s)
  BY <1>2 DEF SetToSeq
<1> HIDE DEF s
<1>4. IsFiniteSet(1 .. n) /\ Cardinality(1 .. n) = n
  <2> HIDE DEF n
  <2>1. Cardinality(1 .. n) = IF 1 > n THEN 0 ELSE n - 1 + 1
    BY <1>1, FS_Interval
  <2> QED BY <1>1, <2>1, FS_Interval
<1>5. s \in Surjection(1 .. n, S)
  BY <1>3, <1>4, FS_Injection DEF Injection
<1> HIDE DEF n
<1>6. s \in Seq(S) /\ Len(s) = n
  BY <1>1, <1>3
<1>7. Distinct(s)
  BY <1>3, <1>6 DEF Distinct, IsInjective
<1>8. \A x : Has(s, x) <=> x \in S
  BY <1>3, <1>5, <1>6 DEF Has, Surjection
<1> QED BY <1>6, <1>7, <1>8 DEF s

(* The length of such a list is the size of the set it lists.              *)
LEMMA ListSize ==
  ASSUME NEW S, NEW s \in Seq(S), Distinct(s)
  PROVE  LET T == {x \in S : Has(s, x)}
         IN  IsFiniteSet(T) /\ Cardinality(T) = Len(s)
<1> DEFINE T == {x \in S : Has(s, x)}
           n == Len(s)
<1>1. n \in Nat /\ s \in [1 .. n -> S]
  OBVIOUS
<1>2. s \in [1 .. n -> T]
  BY <1>1 DEF Has
<1>3. s \in Surjection(1 .. n, T) /\ s \in Injection(1 .. n, T)
  BY <1>1, <1>2 DEF Surjection, Injection, IsInjective, Distinct, Has
<1> HIDE DEF T, n
<1>4. IsFiniteSet(1 .. n) /\ Cardinality(1 .. n) = n
  <2>1. Cardinality(1 .. n) = IF 1 > n THEN 0 ELSE n - 1 + 1
    BY <1>1, FS_Interval
  <2> QED BY <1>1, <2>1, FS_Interval
<1> QED BY <1>3, <1>4, FS_Surjection DEF T, n

LEMMA SwapAndPopDrops ==
  ASSUME NEW S, NEW s \in Seq(S), Distinct(s), NEW i \in 1 .. Len(s)
  PROVE  LET t == SwapAndPop(s, i)
         IN  /\ t \in Seq(S) /\ Distinct(t)
             /\ \A x : Has(t, x) <=> Has(s, x) /\ x # s[i]
<1> DEFINE t == SwapAndPop(s, i)
           n == Len(s)
           r == [s EXCEPT ![i] = s[n]]
<1>1. n \in Nat /\ n >= 1 /\ s \in [1 .. n -> S]
  OBVIOUS
<1>2. r \in Seq(S) /\ Len(r) = n /\ \A j \in 1 .. n : r[j] = IF j = i THEN s[n] ELSE s[j]
  BY <1>1
<1>3. t = SubSeq(r, 1, n - 1)
  BY <1>2 DEF SwapAndPop, Front, Last
<1> HIDE DEF t, r
<1>4. /\ t \in Seq(S) /\ Len(t) = n - 1
      /\ \A j \in 1 .. n - 1 : t[j] = r[j]
  BY <1>1, <1>2, <1>3
<1>5. \A j \in 1 .. n - 1 : t[j] = IF j = i THEN s[n] ELSE s[j]
  BY <1>1, <1>2, <1>4
<1> HIDE DEF n
<1>6. Distinct(t)
  <2> SUFFICES ASSUME NEW j \in 1 .. n - 1, NEW k \in 1 .. n - 1, t[j] = t[k]
               PROVE  j = k
    BY <1>4 DEF Distinct
  <2>1. \A a, b \in 1 .. n : s[a] = s[b] => a = b
    BY DEF Distinct, n
  <2>2. j \in 1 .. n /\ k \in 1 .. n /\ n \in 1 .. n /\ j # n /\ k # n
    BY <1>1
  <2> QED BY <1>5, <2>1, <2>2
<1>7. ASSUME NEW x PROVE Has(t, x) <=> Has(s, x) /\ x # s[i]
  <2>1. \A a, b \in 1 .. n : s[a] = s[b] => a = b
    BY DEF Distinct, n
  <2>2. n \in 1 .. n /\ i \in 1 .. n /\ \A j \in 1 .. n - 1 : j \in 1 .. n /\ j # n
    <3>1. i \in 1 .. n
      BY DEF n
    <3> QED BY <1>1, <3>1
  <2>3. ASSUME NEW j \in 1 .. n - 1, t[j] = x PROVE Has(s, x) /\ x # s[i]
    <3>1. (j = i /\ x = s[n]) \/ (j # i /\ x = s[j])
      BY <1>5, <2>3
    <3>2. \E a \in 1 .. n : s[a] = x
      BY <2>2, <3>1
    <3>3. x # s[i]
      BY <2>1, <2>2, <3>1
    <3> QED BY <3>2, <3>3 DEF Has, n
  <2>4. ASSUME NEW a \in 1 .. n, s[a] = x, x # s[i] PROVE \E j \in 1 .. n - 1 : t[j] = x
    <3>1. CASE a = n
      <4>1. i # n /\ i \in 1 .. n - 1
        BY <1>1, <2>2, <2>4, <3>1
      <4> QED BY <1>5, <2>4, <3>1, <4>1
    <3>2. CASE a # n
      <4>1. a \in 1 .. n - 1 /\ a # i
        BY <1>1, <2>4, <3>2
      <4> QED BY <1>5, <2>4, <4>1
    <3> QED BY <3>1, <3>2
  <2> QED BY <1>4, <2>3, <2>4 DEF Has, n
<1> QED BY <1>4, <1>6, <1>7 DEF t

(* remove_if keeps the pointers to full slots, in what it has seen so far. *)
KeptNext(ready, slots, g, n) ==
  IF n = 0 THEN <<>>
  ELSE IF slots[ready[n]] # 0 THEN Append(g[n - 1], ready[n])
  ELSE g[n - 1]

LEMMA KeptIs ==
  ASSUME NEW ready, Len(ready) \in Nat, NEW slots
  PROVE  LET kept == Kept(ready, slots)
         IN  kept = [n \in 0 .. Len(ready) |-> KeptNext(ready, slots, kept, n)]
<1> DEFINE Upto(n, g) == g = [k \in 0 .. n |-> KeptNext(ready, slots, g, k)]
           Missing == {n \in Nat : ~\E g : Upto(n, g)}
<1>1. Missing = {}
  <2> SUFFICES ASSUME Missing # {} PROVE FALSE
    OBVIOUS
  <2>1. PICK n \in Missing : \A m \in Missing : n <= m
    BY MinExists
  <2>2. CASE n = 0
    <3>1. Upto(0, [k \in 0 .. 0 |-> <<>>])
      BY DEF KeptNext
    <3> QED BY <2>1, <2>2, <3>1
  <2>3. CASE n # 0
    <3>1. n - 1 \in Nat /\ n - 1 \notin Missing
      <4>1. n \in Nat /\ n - 1 \in Nat
        BY <2>1, <2>3
      <4> HIDE DEF Missing
      <4> QED BY <2>1, <4>1
    <3>2. PICK g : Upto(n - 1, g)
      BY <3>1
    <3> DEFINE h == [k \in 0 .. n |-> KeptNext(ready, slots, g, k)]
    <3>3. \A k \in 0 .. n - 1 : h[k] = g[k]
      BY <2>1, <2>3, <3>2
    <3>4. \A k \in 0 .. n : KeptNext(ready, slots, g, k) = KeptNext(ready, slots, h, k)
      <4> SUFFICES ASSUME NEW k \in 0 .. n
                   PROVE  KeptNext(ready, slots, g, k) = KeptNext(ready, slots, h, k)
        OBVIOUS
      <4>1. CASE k = 0
        BY <4>1 DEF KeptNext
      <4>2. CASE k # 0
        <5>1. k - 1 \in 0 .. n - 1
          BY <2>1, <4>2
        <5>2. h[k - 1] = g[k - 1]
          BY <3>3, <5>1
        <5> HIDE DEF h
        <5> QED BY <5>2 DEF KeptNext
      <4> QED BY <4>1, <4>2
    <3>5. Upto(n, h)
      BY <3>4
    <3> QED BY <2>1, <3>5
  <2> QED BY <2>2, <2>3
<1>2. \E g : g = [n \in 0 .. Len(ready) |-> KeptNext(ready, slots, g, n)]
  BY <1>1
<1> QED BY <1>2 DEF Kept, KeptNext

LEMMA ValidOnlyKeeps ==
  ASSUME NEW S, NEW ready \in Seq(S), Distinct(ready), NEW slots
  PROVE  LET t == ValidOnly(ready, slots)
         IN  /\ t \in Seq(S) /\ Distinct(t)
             /\ \A x : Has(t, x) <=> Has(ready, x) /\ slots[x] # 0
<1> DEFINE kept == Kept(ready, slots)
           Good(n) == /\ kept[n] \in Seq(S) /\ Distinct(kept[n])
                      /\ \A x : Has(kept[n], x)
                                  <=> slots[x] # 0 /\ \E i \in 1 .. n : ready[i] = x
           Wrong == {n \in Nat : n <= Len(ready) /\ ~Good(n)}
<1>1. Len(ready) \in Nat /\ \A i \in 1 .. Len(ready) : ready[i] \in S
  OBVIOUS
<1>2. kept = [n \in 0 .. Len(ready) |-> KeptNext(ready, slots, kept, n)]
  BY <1>1, KeptIs
<1> HIDE DEF kept
<1>3. Wrong = {}
  <2> SUFFICES ASSUME Wrong # {} PROVE FALSE
    OBVIOUS
  <2>1. PICK n \in Wrong : \A m \in Wrong : n <= m
    BY MinExists
  <2>2. n \in Nat /\ n <= Len(ready) /\ ~Good(n)
    BY <2>1
  <2>3. kept[n] = KeptNext(ready, slots, kept, n)
    BY <1>1, <1>2, <2>2
  <2>4. CASE n = 0
    <3>1. kept[n] = <<>>
      BY <2>3, <2>4 DEF KeptNext
    <3>2. Good(n)
      <4>1. <<>> \in Seq(S) /\ Len(<<>>) = 0
        OBVIOUS
      <4> QED BY <2>4, <3>1, <4>1 DEF Distinct, Has
    <3> QED BY <2>2, <3>2
  <2>5. CASE n # 0
    <3>1. n - 1 \in Nat /\ n - 1 <= Len(ready) /\ n \in 1 .. Len(ready)
      BY <1>1, <2>2, <2>5
    <3>2. Good(n - 1)
      <4> HIDE DEF Good
      <4> QED BY <2>1, <2>2, <3>1
    <3> DEFINE s == kept[n - 1]
               x == ready[n]
    <3>3. \A i \in 1 .. n : i \in 1 .. n - 1 \/ i = n
      BY <2>2
    <3>4. \A i \in 1 .. n - 1 : i \in 1 .. n /\ i \in 1 .. Len(ready) /\ i # n
      BY <3>1
    <3>5. x \in S
      BY <1>1, <3>1
    <3>6. ~\E i \in 1 .. n - 1 : ready[i] = x
      BY <3>1, <3>4 DEF Distinct
    <3>7. n \in 1 .. n
      BY <3>1
    <3>8. CASE slots[x] # 0
      <4>1. kept[n] = Append(s, x)
        BY <2>3, <2>5, <3>8 DEF KeptNext
      <4>2. s \in Seq(S) /\ Distinct(s) /\ ~Has(s, x)
        BY <3>2, <3>6
      <4>3. /\ kept[n] \in Seq(S) /\ Distinct(kept[n]) /\ Has(kept[n], x)
            /\ \A y : y # x => (Has(kept[n], y) <=> Has(s, y))
        <5> HIDE DEF s, x
        <5> QED BY <3>5, <4>1, <4>2, AppendDistinct
      <4>4. ASSUME NEW y
            PROVE  Has(kept[n], y) <=> slots[y] # 0 /\ \E i \in 1 .. n : ready[i] = y
        <5>1. CASE y = x
          BY <3>7, <3>8, <4>3, <5>1
        <5>2. CASE y # x
          BY <3>2, <3>3, <3>4, <4>3, <5>2
        <5> QED BY <5>1, <5>2
      <4> QED BY <2>2, <4>3, <4>4
    <3>9. CASE slots[x] = 0
      <4>1. kept[n] = s
        BY <2>3, <2>5, <3>9 DEF KeptNext
      <4>2. \A y : (slots[y] # 0 /\ \E i \in 1 .. n - 1 : ready[i] = y)
                     <=> slots[y] # 0 /\ \E i \in 1 .. n : ready[i] = y
        BY <3>3, <3>4, <3>9
      <4> QED BY <2>2, <3>2, <4>1, <4>2
    <3> QED BY <3>8, <3>9
  <2> QED BY <2>4, <2>5
<1>4. Good(Len(ready))
  <2> HIDE DEF Good
  <2> QED BY <1>1, <1>3
<1> QED BY <1>4 DEF ValidOnly, kept, Has
-----------------------------------------------------------------------------
(* The invariant *)

Fates == {"undispatched", "waiting", "executing", "done", "squashed"}
Stages(u) == 0 .. Latency[u] - 1
Contents == {0} \cup Ops
FuUnits(u) == [stages : [Stages(u) -> Contents], inputSlot : Stages(u),
               inFlight : Int, cur : Contents, remaining : 0 .. Latency[u]]

Shape ==
  /\ stage \in DOMAIN StageAfter \cup {"writeback", "edge"} /\ won \in 0 .. WbPorts
  /\ unit = [u \in Units |-> unit[u]] /\ \A u \in Units : unit[u] \in FuUnits(u)
  /\ out \in [Slots -> Contents] /\ fate \in [Ops -> Fates]

(* A unit f is either a pipe that counts what is in it, or busy with one   *)
(* operation; while it is busy, its output slot o is kept empty.           *)
Filled(u, f) == {i \in Stages(u) : f.stages[i] # 0}

Sound(u, f, o) ==
  IF Pipelined[u]
  THEN f.cur = 0 /\ f.inFlight = Cardinality(Filled(u, f))
  ELSE /\ \A i \in Stages(u) : f.stages[i] = 0
       /\ f.inFlight = 0
       /\ f.cur # 0 => o = 0 /\ f.remaining # 0

(* Where an operation can be: in a busy unit, an output slot or a stage.   *)
Spots == {<<"cur", u, 0>> : u \in Units} \cup {<<"out", x, 0>> : x \in Slots}
         \cup UNION {{<<"stage", u, i>> : i \in Stages(u)} : u \in Units}

Held(p) == IF p[1] = "cur" THEN unit[p[2]].cur
           ELSE IF p[1] = "out" THEN out[p[2]]
           ELSE unit[p[2]].stages[p[3]]

Located ==
  /\ \A p, q \in Spots : Held(p) # 0 /\ Held(p) = Held(q) => p = q
  /\ \A s \in Ops : fate[s] = "executing" <=> \E p \in Spots : Held(p) = s

Listed ==
  /\ wbReady \in Seq(Slots) /\ Distinct(wbReady)
  /\ \A x \in Slots : Has(wbReady, x) <=> out[x] # 0

UnitsInv ==
  /\ Shape /\ \A u \in Units : Sound(u, unit[u], out[u])
  /\ Located /\ Listed

LEMMA SpotsAre ==
  /\ \A u \in Units : <<"cur", u, 0>> \in Spots /\ Held(<<"cur", u, 0>>) = unit[u].cur
  /\ \A x \in Slots : <<"out", x, 0>> \in Spots /\ Held(<<"out", x, 0>>) = out[x]
  /\ \A u \in Units : \A i \in Stages(u) :
       <<"stage", u, i>> \in Spots /\ Held(<<"stage", u, i>>) = unit[u].stages[i]
  /\ \A p \in Spots : \/ \E u \in Units : p = <<"cur", u, 0>>
                      \/ \E x \in Slots : p = <<"out", x, 0>>
                      \/ \E u \in Units : \E i \in Stages(u) : p = <<"stage", u, i>>
BY DEF Spots, Held

LEMMA Constants ==
  /\ Units \subseteq Slots /\ LoadOuts \subseteq Slots
  /\ \A x \in Slots : x \notin Units => x \in LoadOuts
  /\ \A x \in LoadOuts : x \notin Units
  /\ IsFiniteSet(Units) /\ IsFiniteSet(Slots)
  /\ \A u \in Units : Latency[u] \in Nat /\ Latency[u] >= 1 /\ Pipelined[u] \in BOOLEAN
  /\ WbPorts \in Nat \ {0} /\ MaxOps \in Nat
  /\ \A s \in Ops : s \in Nat /\ s # 0
<1>1. IsFiniteSet(Slots)
  BY UnitsAssumption, FS_Union DEF Slots
<1> QED BY <1>1, UnitsAssumption DEF Slots, Ops
-----------------------------------------------------------------------------
(* Where operations are *)

LEMMA HeldTypes ==
  ASSUME Shape
  PROVE  \A p \in Spots : Held(p) \in Contents
<1>1. \A u \in Units : unit[u].cur \in Contents /\ unit[u].stages \in [Stages(u) -> Contents]
  BY DEF Shape, FuUnits
<1>2. \A x \in Slots : out[x] \in Contents
  BY DEF Shape
<1> QED BY <1>1, <1>2, SpotsAre

(* An operation enters an empty spot.                                      *)
LEMMA Entered ==
  ASSUME Located, NEW p \in Spots, NEW s \in Ops, fate[s] # "executing",
         Held(p)' = s, \A q \in Spots : q # p => Held(q)' = Held(q), Held(p) = 0,
         fate' = [fate EXCEPT ![s] = "executing"], fate \in [Ops -> Fates]
  PROVE  Located'
<1>1. \A q \in Spots : Held(q) # s
  BY DEF Located
<1>2. \A t \in Ops : t # 0 /\ fate'[t] = IF t = s THEN "executing" ELSE fate[t]
  BY Constants
<1>3. \A q, r \in Spots : Held(q)' # 0 /\ Held(q)' = Held(r)' => q = r
  BY <1>1 DEF Located
<1>4. \A t \in Ops : fate'[t] = "executing" <=> \E q \in Spots : Held(q)' = t
  BY <1>1, <1>2 DEF Located
<1> QED BY <1>3, <1>4 DEF Located, Spots, Stages, Slots

(* Operations leave.                                                       *)
LEMMA Left ==
  ASSUME Located, NEW Gone \in SUBSET Ops,
         \A p \in Spots : Held(p)' = IF Held(p) \in Gone THEN 0 ELSE Held(p),
         \A t \in Ops : fate'[t] = "executing" <=> fate[t] = "executing" /\ t \notin Gone
  PROVE  Located'
<1>1. \A t \in Ops : t # 0
  BY Constants
<1>2. \A q, r \in Spots : Held(q)' # 0 /\ Held(q)' = Held(r)' => q = r
  BY <1>1 DEF Located
<1>3. \A t \in Ops : fate'[t] = "executing" <=> \E q \in Spots : Held(q)' = t
  BY <1>1 DEF Located
<1> QED BY <1>2, <1>3 DEF Located, Spots, Stages, Slots

(* Operations move: what is in a spot was in the spot from says.           *)
LEMMA Moved ==
  ASSUME Located, UNCHANGED fate, NEW from \in [Spots -> Spots],
         \A p \in Spots : Held(p)' # 0 => Held(p)' = Held(from[p]),
         \A p, q \in Spots : Held(p)' # 0 /\ Held(q)' # 0 /\ from[p] = from[q] => p = q,
         \A p \in Spots : Held(p) # 0 => \E q \in Spots : Held(q)' = Held(p)
  PROVE  Located'
<1>1. \A t \in Ops : t # 0
  BY Constants
<1>2. \A q, r \in Spots : Held(q)' # 0 /\ Held(q)' = Held(r)' => q = r
  BY DEF Located
<1>3. \A t \in Ops : fate'[t] = "executing" <=> \E q \in Spots : Held(q)' = t
  BY <1>1 DEF Located
<1> QED BY <1>2, <1>3 DEF Located, Spots, Stages, Slots
-----------------------------------------------------------------------------
(* One unit *)

LEMMA FilledFinite ==
  ASSUME NEW u \in Units, NEW f
  PROVE  IsFiniteSet(Filled(u, f))
<1>1. IsFiniteSet(Stages(u))
  <2>1. 0 \in Int /\ Latency[u] - 1 \in Int
    BY Constants
  <2> QED BY <2>1, FS_Interval DEF Stages
<1> QED BY <1>1, FS_Subset DEF Filled

LEMMA AcceptUnit ==
  ASSUME NEW u \in Units, unit[u] \in FuUnits(u), NEW o, Sound(u, unit[u], o), NEW s \in Ops,
         CanAccept(u), out[u] = o
  PROVE  Accepted(u, s) \in FuUnits(u) /\ Sound(u, Accepted(u, s), o)
<1> DEFINE f == unit[u]
           a == Accepted(u, s)
           n == f.inputSlot
<1>1. /\ f = [stages |-> f.stages, inputSlot |-> n, inFlight |-> f.inFlight, cur |-> f.cur,
              remaining |-> f.remaining]
      /\ f.stages \in [Stages(u) -> Contents] /\ n \in Stages(u) /\ f.inFlight \in Int
      /\ f.cur \in Contents /\ f.remaining \in 0 .. Latency[u]
  BY DEF FuUnits
<1>2. s \in Contents /\ s # 0 /\ Latency[u] \in Nat /\ Latency[u] >= 1 /\ Pipelined[u] \in BOOLEAN
  BY Constants DEF Contents
<1>3. CASE Pipelined[u]
  <2>1. a = [f EXCEPT !.stages[n] = s, !.inFlight = @ + 1]
    BY <1>3 DEF Accepted
  <2>2. /\ a.stages = [f.stages EXCEPT ![n] = s] /\ a.inputSlot = n
        /\ a.inFlight = f.inFlight + 1 /\ a.cur = f.cur /\ a.remaining = f.remaining
    BY <1>1, <2>1
  <2>3. a \in FuUnits(u)
    <3>1. [f.stages EXCEPT ![n] = s] \in [Stages(u) -> Contents]
      BY <1>1, <1>2
    <3>2. a = [stages |-> a.stages, inputSlot |-> a.inputSlot, inFlight |-> a.inFlight,
               cur |-> a.cur, remaining |-> a.remaining]
      BY <1>1, <2>1
    <3> HIDE DEF a
    <3> QED BY <1>1, <2>2, <3>1, <3>2 DEF FuUnits
  <2>4. f.stages[n] = 0
    BY <1>3 DEF CanAccept
  <2>5. Filled(u, a) = Filled(u, f) \cup {n} /\ n \notin Filled(u, f)
    <3> HIDE DEF a
    <3> QED BY <1>1, <1>2, <2>2, <2>4 DEF Filled
  <2>6. Cardinality(Filled(u, a)) = Cardinality(Filled(u, f)) + 1
    <3> HIDE DEF a, f, n
    <3> QED BY <2>5, FilledFinite, FS_AddElement
  <2>7. f.cur = 0 /\ f.inFlight = Cardinality(Filled(u, f))
    BY <1>3 DEF Sound
  <2> HIDE DEF a
  <2>8. Sound(u, a, o)
    BY <1>3, <2>2, <2>6, <2>7 DEF Sound
  <2> QED BY <2>3, <2>8 DEF a
<1>4. CASE ~Pipelined[u]
  <2>1. a = [f EXCEPT !.cur = s, !.remaining = Latency[u]]
    BY <1>4 DEF Accepted
  <2>2. /\ a.stages = f.stages /\ a.inputSlot = n /\ a.inFlight = f.inFlight /\ a.cur = s
        /\ a.remaining = Latency[u]
    BY <1>1, <2>1
  <2>3. a \in FuUnits(u)
    <3>1. a = [stages |-> a.stages, inputSlot |-> a.inputSlot, inFlight |-> a.inFlight,
               cur |-> a.cur, remaining |-> a.remaining]
      BY <1>1, <2>1
    <3>2. Latency[u] \in 0 .. Latency[u]
      BY <1>2
    <3> HIDE DEF a, f, n
    <3> QED BY <1>1, <1>2, <2>2, <3>1, <3>2 DEF FuUnits
  <2>4. o = 0
    BY <1>4 DEF CanAccept
  <2>5. (\A i \in Stages(u) : f.stages[i] = 0) /\ f.inFlight = 0
    BY <1>4 DEF Sound
  <2> HIDE DEF a
  <2>6. Sound(u, a, o)
    <3> HIDE DEF f
    <3> QED BY <1>2, <1>4, <2>2, <2>4, <2>5 DEF Sound
  <2> QED BY <2>3, <2>6 DEF a
<1> QED BY <1>2, <1>3, <1>4

LEMMA FlushUnit ==
  ASSUME NEW u \in Units, unit[u] \in FuUnits(u), NEW o, Sound(u, unit[u], o), NEW s \in Nat,
         NEW p \in {0, o}
  PROVE  LET f == unit[u]
             t == Flushed(u, s)
         IN  /\ t \in FuUnits(u) /\ Sound(u, t, p)
             /\ t.cur = Keep(f.cur, s) /\ t.inputSlot = f.inputSlot
             /\ f.cur <= s => t.remaining = f.remaining
             /\ \A i \in Stages(u) : t.stages[i] = Keep(f.stages[i], s)
<1> DEFINE f == unit[u]
           t == Flushed(u, s)
           kept == [i \in Stages(u) |-> Keep(f.stages[i], s)]
           killed == {i \in Stages(u) : f.stages[i] > s}
<1>1. /\ f = [stages |-> f.stages, inputSlot |-> f.inputSlot, inFlight |-> f.inFlight,
              cur |-> f.cur, remaining |-> f.remaining]
      /\ f.stages \in [Stages(u) -> Contents] /\ f.inputSlot \in Stages(u)
      /\ f.inFlight \in Int /\ f.cur \in Contents /\ f.remaining \in 0 .. Latency[u]
  BY DEF FuUnits
<1>2. DOMAIN f.stages = Stages(u)
  BY <1>1
<1>3. /\ t.stages = kept /\ t.inputSlot = f.inputSlot /\ t.cur = Keep(f.cur, s)
      /\ t.inFlight = f.inFlight - Cardinality(killed)
      /\ t.remaining = IF f.cur > s THEN 0 ELSE f.remaining
      /\ t = [stages |-> t.stages, inputSlot |-> t.inputSlot, inFlight |-> t.inFlight,
              cur |-> t.cur, remaining |-> t.remaining]
  <2>1. t = [f EXCEPT !.stages = kept, !.inFlight = f.inFlight - Cardinality(killed),
                      !.cur = Keep(f.cur, s),
                      !.remaining = IF f.cur > s THEN 0 ELSE f.remaining]
    BY <1>2 DEF Flushed, Killed
  <2> HIDE DEF t, f, kept, killed
  <2> QED BY <1>1, <2>1
<1>4. \A c \in Contents : Keep(c, s) \in Contents /\ c \in Nat /\ (c > s => c # 0)
                          /\ (Keep(c, s) # 0 <=> c # 0 /\ ~(c > s))
  BY Constants DEF Contents, Keep
<1>5. kept \in [Stages(u) -> Contents] /\ \A i \in Stages(u) : kept[i] = Keep(f.stages[i], s)
  BY <1>1, <1>4
<1>6. killed \subseteq Filled(u, f) /\ {i \in Stages(u) : kept[i] # 0} = Filled(u, f) \ killed
  BY <1>1, <1>4 DEF Filled
<1>7. /\ Cardinality({i \in Stages(u) : kept[i] # 0})
           = Cardinality(Filled(u, f)) - Cardinality(killed)
      /\ Cardinality(killed) \in Nat
  <2> HIDE DEF kept, killed, f
  <2>1. IsFiniteSet(Filled(u, f)) /\ Filled(u, f) \cap killed = killed
    BY <1>6, FilledFinite
  <2>2. IsFiniteSet(killed)
    BY <1>6, <2>1, FS_Subset
  <2> QED BY <1>6, <2>1, <2>2, FS_Difference, FS_CardinalityType
<1> HIDE DEF t, kept
<1>8. Filled(u, t) = {i \in Stages(u) : kept[i] # 0}
  BY <1>3 DEF Filled
<1>9. t \in FuUnits(u)
  <2>1. t.inFlight \in Int /\ t.remaining \in 0 .. Latency[u] /\ t.cur \in Contents
    <3> HIDE DEF killed, f
    <3> QED BY <1>1, <1>3, <1>4, <1>7, Constants
  <2> QED BY <1>1, <1>3, <1>5, <2>1 DEF FuUnits
<1>10. Sound(u, t, p)
  <2>1. CASE Pipelined[u]
    <3>1. f.cur = 0 /\ f.inFlight = Cardinality(Filled(u, f))
      BY <2>1 DEF Sound
    <3>2. t.cur = 0
      BY <1>3, <3>1 DEF Keep
    <3>3. t.inFlight = Cardinality(Filled(u, t))
      <4> HIDE DEF f, killed
      <4> QED BY <1>3, <1>7, <1>8, <3>1
    <3> QED BY <2>1, <3>2, <3>3 DEF Sound
  <2>2. CASE ~Pipelined[u]
    <3>1. /\ \A i \in Stages(u) : f.stages[i] = 0
          /\ f.inFlight = 0 /\ (f.cur # 0 => o = 0 /\ f.remaining # 0)
      BY <2>2 DEF Sound
    <3>2. killed = {}
      BY <3>1
    <3>3. t.inFlight = 0
      <4> HIDE DEF killed
      <4> QED BY <1>3, <3>1, <3>2, FS_EmptySet
    <3>4. \A i \in Stages(u) : t.stages[i] = 0
      BY <1>3, <1>5, <3>1 DEF Keep
    <3>5. t.cur # 0 => p = 0 /\ t.remaining # 0
      BY <1>1, <1>3, <1>4, <3>1
    <3> QED BY <2>2, <3>3, <3>4, <3>5 DEF Sound
  <2> QED BY <2>1, <2>2
<1>11. f.cur <= s => t.remaining = f.remaining
  BY <1>1, <1>3, <1>4
<1> QED BY <1>3, <1>5, <1>9, <1>10, <1>11 DEF t

(* tick(): the stage that puts out, and the three ways a cycle can go.     *)
LastStage(u) == IF unit[u].inputSlot = 0 THEN Latency[u] - 1 ELSE unit[u].inputSlot - 1

LEMMA TickedIs ==
  ASSUME NEW u \in Units
  PROVE  LET f == unit[u]
             last == LastStage(u)
             t == Ticked(u)
         IN  /\ ~Busy(u) \/ Frozen(u) => t = [unit |-> f, puts |-> 0]
             /\ Busy(u) /\ ~Frozen(u) /\ Pipelined[u] =>
                  t = [unit |-> [f EXCEPT !.inputSlot = last, !.stages[last] = 0,
                                          !.inFlight = IF f.stages[last] = 0 THEN @ ELSE @ - 1],
                       puts |-> f.stages[last]]
             /\ Busy(u) /\ ~Frozen(u) /\ ~Pipelined[u] =>
                  t = IF f.remaining = 1
                      THEN [unit |-> [f EXCEPT !.cur = 0, !.remaining = 0], puts |-> f.cur]
                      ELSE [unit |-> [f EXCEPT !.remaining = @ - 1], puts |-> 0]
<1> DEFINE f == unit[u]
           last == LastStage(u)
           t == Ticked(u)
<1>1. ASSUME ~Busy(u) \/ Frozen(u) PROVE t = [unit |-> f, puts |-> 0]
  <2>1. ~(Pipelined[u] /\ Busy(u) /\ ~Frozen(u))
    BY <1>1
  <2> QED BY <1>1, <2>1 DEF Ticked
<1>2. ASSUME Busy(u), ~Frozen(u), Pipelined[u]
      PROVE  t = [unit |-> [f EXCEPT !.inputSlot = last, !.stages[last] = 0,
                                     !.inFlight = IF f.stages[last] = 0 THEN @ ELSE @ - 1],
                  puts |-> f.stages[last]]
  <2>1. ~(~Busy(u) \/ Frozen(u)) /\ (Pipelined[u] /\ Busy(u) /\ ~Frozen(u))
    BY <1>2
  <2> QED BY <2>1 DEF Ticked, LastStage
<1>3. ASSUME Busy(u), ~Frozen(u), ~Pipelined[u]
      PROVE  t = IF f.remaining = 1
                 THEN [unit |-> [f EXCEPT !.cur = 0, !.remaining = 0], puts |-> f.cur]
                 ELSE [unit |-> [f EXCEPT !.remaining = @ - 1], puts |-> 0]
  <2>1. ~(~Busy(u) \/ Frozen(u)) /\ ~(Pipelined[u] /\ Busy(u) /\ ~Frozen(u))
    BY <1>3
  <2> QED BY <2>1 DEF Ticked
<1> QED BY <1>1, <1>2, <1>3

LEMMA TickFields ==
  ASSUME NEW u \in Units, unit[u] \in FuUnits(u)
  PROVE  LET f == unit[u]
             last == LastStage(u)
             t == Ticked(u).unit
             puts == Ticked(u).puts
         IN  /\ ~Busy(u) \/ Frozen(u) => t = f /\ puts = 0
             /\ Busy(u) /\ ~Frozen(u) /\ Pipelined[u] =>
                  /\ t \in FuUnits(u) /\ puts = f.stages[last]
                  /\ \A i \in Stages(u) : t.stages[i] = IF i = last THEN 0 ELSE f.stages[i]
                  /\ t.inputSlot = last /\ t.cur = f.cur /\ t.remaining = f.remaining
                  /\ t.inFlight = IF f.stages[last] = 0 THEN f.inFlight ELSE f.inFlight - 1
             /\ Busy(u) /\ ~Frozen(u) /\ ~Pipelined[u] /\ f.remaining # 0 =>
                  /\ t \in FuUnits(u) /\ puts = IF f.remaining = 1 THEN f.cur ELSE 0
                  /\ t.stages = f.stages /\ t.inputSlot = f.inputSlot /\ t.inFlight = f.inFlight
                  /\ t.cur = (IF f.remaining = 1 THEN 0 ELSE f.cur)
                  /\ t.remaining = f.remaining - 1
             /\ last \in Stages(u)
<1> DEFINE f == unit[u]
           last == LastStage(u)
           t == Ticked(u).unit
           puts == Ticked(u).puts
<1>1. /\ f = [stages |-> f.stages, inputSlot |-> f.inputSlot, inFlight |-> f.inFlight,
              cur |-> f.cur, remaining |-> f.remaining]
      /\ f.stages \in [Stages(u) -> Contents] /\ f.inputSlot \in Stages(u)
      /\ f.inFlight \in Int /\ f.cur \in Contents /\ f.remaining \in 0 .. Latency[u]
  BY DEF FuUnits
<1>2. 0 \in Contents /\ Latency[u] \in Nat /\ Latency[u] >= 1
  BY Constants DEF Contents
<1>3. last \in Stages(u)
  BY <1>1, <1>2 DEF LastStage, Stages
<1>4. ASSUME ~Busy(u) \/ Frozen(u) PROVE t = f /\ puts = 0
  <2>1. Ticked(u) = [unit |-> f, puts |-> 0]
    BY <1>4, TickedIs
  <2> HIDE DEF f
  <2> QED BY <2>1
<1>5. ASSUME Busy(u), ~Frozen(u), Pipelined[u]
      PROVE  /\ t \in FuUnits(u) /\ puts = f.stages[last]
             /\ \A i \in Stages(u) : t.stages[i] = IF i = last THEN 0 ELSE f.stages[i]
             /\ t.inputSlot = last /\ t.cur = f.cur /\ t.remaining = f.remaining
             /\ t.inFlight = IF f.stages[last] = 0 THEN f.inFlight ELSE f.inFlight - 1
  <2> DEFINE g == [f EXCEPT !.inputSlot = last, !.stages[last] = 0,
                            !.inFlight = IF f.stages[last] = 0 THEN @ ELSE @ - 1]
             cleared == [f.stages EXCEPT ![last] = 0]
             count == IF f.stages[last] = 0 THEN f.inFlight ELSE f.inFlight - 1
  <2>1. t = g /\ puts = f.stages[last]
    <3>1. Ticked(u) = [unit |-> g, puts |-> f.stages[last]]
      BY <1>5, TickedIs
    <3> HIDE DEF f, g, last
    <3> QED BY <3>1
  <2>2. g = [f EXCEPT !.inputSlot = last, !.stages = cleared, !.inFlight = count]
    OBVIOUS
  <2>3. /\ cleared \in [Stages(u) -> Contents] /\ count \in Int
        /\ \A i \in Stages(u) : cleared[i] = IF i = last THEN 0 ELSE f.stages[i]
    BY <1>1, <1>2, <1>3
  <2> HIDE DEF t, puts, g, last, f, cleared, count
  <2>4. /\ g.stages = cleared /\ g.inputSlot = last /\ g.inFlight = count
        /\ g.cur = f.cur /\ g.remaining = f.remaining
        /\ g = [stages |-> g.stages, inputSlot |-> g.inputSlot, inFlight |-> g.inFlight,
                cur |-> g.cur, remaining |-> g.remaining]
    BY <1>1, <2>2
  <2>5. g \in FuUnits(u)
    BY <1>1, <1>3, <2>3, <2>4 DEF FuUnits
  <2> QED BY <2>1, <2>3, <2>4, <2>5 DEF count
<1>6. ASSUME Busy(u), ~Frozen(u), ~Pipelined[u], f.remaining # 0
      PROVE  /\ t \in FuUnits(u) /\ puts = IF f.remaining = 1 THEN f.cur ELSE 0
             /\ t.stages = f.stages /\ t.inputSlot = f.inputSlot /\ t.inFlight = f.inFlight
             /\ t.cur = (IF f.remaining = 1 THEN 0 ELSE f.cur)
             /\ t.remaining = f.remaining - 1
  <2>1. CASE f.remaining = 1
    <3> DEFINE g == [f EXCEPT !.cur = 0, !.remaining = 0]
    <3>1. t = g /\ puts = f.cur
      <4>1. Ticked(u) = [unit |-> g, puts |-> f.cur]
        BY <1>6, <2>1, TickedIs
      <4> HIDE DEF f, g
      <4> QED BY <4>1
    <3>2. g = [f EXCEPT !.cur = 0, !.remaining = 0]
      OBVIOUS
    <3> HIDE DEF f, t, puts, g
    <3>3. /\ g.stages = f.stages /\ g.inputSlot = f.inputSlot /\ g.inFlight = f.inFlight
          /\ g.cur = 0 /\ g.remaining = 0
          /\ g = [stages |-> g.stages, inputSlot |-> g.inputSlot, inFlight |-> g.inFlight,
                  cur |-> g.cur, remaining |-> g.remaining]
      BY <1>1, <3>2
    <3>4. 0 \in 0 .. Latency[u] /\ f.remaining - 1 = 0
      BY <1>2, <2>1
    <3>5. g \in FuUnits(u)
      BY <1>1, <1>2, <3>3, <3>4 DEF FuUnits
    <3> QED BY <2>1, <3>1, <3>3, <3>4, <3>5
  <2>2. CASE f.remaining # 1
    <3> DEFINE left == f.remaining - 1
               g == [f EXCEPT !.remaining = left]
    <3>1. t = g /\ puts = 0
      <4>1. Ticked(u) = [unit |-> g, puts |-> 0]
        BY <1>6, <2>2, TickedIs
      <4> HIDE DEF f, g
      <4> QED BY <4>1
    <3>2. g = [f EXCEPT !.remaining = left] /\ left \in 0 .. Latency[u]
      BY <1>1, <1>2, <1>6
    <3> HIDE DEF f, t, puts, g, left
    <3>3. /\ g.stages = f.stages /\ g.inputSlot = f.inputSlot /\ g.inFlight = f.inFlight
          /\ g.cur = f.cur /\ g.remaining = left
          /\ g = [stages |-> g.stages, inputSlot |-> g.inputSlot, inFlight |-> g.inFlight,
                  cur |-> g.cur, remaining |-> g.remaining]
      BY <1>1, <3>2
    <3>4. g \in FuUnits(u)
      BY <1>1, <3>2, <3>3 DEF FuUnits
    <3> QED BY <2>2, <3>1, <3>3, <3>4 DEF left
  <2> QED BY <2>1, <2>2
<1> QED BY <1>3, <1>4, <1>5, <1>6

(* What a tick does with the operations inside, in terms of their spots.   *)
LEMMA TickUnit ==
  ASSUME NEW u \in Units, unit[u] \in FuUnits(u), Sound(u, unit[u], out[u])
  PROVE  LET f == unit[u]
             t == Ticked(u).unit
             puts == Ticked(u).puts
         IN  /\ t \in FuUnits(u) /\ puts \in Contents /\ (puts # 0 => out[u] = 0)
             /\ Sound(u, t, IF puts # 0 THEN puts ELSE out[u])
             /\ t.cur # 0 => t.cur = f.cur
             /\ \A i \in Stages(u) : t.stages[i] # 0 => t.stages[i] = f.stages[i]
             /\ f.cur # 0 => t.cur = f.cur \/ puts = f.cur
             /\ \A i \in Stages(u) : f.stages[i] # 0 => t.stages[i] = f.stages[i] \/ puts = f.stages[i]
             /\ puts # 0 =>
                  \/ puts = f.cur /\ t.cur = 0
                  \/ \E i \in Stages(u) : puts = f.stages[i] /\ t.stages[i] = 0
<1> DEFINE f == unit[u]
           last == LastStage(u)
           t == Ticked(u).unit
           puts == Ticked(u).puts
<1>1. /\ f \in FuUnits(u) /\ f.stages \in [Stages(u) -> Contents] /\ f.inFlight \in Int
      /\ f.cur \in Contents /\ f.remaining \in 0 .. Latency[u]
  BY DEF FuUnits
<1>2. 0 \in Contents /\ Latency[u] \in Nat /\ Latency[u] >= 1 /\ Pipelined[u] \in BOOLEAN
  BY Constants DEF Contents
<1>3. last \in Stages(u)
  BY TickFields
<1>4. CASE ~Busy(u) \/ Frozen(u)
  <2>1. t = f /\ puts = 0
    BY <1>4, TickFields
  <2> HIDE DEF t, puts
  <2> QED BY <1>1, <1>2, <2>1 DEF t, puts
<1>5. CASE Busy(u) /\ ~Frozen(u) /\ Pipelined[u]
  <2>1. /\ t \in FuUnits(u) /\ puts = f.stages[last]
        /\ \A i \in Stages(u) : t.stages[i] = IF i = last THEN 0 ELSE f.stages[i]
        /\ t.inputSlot = last /\ t.cur = f.cur
        /\ t.inFlight = IF f.stages[last] = 0 THEN f.inFlight ELSE f.inFlight - 1
    BY <1>5, TickFields
  <2>2. f.cur = 0 /\ f.inFlight = Cardinality(Filled(u, f)) /\ out[u] = 0
    BY <1>5 DEF Sound, Frozen
  <2> HIDE DEF t, puts, last, f
  <2>3. Filled(u, t) = Filled(u, f) \ {last} /\ (last \in Filled(u, f) <=> f.stages[last] # 0)
    BY <1>3, <2>1 DEF Filled
  <2>4. t.inFlight = Cardinality(Filled(u, t))
    <3>1. IsFiniteSet(Filled(u, f))
      BY FilledFinite
    <3>2. Cardinality(Filled(u, t)) = IF last \in Filled(u, f) THEN Cardinality(Filled(u, f)) - 1
                                      ELSE Cardinality(Filled(u, f))
      BY <2>3, <3>1, FS_RemoveElement
    <3> QED BY <2>1, <2>2, <2>3, <3>2
  <2>5. Sound(u, t, IF puts # 0 THEN puts ELSE out[u])
    BY <1>5, <2>1, <2>2, <2>4 DEF Sound
  <2>6. puts \in Contents
    BY <1>1, <1>3, <2>1
  <2>7. /\ t.cur # 0 => t.cur = f.cur
        /\ \A i \in Stages(u) : t.stages[i] # 0 => t.stages[i] = f.stages[i]
        /\ f.cur # 0 => t.cur = f.cur \/ puts = f.cur
        /\ \A i \in Stages(u) : f.stages[i] # 0 => t.stages[i] = f.stages[i] \/ puts = f.stages[i]
        /\ puts # 0 => \E i \in Stages(u) : puts = f.stages[i] /\ t.stages[i] = 0
    BY <1>3, <2>1
  <2> QED BY <2>1, <2>2, <2>5, <2>6, <2>7 DEF t, puts, f
<1>6. CASE Busy(u) /\ ~Frozen(u) /\ ~Pipelined[u]
  <2>1. f.cur # 0 /\ out[u] = 0 /\ f.remaining # 0 /\ f.inFlight = 0
        /\ \A i \in Stages(u) : f.stages[i] = 0
    BY <1>6 DEF Sound, Busy
  <2>2. /\ t \in FuUnits(u) /\ puts = IF f.remaining = 1 THEN f.cur ELSE 0
        /\ t.stages = f.stages /\ t.inFlight = f.inFlight
        /\ t.cur = (IF f.remaining = 1 THEN 0 ELSE f.cur)
        /\ t.remaining = f.remaining - 1
    BY <1>6, <2>1, TickFields
  <2> HIDE DEF t, puts, f
  <2>3. Sound(u, t, IF puts # 0 THEN puts ELSE out[u])
    <3>1. t.cur # 0 => puts = 0 /\ t.remaining # 0
      BY <1>1, <1>2, <2>1, <2>2
    <3> QED BY <1>6, <2>1, <2>2, <3>1 DEF Sound
  <2> QED BY <1>1, <1>2, <2>1, <2>2, <2>3 DEF t, puts, f
<1>7. Busy(u) \in BOOLEAN /\ Frozen(u) \in BOOLEAN
  BY DEF Busy, Frozen
<1> HIDE DEF t, puts, f
<1> QED BY <1>2, <1>4, <1>5, <1>6, Zenon
-----------------------------------------------------------------------------
(* The steps *)

LEMMA UnitsInitially == UInit => UnitsInv
<1> SUFFICES ASSUME UInit PROVE UnitsInv
  OBVIOUS
<1>1. 0 \in Contents /\ \A u \in Units : 0 \in Stages(u) /\ 0 \in 0 .. Latency[u]
  BY Constants DEF Contents, Stages
<1>2. \A u \in Units : /\ unit[u].stages = [i \in Stages(u) |-> 0] /\ unit[u].inputSlot = 0
                       /\ unit[u].inFlight = 0 /\ unit[u].cur = 0 /\ unit[u].remaining = 0
                       /\ unit[u] \in FuUnits(u)
  <2> SUFFICES ASSUME NEW u \in Units
               PROVE  /\ unit[u].stages = [i \in Stages(u) |-> 0] /\ unit[u].inputSlot = 0
                      /\ unit[u].inFlight = 0 /\ unit[u].cur = 0 /\ unit[u].remaining = 0
                      /\ unit[u] \in FuUnits(u)
    OBVIOUS
  <2> DEFINE empty == [i \in Stages(u) |-> 0]
  <2>1. unit[u] = [stages |-> empty, inputSlot |-> 0, inFlight |-> 0, cur |-> 0, remaining |-> 0]
    BY DEF UInit, Idle, Stages
  <2>2. empty \in [Stages(u) -> Contents]
    BY <1>1
  <2> HIDE DEF empty
  <2>3. unit[u] \in FuUnits(u)
    BY <1>1, <2>1, <2>2 DEF FuUnits
  <2>4. unit[u].stages = empty
    BY <2>1
  <2> QED BY <2>1, <2>3, <2>4 DEF empty
<1>3. Shape
  <2>1. stage = "writeback" /\ won = 0 /\ out = [x \in Slots |-> 0]
        /\ fate = [s \in Ops |-> "undispatched"]
    BY DEF UInit
  <2>2. out \in [Slots -> Contents] /\ fate \in [Ops -> Fates]
    BY <1>1, <2>1 DEF Fates
  <2>3. unit = [u \in Units |-> unit[u]]
    BY DEF UInit
  <2>4. 0 \in 0 .. WbPorts
    BY Constants
  <2> QED BY <1>2, <2>1, <2>2, <2>3, <2>4 DEF Shape
<1>4. \A u \in Units : Sound(u, unit[u], out[u])
  <2> SUFFICES ASSUME NEW u \in Units PROVE Sound(u, unit[u], out[u])
    OBVIOUS
  <2>1. Filled(u, unit[u]) = {}
    BY <1>2 DEF Filled
  <2> QED BY <1>2, <2>1, FS_EmptySet DEF Sound
<1>5. \A p \in Spots : Held(p) = 0
  <2>1. \A x \in Slots : out[x] = 0
    BY DEF UInit
  <2>2. \A u \in Units : unit[u].cur = 0 /\ \A i \in Stages(u) : unit[u].stages[i] = 0
    BY <1>2
  <2> QED BY <2>1, <2>2, SpotsAre
<1>6. Located
  BY <1>5, Constants DEF Located, UInit
<1>7. Listed
  <2>1. wbReady \in Seq(Slots) /\ Len(wbReady) = 0
    BY DEF UInit
  <2> QED BY <2>1 DEF Listed, Distinct, Has, UInit
<1> QED BY <1>3, <1>4, <1>6, <1>7 DEF UnitsInv

LEMMA SoundEmpty ==
  ASSUME NEW u \in Units, NEW f, NEW o, Sound(u, f, o)
  PROVE  Sound(u, f, 0)
BY DEF Sound

(* Only the stage counter, or a fate that is not "executing", changes.     *)
LEMMA NothingMoves ==
  ASSUME UnitsInv, UNCHANGED <<unit, out, wbReady>>, fate' \in [Ops -> Fates],
         \A t \in Ops : fate'[t] = "executing" <=> fate[t] = "executing",
         stage' \in DOMAIN StageAfter \cup {"writeback", "edge"}, won' \in 0 .. WbPorts
  PROVE  UnitsInv'
<1>1. \A p \in Spots : Held(p)' = Held(p)
  BY DEF Held
<1>2. Located'
  <2>1. /\ {} \in SUBSET Ops
        /\ \A p \in Spots : Held(p)' = IF Held(p) \in {} THEN 0 ELSE Held(p)
        /\ \A t \in Ops : fate'[t] = "executing" <=> fate[t] = "executing" /\ t \notin {}
    BY <1>1
  <2>2. Located
    BY DEF UnitsInv
  <2> QED BY <2>1, <2>2, Left
<1>3. Shape'
  <2>1. Shape
    BY DEF UnitsInv
  <2> QED BY <2>1 DEF Shape, FuUnits, Stages, Slots
<1>4. \A u \in Units : Sound(u, unit[u], out[u])'
  BY DEF UnitsInv, Sound, Filled, Stages
<1>5. Listed'
  BY DEF UnitsInv, Listed
<1> QED BY <1>2, <1>3, <1>4, <1>5 DEF UnitsInv

LEMMA EndWritebackStep == UnitsInv /\ EndWriteback => UnitsInv'
<1> SUFFICES ASSUME UnitsInv, EndWriteback PROVE UnitsInv'
  OBVIOUS
<1>1. stage' = "agu" /\ won' = 0 /\ UNCHANGED <<unit, out, wbReady, fate>>
  BY DEF EndWriteback
<1>2. stage' \in DOMAIN StageAfter /\ won' \in 0 .. WbPorts /\ fate' \in [Ops -> Fates]
  BY <1>1, Constants DEF StageAfter, UnitsInv, Shape
<1> QED BY <1>1, <1>2, NothingMoves

LEMMA EndStageStep == UnitsInv /\ EndStage => UnitsInv'
<1> SUFFICES ASSUME UnitsInv, EndStage PROVE UnitsInv'
  OBVIOUS
<1>1. stage \in DOMAIN StageAfter /\ stage' = StageAfter[stage]
      /\ UNCHANGED <<unit, out, wbReady, won, fate>>
  BY DEF EndStage
<1>2. stage' \in DOMAIN StageAfter \cup {"writeback", "edge"}
  BY <1>1 DEF StageAfter
<1>3. won' \in 0 .. WbPorts /\ fate' \in [Ops -> Fates]
  BY <1>1 DEF UnitsInv, Shape
<1> QED BY <1>1, <1>2, <1>3, NothingMoves

LEMMA DispatchStep == \A s \in Ops : UnitsInv /\ Dispatch(s) => UnitsInv'
<1> SUFFICES ASSUME NEW s \in Ops, UnitsInv, Dispatch(s) PROVE UnitsInv'
  OBVIOUS
<1>1. fate[s] = "undispatched" /\ fate' = [fate EXCEPT ![s] = "waiting"]
      /\ UNCHANGED <<stage, unit, out, wbReady, won>>
  BY DEF Dispatch
<1>2. /\ fate \in [Ops -> Fates] /\ stage' \in DOMAIN StageAfter \cup {"writeback", "edge"}
      /\ won' \in 0 .. WbPorts
  BY <1>1 DEF UnitsInv, Shape
<1>3. fate' \in [Ops -> Fates]
  BY <1>1, <1>2 DEF Fates
<1>4. \A t \in Ops : fate'[t] = "executing" <=> fate[t] = "executing"
  BY <1>1, <1>2
<1> QED BY <1>1, <1>2, <1>3, <1>4, NothingMoves

(* recover(s): slots and ready are what the caller made of the output      *)
(* slots and of the list.                                                  *)
LEMMA Recovering ==
  ASSUME UnitsInv, NEW s \in Nat, NEW slots \in [Slots -> Contents],
         \A x \in Slots : slots[x] \in {0, out[x]},
         NEW ready \in Seq(Slots), Distinct(ready),
         \A x \in Slots : Has(ready, x) <=> slots[x] # 0,
         Recover(s, slots, ready)
  PROVE  /\ unit' = [u \in Units |-> unit'[u]] /\ \A u \in Units : (unit[u] \in FuUnits(u))'
         /\ out' \in [Slots -> Contents] /\ \A x \in Slots : out'[x] = Keep(slots[x], s)
         /\ \A u \in Units : Sound(u, unit[u], out[u])'
         /\ Listed'
         /\ \A u \in Units : unit'[u].cur = Keep(unit[u].cur, s)
         /\ \A u \in Units : \A i \in Stages(u) :
              unit'[u].stages[i] = Keep(unit[u].stages[i], s)
<1>1. /\ unit' = [u \in Units |-> Flushed(u, s)]
      /\ out' = [x \in Slots |-> Keep(slots[x], s)]
      /\ wbReady' = ValidOnly(ready, out')
  BY DEF Recover
<1>2. \A c \in Contents : Keep(c, s) \in {0, c}
  BY DEF Keep
<1>3. 0 \in Contents
  BY DEF Contents
<1>4. out' \in [Slots -> Contents] /\ \A x \in Slots : out'[x] = Keep(slots[x], s)
  BY <1>1, <1>2, <1>3
<1>5. ASSUME NEW u \in Units
      PROVE  /\ (unit[u] \in FuUnits(u))' /\ Sound(u, unit[u], out[u])'
             /\ unit'[u].cur = Keep(unit[u].cur, s)
             /\ \A i \in Stages(u) : unit'[u].stages[i] = Keep(unit[u].stages[i], s)
  <2>1. unit[u] \in FuUnits(u) /\ Sound(u, unit[u], out[u]) /\ u \in Slots
    BY Constants DEF UnitsInv, Shape
  <2>2. out'[u] \in {0, out[u]}
    BY <1>2, <1>3, <1>4, <2>1
  <2>3. unit'[u] = Flushed(u, s)
    BY <1>1
  <2>4. /\ Flushed(u, s) \in FuUnits(u) /\ Sound(u, Flushed(u, s), out'[u])
        /\ Flushed(u, s).cur = Keep(unit[u].cur, s)
        /\ \A i \in Stages(u) : Flushed(u, s).stages[i] = Keep(unit[u].stages[i], s)
    BY <2>1, <2>2, FlushUnit
  <2>5. (unit[u] \in FuUnits(u))' <=> unit'[u] \in FuUnits(u)
    BY DEF FuUnits, Stages
  <2>6. Sound(u, unit[u], out[u])' <=> Sound(u, unit'[u], out'[u])
    BY DEF Sound, Filled, Stages
  <2> QED BY <2>3, <2>4, <2>5, <2>6
<1>6. Listed'
  <2>1. /\ wbReady' \in Seq(Slots) /\ Distinct(wbReady')
        /\ \A x : Has(wbReady', x) <=> Has(ready, x) /\ out'[x] # 0
    BY <1>1, ValidOnlyKeeps
  <2>2. \A x \in Slots : out'[x] # 0 => slots[x] # 0
    BY <1>4 DEF Keep
  <2> QED BY <2>1, <2>2 DEF Listed, Has, Distinct, Slots
<1>7. unit' = [u \in Units |-> unit'[u]]
  BY <1>1
<1> QED BY <1>4, <1>5, <1>6, <1>7

(* What a spot held is kept or gone.                                       *)
LEMMA Swept ==
  ASSUME UnitsInv, NEW s \in Nat, NEW slots \in [Slots -> Contents],
         NEW Gone \in SUBSET Ops,
         \A x \in Slots : out'[x] = Keep(slots[x], s),
         \A u \in Units : unit'[u].cur = Keep(unit[u].cur, s),
         \A u \in Units : \A i \in Stages(u) :
           unit'[u].stages[i] = Keep(unit[u].stages[i], s),
         \A x \in Slots : Keep(slots[x], s) = IF out[x] \in Gone THEN 0 ELSE out[x],
         \A u \in Units : Keep(unit[u].cur, s) = IF unit[u].cur \in Gone THEN 0 ELSE unit[u].cur,
         \A u \in Units : \A i \in Stages(u) :
           Keep(unit[u].stages[i], s)
             = IF unit[u].stages[i] \in Gone THEN 0 ELSE unit[u].stages[i],
         \A t \in Ops : fate'[t] = "executing" <=> fate[t] = "executing" /\ t \notin Gone
  PROVE  Located'
<1>1. \A p \in Spots : Held(p)' = IF Held(p) \in Gone THEN 0 ELSE Held(p)
  <2> SUFFICES ASSUME NEW p \in Spots PROVE Held(p)' = IF Held(p) \in Gone THEN 0 ELSE Held(p)
    OBVIOUS
  <2>1. CASE \E u \in Units : p = <<"cur", u, 0>>
    BY <2>1 DEF Held
  <2>2. CASE \E x \in Slots : p = <<"out", x, 0>>
    BY <2>2 DEF Held
  <2>3. CASE \E u \in Units : \E i \in Stages(u) : p = <<"stage", u, i>>
    BY <2>3 DEF Held
  <2> QED BY <2>1, <2>2, <2>3, SpotsAre
<1>2. Located
  BY DEF UnitsInv
<1> QED BY <1>1, <1>2, Left

(* The place of an operation is the only one.                              *)
LEMMA OnlyThere ==
  ASSUME UnitsInv, NEW x \in Slots, out[x] # 0
  PROVE  /\ \A y \in Slots : out[y] = out[x] => y = x
         /\ \A u \in Units : unit[u].cur # out[x]
         /\ \A u \in Units : \A i \in Stages(u) : unit[u].stages[i] # out[x]
<1>1. \A p, q \in Spots : Held(p) # 0 /\ Held(p) = Held(q) => p = q
  BY DEF UnitsInv, Located
<1> DEFINE p == <<"out", x, 0>>
<1>2. p \in Spots /\ Held(p) = out[x] /\ \A q \in Spots : Held(q) = out[x] => q = p
  BY <1>1, SpotsAre
<1>3. ASSUME NEW y \in Slots, out[y] = out[x] PROVE y = x
  <2>1. <<"out", y, 0>> = p
    BY <1>2, <1>3, SpotsAre
  <2> QED BY <2>1
<1>4. ASSUME NEW u \in Units PROVE unit[u].cur # out[x]
  <2>1. <<"cur", u, 0>> # p
    OBVIOUS
  <2> QED BY <1>2, <2>1, SpotsAre
<1>5. ASSUME NEW u \in Units, NEW i \in Stages(u) PROVE unit[u].stages[i] # out[x]
  <2>1. <<"stage", u, i>> # p
    OBVIOUS
  <2> QED BY <1>2, <2>1, SpotsAre
<1> QED BY <1>3, <1>4, <1>5

LEMMA ReplayStep == \A s \in Ops : UnitsInv /\ Replay(s) => UnitsInv'
<1> SUFFICES ASSUME NEW s \in Ops, UnitsInv, Replay(s) PROVE UnitsInv'
  OBVIOUS
<1>1. /\ Recover(s - 1, out, wbReady) /\ fate' = Squashed(s - 1)
      /\ UNCHANGED <<stage, won>>
  BY DEF Replay
<1>2. s - 1 \in Nat /\ s \in Nat
  BY Constants
<1>3. /\ Shape /\ out \in [Slots -> Contents] /\ wbReady \in Seq(Slots) /\ Distinct(wbReady)
      /\ \A x \in Slots : Has(wbReady, x) <=> out[x] # 0
      /\ fate \in [Ops -> Fates]
  BY DEF UnitsInv, Shape, Listed
<1>4. /\ unit' = [u \in Units |-> unit'[u]] /\ \A u \in Units : (unit[u] \in FuUnits(u))'
      /\ out' \in [Slots -> Contents] /\ \A x \in Slots : out'[x] = Keep(out[x], s - 1)
      /\ \A u \in Units : Sound(u, unit[u], out[u])'
      /\ Listed'
      /\ \A u \in Units : unit'[u].cur = Keep(unit[u].cur, s - 1)
      /\ \A u \in Units : \A i \in Stages(u) :
           unit'[u].stages[i] = Keep(unit[u].stages[i], s - 1)
  BY <1>1, <1>2, <1>3, Recovering
<1> DEFINE Gone == {t \in Ops : t > s - 1}
<1>5. \A c \in Contents : Keep(c, s - 1) = IF c \in Gone THEN 0 ELSE c
  BY <1>2, Constants DEF Keep, Contents
<1>6. fate' \in [Ops -> Fates]
      /\ \A t \in Ops : fate'[t] = "executing" <=> fate[t] = "executing" /\ t \notin Gone
  BY <1>1, <1>3 DEF Squashed, Fates
<1>7. Gone \in SUBSET Ops
  OBVIOUS
<1> HIDE DEF Gone
<1>8. /\ \A x \in Slots : out[x] \in Contents
      /\ \A u \in Units : unit[u].cur \in Contents /\ \A i \in Stages(u) : unit[u].stages[i] \in Contents
  BY <1>3 DEF Shape, FuUnits
<1>9. Located'
  <2>1. /\ \A x \in Slots : Keep(out[x], s - 1) = IF out[x] \in Gone THEN 0 ELSE out[x]
        /\ \A u \in Units :
             Keep(unit[u].cur, s - 1) = IF unit[u].cur \in Gone THEN 0 ELSE unit[u].cur
        /\ \A u \in Units : \A i \in Stages(u) :
             Keep(unit[u].stages[i], s - 1)
               = IF unit[u].stages[i] \in Gone THEN 0 ELSE unit[u].stages[i]
    BY <1>5, <1>8
  <2> DEFINE m == s - 1
  <2>2. /\ m \in Nat /\ out \in [Slots -> Contents]
        /\ \A x \in Slots : out'[x] = Keep(out[x], m)
        /\ \A u \in Units : unit'[u].cur = Keep(unit[u].cur, m)
        /\ \A u \in Units : \A i \in Stages(u) :
             unit'[u].stages[i] = Keep(unit[u].stages[i], m)
        /\ \A x \in Slots : Keep(out[x], m) = IF out[x] \in Gone THEN 0 ELSE out[x]
        /\ \A u \in Units :
             Keep(unit[u].cur, m) = IF unit[u].cur \in Gone THEN 0 ELSE unit[u].cur
        /\ \A u \in Units : \A i \in Stages(u) :
             Keep(unit[u].stages[i], m)
               = IF unit[u].stages[i] \in Gone THEN 0 ELSE unit[u].stages[i]
    BY <1>2, <1>3, <1>4, <2>1
  <2> HIDE DEF m
  <2> QED BY <1>6, <1>7, <2>2, Swept
<1>10. Shape'
  BY <1>1, <1>3, <1>4, <1>6 DEF Shape, Slots
<1> QED BY <1>4, <1>9, <1>10 DEF UnitsInv

(* The oldest candidate exists.                                           *)
LEMMA WinnerIs ==
  ASSUME UnitsInv, wbReady # <<>>
  PROVE  /\ Winner \in 1 .. Len(wbReady)
         /\ wbReady[Winner] \in Slots /\ out[wbReady[Winner]] \in Ops
<1>1. /\ out \in [Slots -> Contents] /\ wbReady \in Seq(Slots)
      /\ \A y \in Slots : Has(wbReady, y) <=> out[y] # 0
  BY DEF UnitsInv, Shape, Listed
<1>2. Winner \in 1 .. Len(wbReady)
  <2> DEFINE S == {out[wbReady[i]] : i \in DOMAIN wbReady}
  <2>1. DOMAIN wbReady = 1 .. Len(wbReady)
        /\ \A i \in DOMAIN wbReady : wbReady[i] \in Slots
    BY <1>1
  <2>2. S \subseteq Nat /\ S # {}
    BY <1>1, <2>1, Constants DEF Contents
  <2>3. PICK m \in S : \A t \in S : m <= t
    <3> HIDE DEF S
    <3> QED BY <2>2, MinExists
  <2>4. \E i \in DOMAIN wbReady : \A j \in DOMAIN wbReady : out[wbReady[i]] <= out[wbReady[j]]
    BY <2>3
  <2> QED BY <2>1, <2>4 DEF Winner
<1>3. wbReady[Winner] \in Slots /\ Has(wbReady, wbReady[Winner])
  BY <1>1, <1>2 DEF Has
<1> QED BY <1>1, <1>2, <1>3 DEF Contents

LEMMA WritebackStep == UnitsInv /\ Writeback => UnitsInv'
<1> SUFFICES ASSUME UnitsInv, Writeback PROVE UnitsInv'
  OBVIOUS
<1> DEFINE x == wbReady[Winner]
           s == out[x]
           rest == SwapAndPop(wbReady, Winner)
<1>1. /\ Shape /\ out \in [Slots -> Contents] /\ wbReady \in Seq(Slots) /\ Distinct(wbReady)
      /\ \A y \in Slots : Has(wbReady, y) <=> out[y] # 0
      /\ fate \in [Ops -> Fates] /\ Located
      /\ \A u \in Units : Sound(u, unit[u], out[u])
  BY DEF UnitsInv, Shape, Listed
<1>2. Winner \in 1 .. Len(wbReady)
  BY WinnerIs DEF Writeback
<1>3. x \in Slots /\ Has(wbReady, x)
  BY <1>1, <1>2 DEF Has
<1>4. /\ rest \in Seq(Slots) /\ Distinct(rest)
      /\ \A y : Has(rest, y) <=> Has(wbReady, y) /\ y # x
  BY <1>1, <1>2, SwapAndPopDrops
<1>5. stage = "writeback" /\ won < WbPorts
      /\ \/ /\ out' = [out EXCEPT ![x] = 0]
            /\ wbReady' = rest
            /\ won' = won + 1
            /\ fate' = [fate EXCEPT ![s] = "done"]
            /\ UNCHANGED <<stage, unit>>
         \/ /\ x \in Units
            /\ Recover(s, [out EXCEPT ![x] = 0], rest)
            /\ fate' = [Squashed(s) EXCEPT ![s] = "done"]
            /\ stage' = "agu" /\ won' = 0
  BY DEF Writeback
<1> HIDE DEF x, rest
<1>6. s \in Ops /\ s # 0 /\ s \in Nat
  BY <1>1, <1>3, Constants DEF Contents
<1>7. /\ \A y \in Slots : out[y] = s => y = x
      /\ \A u \in Units : unit[u].cur # s
      /\ \A u \in Units : \A i \in Stages(u) : unit[u].stages[i] # s
  BY <1>3, <1>6, OnlyThere
<1> DEFINE slots == [out EXCEPT ![x] = 0]
<1>8. /\ slots \in [Slots -> Contents]
      /\ \A y \in Slots : slots[y] = (IF y = x THEN 0 ELSE out[y]) /\ slots[y] \in {0, out[y]}
      /\ \A y \in Slots : Has(rest, y) <=> slots[y] # 0
  BY <1>1, <1>3, <1>4 DEF Contents
<1>9. /\ \A y \in Slots : out[y] \in Contents
      /\ \A u \in Units : unit[u].cur \in Contents /\ \A i \in Stages(u) : unit[u].stages[i] \in Contents
  BY <1>1 DEF Shape, FuUnits
<1> HIDE DEF s, slots
<1>10. CASE /\ out' = slots /\ wbReady' = rest /\ won' = won + 1
            /\ fate' = [fate EXCEPT ![s] = "done"] /\ UNCHANGED <<stage, unit>>
  <2>1. fate' \in [Ops -> Fates]
        /\ \A t \in Ops : fate'[t] = "executing" <=> fate[t] = "executing" /\ t \notin {s}
    BY <1>1, <1>6, <1>10 DEF Fates
  <2>2. \A p \in Spots : Held(p)' = IF Held(p) \in {s} THEN 0 ELSE Held(p)
    <3> SUFFICES ASSUME NEW p \in Spots PROVE Held(p)' = IF Held(p) = s THEN 0 ELSE Held(p)
      OBVIOUS
    <3>1. CASE \E u \in Units : p = <<"cur", u, 0>>
      BY <1>7, <1>10, <3>1 DEF Held
    <3>2. CASE \E y \in Slots : p = <<"out", y, 0>>
      <4>1. PICK y \in Slots : p = <<"out", y, 0>>
        BY <3>2
      <4>2. Held(p) = out[y] /\ Held(p)' = out'[y]
        BY <4>1 DEF Held
      <4>3. y = x => out[y] = s
        BY DEF s
      <4> QED BY <1>7, <1>8, <1>10, <4>2, <4>3
    <3>3. CASE \E u \in Units : \E i \in Stages(u) : p = <<"stage", u, i>>
      BY <1>7, <1>10, <3>3 DEF Held
    <3> QED BY <3>1, <3>2, <3>3, SpotsAre
  <2>3. {s} \in SUBSET Ops
    BY <1>6
  <2>4. Located'
    BY <1>1, <2>1, <2>2, <2>3, Left
  <2>5. \A u \in Units : Sound(u, unit[u], out[u])'
    <3> SUFFICES ASSUME NEW u \in Units PROVE Sound(u, unit[u], out[u])'
      OBVIOUS
    <3>1. Sound(u, unit[u], out'[u])
      BY <1>1, <1>8, <1>10, SoundEmpty, Constants
    <3> QED BY <1>10, <3>1 DEF Sound, Filled, Stages
  <2>6. Listed'
    BY <1>4, <1>8, <1>10 DEF Listed, Slots, Has, Distinct
  <2>7. Shape'
    <3>1. won' \in 0 .. WbPorts
      BY <1>1, <1>5, <1>10, Constants DEF Shape
    <3>2. \A u \in Units : (unit[u] \in FuUnits(u))'
      BY <1>1, <1>10 DEF Shape, FuUnits, Stages
    <3> QED BY <1>1, <1>8, <1>10, <2>1, <3>1, <3>2 DEF Shape, Slots
  <2> QED BY <2>4, <2>5, <2>6, <2>7 DEF UnitsInv
<1>11. CASE /\ Recover(s, slots, rest) /\ fate' = [Squashed(s) EXCEPT ![s] = "done"]
            /\ stage' = "agu" /\ won' = 0
  <2>1. /\ unit' = [u \in Units |-> unit'[u]] /\ \A u \in Units : (unit[u] \in FuUnits(u))'
        /\ out' \in [Slots -> Contents] /\ \A y \in Slots : out'[y] = Keep(slots[y], s)
        /\ \A u \in Units : Sound(u, unit[u], out[u])'
        /\ Listed'
        /\ \A u \in Units : unit'[u].cur = Keep(unit[u].cur, s)
        /\ \A u \in Units : \A i \in Stages(u) :
             unit'[u].stages[i] = Keep(unit[u].stages[i], s)
    BY <1>4, <1>6, <1>8, <1>11, Recovering
  <2> DEFINE Gone == {t \in Ops : t >= s}
  <2>2. \A c \in Contents : c # s => Keep(c, s) = IF c \in Gone THEN 0 ELSE c
    <3> SUFFICES ASSUME NEW c \in Contents, c # s
                 PROVE  Keep(c, s) = IF c \in Gone THEN 0 ELSE c
      OBVIOUS
    <3>1. CASE c = 0
      BY <1>6, <3>1 DEF Keep
    <3>2. CASE c # 0
      <4>1. c \in Ops /\ c \in Nat
        BY <3>2, Constants DEF Contents
      <4>2. c > s <=> c >= s
        BY <1>6, <4>1
      <4> QED BY <4>1, <4>2 DEF Keep
    <3> QED BY <3>1, <3>2
  <2>3. fate' \in [Ops -> Fates]
        /\ \A t \in Ops : fate'[t] = "executing" <=> fate[t] = "executing" /\ t \notin Gone
    <3>1. \A t \in Ops : t >= s <=> t > s \/ t = s
      BY <1>6, Constants
    <3> QED BY <1>1, <1>6, <1>11, <3>1 DEF Squashed, Fates
  <2>4. Gone \in SUBSET Ops /\ s \in Gone
    BY <1>6
  <2> HIDE DEF Gone
  <2>5. \A y \in Slots : Keep(slots[y], s) = IF out[y] \in Gone THEN 0 ELSE out[y]
    <3> SUFFICES ASSUME NEW y \in Slots
                 PROVE  Keep(slots[y], s) = IF out[y] \in Gone THEN 0 ELSE out[y]
      OBVIOUS
    <3>1. CASE y = x
      <4>1. out[y] = s /\ slots[y] = 0
        BY <1>8, <3>1 DEF s
      <4> QED BY <2>4, <4>1, <1>6 DEF Keep
    <3>2. CASE y # x
      BY <1>7, <1>8, <1>9, <2>2, <3>2
    <3> QED BY <3>1, <3>2
  <2>6. \A u \in Units : Keep(unit[u].cur, s) = IF unit[u].cur \in Gone THEN 0 ELSE unit[u].cur
    BY <1>7, <1>9, <2>2
  <2>7. \A u \in Units : \A i \in Stages(u) :
          Keep(unit[u].stages[i], s)
            = IF unit[u].stages[i] \in Gone THEN 0 ELSE unit[u].stages[i]
    BY <1>7, <1>9, <2>2
  <2>8. Located'
    BY <1>6, <1>8, <2>1, <2>3, <2>4, <2>5, <2>6, <2>7, Swept
  <2>9. Shape'
    BY <1>11, <2>1, <2>3, Constants DEF Shape, Slots, StageAfter
  <2> QED BY <2>1, <2>8, <2>9 DEF UnitsInv
<1> QED BY <1>5, <1>10, <1>11 DEF s, slots

LEMMA ReportLoadStep ==
  \A s \in Ops : \A x \in LoadOuts : UnitsInv /\ ReportLoad(x, s) => UnitsInv'
<1> SUFFICES ASSUME NEW s \in Ops, NEW x \in LoadOuts, UnitsInv, ReportLoad(x, s)
             PROVE  UnitsInv'
  OBVIOUS
<1>1. /\ stage = "lsq" /\ out[x] = 0 /\ fate[s] = "waiting"
      /\ out' = [out EXCEPT ![x] = s]
      /\ wbReady' = Append(wbReady, x)
      /\ fate' = [fate EXCEPT ![s] = "executing"]
      /\ UNCHANGED <<stage, unit, won>>
  BY DEF ReportLoad
<1>2. /\ Shape /\ out \in [Slots -> Contents] /\ wbReady \in Seq(Slots) /\ Distinct(wbReady)
      /\ \A y \in Slots : Has(wbReady, y) <=> out[y] # 0
      /\ fate \in [Ops -> Fates] /\ Located
      /\ \A u \in Units : Sound(u, unit[u], out[u])
  BY DEF UnitsInv, Shape, Listed
<1>3. x \in Slots /\ x \notin Units /\ s # 0 /\ s \in Contents
  BY Constants DEF Contents
<1>4. /\ out' \in [Slots -> Contents]
      /\ \A y \in Slots : out'[y] = IF y = x THEN s ELSE out[y]
  BY <1>1, <1>2, <1>3
<1>5. Located'
  <2> DEFINE p == <<"out", x, 0>>
  <2>1. p \in Spots /\ Held(p) = 0
    BY <1>1, <1>3, SpotsAre
  <2>2. Held(p)' = s
    BY <1>3, <1>4 DEF Held
  <2>3. \A q \in Spots : q # p => Held(q)' = Held(q)
    <3> SUFFICES ASSUME NEW q \in Spots, q # p PROVE Held(q)' = Held(q)
      OBVIOUS
    <3>1. CASE \E u \in Units : q = <<"cur", u, 0>>
      BY <1>1, <3>1 DEF Held
    <3>2. CASE \E y \in Slots : q = <<"out", y, 0>>
      <4>1. PICK y \in Slots : q = <<"out", y, 0>>
        BY <3>2
      <4>2. y # x
        BY <4>1
      <4> QED BY <1>4, <4>1, <4>2 DEF Held
    <3>3. CASE \E u \in Units : \E i \in Stages(u) : q = <<"stage", u, i>>
      BY <1>1, <3>3 DEF Held
    <3> QED BY <3>1, <3>2, <3>3, SpotsAre
  <2>4. fate[s] # "executing"
    BY <1>1
  <2> HIDE DEF p
  <2> QED BY <1>1, <1>2, <2>1, <2>2, <2>3, <2>4, Entered
<1>6. \A u \in Units : Sound(u, unit[u], out[u])'
  <2> SUFFICES ASSUME NEW u \in Units PROVE Sound(u, unit[u], out[u])'
    OBVIOUS
  <2>1. u # x /\ u \in Slots
    BY <1>3, Constants
  <2>2. out'[u] = out[u]
    BY <1>4, <2>1
  <2> QED BY <1>1, <1>2, <2>2 DEF Sound, Filled, Stages
<1>7. Listed'
  <2>1. ~Has(wbReady, x)
    BY <1>1, <1>2, <1>3
  <2>2. /\ wbReady' \in Seq(Slots) /\ Distinct(wbReady') /\ Has(wbReady', x)
        /\ \A y : y # x => (Has(wbReady', y) <=> Has(wbReady, y))
    BY <1>1, <1>2, <1>3, <2>1, AppendDistinct
  <2>3. \A y \in Slots : Has(wbReady', y) <=> out'[y] # 0
    BY <1>2, <1>3, <1>4, <2>2
  <2> QED BY <2>2, <2>3 DEF Listed, Slots, Has, Distinct
<1>8. Shape'
  <2>1. fate' \in [Ops -> Fates]
    BY <1>1, <1>2 DEF Fates
  <2>2. \A u \in Units : (unit[u] \in FuUnits(u))'
    BY <1>1, <1>2 DEF Shape, FuUnits, Stages
  <2> QED BY <1>1, <1>2, <1>4, <2>1, <2>2 DEF Shape, Slots
<1> QED BY <1>5, <1>6, <1>7, <1>8 DEF UnitsInv

LEMMA IssueStep ==
  \A s \in Ops : \A u \in Units : UnitsInv /\ Issue(u, s) => UnitsInv'
<1> SUFFICES ASSUME NEW s \in Ops, NEW u \in Units, UnitsInv, Issue(u, s)
             PROVE  UnitsInv'
  OBVIOUS
<1> DEFINE f == unit[u]
           a == Accepted(u, s)
<1>1. /\ fate[s] = "waiting" /\ CanAccept(u)
      /\ unit' = [unit EXCEPT ![u] = a]
      /\ fate' = [fate EXCEPT ![s] = "executing"]
      /\ UNCHANGED <<stage, out, wbReady, won>>
  BY DEF Issue
<1>2. /\ Shape /\ out \in [Slots -> Contents] /\ fate \in [Ops -> Fates] /\ Located /\ Listed
      /\ unit = [v \in Units |-> unit[v]]
      /\ \A v \in Units : Sound(v, unit[v], out[v]) /\ unit[v] \in FuUnits(v)
  BY DEF UnitsInv, Shape
<1>3. a \in FuUnits(u) /\ Sound(u, a, out[u])
  BY <1>1, <1>2, AcceptUnit
<1>4. Pipelined[u] \in BOOLEAN /\ s # 0
  BY Constants
<1>5. /\ f = [stages |-> f.stages, inputSlot |-> f.inputSlot, inFlight |-> f.inFlight,
              cur |-> f.cur, remaining |-> f.remaining]
      /\ f.stages \in [Stages(u) -> Contents] /\ f.inputSlot \in Stages(u)
  BY <1>2 DEF FuUnits
(* Where it enters.                                                        *)
<1>6. \E p \in Spots :
        /\ Held(p) = 0
        /\ \/ /\ p = <<"cur", u, 0>> /\ a.cur = s
              /\ \A i \in Stages(u) : a.stages[i] = f.stages[i]
           \/ \E n \in Stages(u) :
                /\ p = <<"stage", u, n>> /\ a.cur = f.cur
                /\ \A i \in Stages(u) : a.stages[i] = IF i = n THEN s ELSE f.stages[i]
  <2>1. CASE Pipelined[u]
    <3> DEFINE n == f.inputSlot
               filled == [f.stages EXCEPT ![n] = s]
               count == f.inFlight + 1
    <3>1. a = [f EXCEPT !.stages = filled, !.inFlight = count]
      BY <2>1 DEF Accepted
    <3>2. f.stages[n] = 0
      BY <1>1, <2>1 DEF CanAccept
    <3>3. \A i \in Stages(u) : filled[i] = IF i = n THEN s ELSE f.stages[i]
      BY <1>5
    <3> HIDE DEF a, f, filled, count
    <3>4. a.stages = filled /\ a.cur = f.cur
      BY <1>5, <3>1
    <3>5. <<"stage", u, n>> \in Spots /\ Held(<<"stage", u, n>>) = 0
      BY <1>5, <3>2, SpotsAre DEF f
    <3> QED BY <1>5, <3>3, <3>4, <3>5
  <2>2. CASE ~Pipelined[u]
    <3>1. a = [f EXCEPT !.cur = s, !.remaining = Latency[u]]
      BY <2>2 DEF Accepted
    <3>2. f.cur = 0
      BY <1>1, <2>2 DEF CanAccept
    <3>3. <<"cur", u, 0>> \in Spots /\ Held(<<"cur", u, 0>>) = 0
      BY <3>2, SpotsAre
    <3> HIDE DEF a, f
    <3>4. a.stages = f.stages /\ a.cur = s
      BY <1>5, <3>1
    <3> QED BY <3>3, <3>4
  <2> QED BY <1>4, <2>1, <2>2
<1> HIDE DEF a
<1>7. unit' = [v \in Units |-> IF v = u THEN a ELSE unit[v]]
  BY <1>1, <1>2
<1>8. \A v \in Units : unit'[v] = IF v = u THEN a ELSE unit[v]
  BY <1>7
<1>9. Located'
  <2>1. PICK p \in Spots :
          /\ Held(p) = 0
          /\ \/ /\ p = <<"cur", u, 0>> /\ a.cur = s
                /\ \A i \in Stages(u) : a.stages[i] = f.stages[i]
             \/ \E n \in Stages(u) :
                  /\ p = <<"stage", u, n>> /\ a.cur = f.cur
                  /\ \A i \in Stages(u) : a.stages[i] = IF i = n THEN s ELSE f.stages[i]
    BY <1>6
  <2>2. Held(p)' = s
    BY <1>8, <2>1 DEF Held
  <2>3. \A q \in Spots : q # p => Held(q)' = Held(q)
    <3> SUFFICES ASSUME NEW q \in Spots, q # p PROVE Held(q)' = Held(q)
      OBVIOUS
    <3>1. ASSUME NEW v \in Units, q = <<"cur", v, 0>> PROVE Held(q)' = Held(q)
      BY <1>8, <2>1, <3>1 DEF Held
    <3>2. CASE \E y \in Slots : q = <<"out", y, 0>>
      BY <1>1, <3>2 DEF Held
    <3>3. ASSUME NEW v \in Units, NEW i \in Stages(v), q = <<"stage", v, i>>
          PROVE  Held(q)' = Held(q)
      BY <1>8, <2>1, <3>3 DEF Held
    <3> QED BY <3>1, <3>2, <3>3, SpotsAre
  <2>4. fate[s] # "executing"
    BY <1>1
  <2> QED BY <1>1, <1>2, <2>1, <2>2, <2>3, <2>4, Entered
<1>10. \A v \in Units : Sound(v, unit[v], out[v])'
  <2> SUFFICES ASSUME NEW v \in Units PROVE Sound(v, unit[v], out[v])'
    OBVIOUS
  <2>1. Sound(v, unit'[v], out[v])
    BY <1>2, <1>3, <1>8
  <2> QED BY <1>1, <2>1 DEF Sound, Filled, Stages
<1>11. Listed'
  BY <1>1, <1>2 DEF Listed
<1>12. Shape'
  <2>1. fate' \in [Ops -> Fates]
    BY <1>1, <1>2 DEF Fates
  <2>2. \A v \in Units : (unit[v] \in FuUnits(v))'
    <3> SUFFICES ASSUME NEW v \in Units PROVE (unit[v] \in FuUnits(v))'
      OBVIOUS
    <3>1. unit'[v] \in FuUnits(v)
      BY <1>2, <1>3, <1>8
    <3> QED BY <3>1 DEF FuUnits, Stages
  <2>3. unit' = [v \in Units |-> unit'[v]]
    BY <1>7
  <2> QED BY <1>1, <1>2, <2>1, <2>2, <2>3 DEF Shape, Slots
<1> QED BY <1>9, <1>10, <1>11, <1>12 DEF UnitsInv

LEMMA ChooseAll ==
  ASSUME NEW S, NEW R, \A p \in S : \E q \in S : <<p, q>> \in R
  PROVE  \E f \in [S -> S] : \A p \in S : <<p, f[p]>> \in R
<1> DEFINE f == [p \in S |-> CHOOSE q \in S : <<p, q>> \in R]
<1>1. f \in [S -> S] /\ \A p \in S : <<p, f[p]>> \in R
  OBVIOUS
<1> QED BY <1>1

LEMMA EdgeStep == UnitsInv /\ Edge => UnitsInv'
<1> SUFFICES ASSUME UnitsInv, Edge PROVE UnitsInv'
  OBVIOUS
<1> DEFINE new == {u \in Units : Ticked(u).puts # 0}
           puts(u) == Ticked(u).puts
<1>1. /\ stage' = "writeback"
      /\ unit' = [u \in Units |-> Ticked(u).unit]
      /\ out' = [x \in Slots |-> IF x \in new THEN Ticked(x).puts ELSE out[x]]
      /\ wbReady' = wbReady \o SetToSeq(new)
      /\ UNCHANGED <<won, fate>>
  BY DEF Edge
<1>2. /\ Shape /\ out \in [Slots -> Contents] /\ fate \in [Ops -> Fates] /\ Located
      /\ wbReady \in Seq(Slots) /\ Distinct(wbReady)
      /\ \A y \in Slots : Has(wbReady, y) <=> out[y] # 0
      /\ \A u \in Units : Sound(u, unit[u], out[u]) /\ unit[u] \in FuUnits(u)
  BY DEF UnitsInv, Shape, Listed
<1>3. ASSUME NEW u \in Units
      PROVE  /\ unit'[u] \in FuUnits(u) /\ puts(u) \in Contents /\ (puts(u) # 0 => out[u] = 0)
             /\ Sound(u, unit'[u], IF puts(u) # 0 THEN puts(u) ELSE out[u])
             /\ unit'[u].cur # 0 => unit'[u].cur = unit[u].cur
             /\ \A i \in Stages(u) : unit'[u].stages[i] # 0 => unit'[u].stages[i] = unit[u].stages[i]
             /\ unit[u].cur # 0 => unit'[u].cur = unit[u].cur \/ puts(u) = unit[u].cur
             /\ \A i \in Stages(u) : unit[u].stages[i] # 0 =>
                  unit'[u].stages[i] = unit[u].stages[i] \/ puts(u) = unit[u].stages[i]
             /\ puts(u) # 0 =>
                  \/ puts(u) = unit[u].cur /\ unit'[u].cur = 0
                  \/ \E i \in Stages(u) : puts(u) = unit[u].stages[i] /\ unit'[u].stages[i] = 0
  <2>1. unit'[u] = Ticked(u).unit
    BY <1>1
  <2> QED BY <1>2, <2>1, TickUnit
<1>4. \A x \in Slots : out'[x] = IF x \in Units /\ puts(x) # 0 THEN puts(x) ELSE out[x]
  BY <1>1
<1>5. unit' = [u \in Units |-> unit'[u]]
  BY <1>1
<1>6. Listed'
  <2>1. IsFiniteSet(new)
    BY Constants, FS_Subset
  <2> DEFINE r == SetToSeq(new)
  <2>2. r \in Seq(new) /\ Distinct(r) /\ \A x : Has(r, x) <=> x \in new
    <3> HIDE DEF new
    <3> QED BY <2>1, SetAsList
  <2>3. new \subseteq Slots
    BY Constants
  <2> HIDE DEF r
  <2>4. r \in Seq(Slots)
    <3> HIDE DEF new
    <3> QED BY <2>2, <2>3
  <2>5. \A x : ~(Has(wbReady, x) /\ Has(r, x))
    <3>1. \A x : x \in new => x \in Slots /\ out[x] = 0
      BY <1>3, Constants
    <3> QED BY <1>2, <2>2, <3>1
  <2>6. /\ wbReady' \in Seq(Slots) /\ Distinct(wbReady')
        /\ \A x : Has(wbReady', x) <=> Has(wbReady, x) \/ Has(r, x)
    BY <1>1, <1>2, <2>2, <2>4, <2>5, JoinDistinct DEF r
  <2>7. \A x \in Slots : Has(wbReady', x) <=> out'[x] # 0
    BY <1>2, <1>4, <2>2, <2>6
  <2> QED BY <2>6, <2>7 DEF Listed, Slots, Has, Distinct
<1> HIDE DEF new, puts
<1>7. Shape'
  <2>1. out' \in [Slots -> Contents]
    <3>1. \A x \in Slots : out'[x] \in Contents
      BY <1>2, <1>3, <1>4
    <3>2. out' = [x \in Slots |-> out'[x]]
      BY <1>1
    <3> QED BY <3>1, <3>2
  <2>2. \A u \in Units : (unit[u] \in FuUnits(u))'
    BY <1>3 DEF FuUnits, Stages
  <2> QED BY <1>1, <1>2, <1>5, <2>1, <2>2 DEF Shape, Slots
<1>8. \A u \in Units : Sound(u, unit[u], out[u])'
  <2> SUFFICES ASSUME NEW u \in Units PROVE Sound(u, unit[u], out[u])'
    OBVIOUS
  <2>1. out'[u] = IF puts(u) # 0 THEN puts(u) ELSE out[u]
    BY <1>4, Constants
  <2>2. Sound(u, unit'[u], out'[u])
    BY <1>3, <2>1
  <2> QED BY <2>2 DEF Sound, Filled, Stages
(* Where what is in p after the tick was before it.                        *)
<1>9. \A p \in Spots : \E q \in Spots :
        /\ Held(p)' # 0 => Held(p)' = Held(q)
        /\ \/ q = p
           \/ \E u \in Units : /\ p = <<"out", u, 0>> /\ q[2] = u /\ q[1] # "out"
                               /\ Held(q)' = 0 /\ puts(u) # 0
  <2> SUFFICES ASSUME NEW p \in Spots
               PROVE  \E q \in Spots :
                        /\ Held(p)' # 0 => Held(p)' = Held(q)
                        /\ \/ q = p
                           \/ \E u \in Units : /\ p = <<"out", u, 0>> /\ q[2] = u /\ q[1] # "out"
                                               /\ Held(q)' = 0 /\ puts(u) # 0
    OBVIOUS
  <2>1. ASSUME NEW u \in Units, p = <<"cur", u, 0>> PROVE Held(p)' # 0 => Held(p)' = Held(p)
    BY <1>3, <2>1 DEF Held
  <2>2. ASSUME NEW u \in Units, NEW i \in Stages(u), p = <<"stage", u, i>>
        PROVE  Held(p)' # 0 => Held(p)' = Held(p)
    BY <1>3, <2>2 DEF Held
  <2>3. ASSUME NEW x \in Slots, p = <<"out", x, 0>>, ~(x \in Units /\ puts(x) # 0)
        PROVE  Held(p)' = Held(p)
    BY <1>4, <2>3 DEF Held
  <2>4. ASSUME NEW u \in Units, p = <<"out", u, 0>>, puts(u) # 0
        PROVE  \E q \in Spots : /\ Held(p)' = Held(q) /\ q[2] = u /\ q[1] # "out"
                                /\ Held(q)' = 0
    <3>1. Held(p)' = puts(u)
      BY <1>4, <2>4, Constants DEF Held
    <3>2. CASE puts(u) = unit[u].cur /\ unit'[u].cur = 0
      <4> DEFINE q == <<"cur", u, 0>>
      <4>1. q \in Spots /\ Held(q) = unit[u].cur /\ Held(q)' = unit'[u].cur
        BY SpotsAre DEF Held
      <4>2. q[1] # "out" /\ q[2] = u
        OBVIOUS
      <4> HIDE DEF q
      <4> QED BY <3>1, <3>2, <4>1, <4>2
    <3>3. ASSUME NEW i \in Stages(u), puts(u) = unit[u].stages[i], unit'[u].stages[i] = 0
          PROVE  \E q \in Spots : /\ Held(p)' = Held(q) /\ q[2] = u /\ q[1] # "out"
                                  /\ Held(q)' = 0
      <4> DEFINE q == <<"stage", u, i>>
      <4>1. q \in Spots /\ Held(q) = unit[u].stages[i] /\ Held(q)' = unit'[u].stages[i]
        BY SpotsAre DEF Held
      <4>2. q[1] # "out" /\ q[2] = u
        OBVIOUS
      <4> HIDE DEF q
      <4> QED BY <3>1, <3>3, <4>1, <4>2
    <3> QED BY <1>3, <2>4, <3>2, <3>3
  <2>5. CASE \E x \in Slots : p = <<"out", x, 0>>
    <3>1. PICK x \in Slots : p = <<"out", x, 0>>
      BY <2>5
    <3> QED BY <2>3, <2>4, <3>1
  <2>6. CASE \E u \in Units : p = <<"cur", u, 0>>
    BY <2>1, <2>6
  <2>7. CASE \E u \in Units : \E i \in Stages(u) : p = <<"stage", u, i>>
    BY <2>2, <2>7
  <2> QED BY <2>5, <2>6, <2>7, SpotsAre
<1>10. Located'
  <2> DEFINE Source(p, q) ==
               /\ Held(p)' # 0 => Held(p)' = Held(q)
               /\ \/ q = p
                  \/ \E u \in Units : /\ p = <<"out", u, 0>> /\ q[2] = u /\ q[1] # "out"
                                      /\ Held(q)' = 0 /\ puts(u) # 0
             Sources == {r \in Spots \X Spots : Source(r[1], r[2])}
  <2>1. \A p \in Spots : \E q \in Spots : <<p, q>> \in Sources
    BY <1>9
  <2> HIDE DEF Sources
  <2>2. PICK from \in [Spots -> Spots] : \A p \in Spots : <<p, from[p]>> \in Sources
    BY <2>1, ChooseAll
  <2>6. \A p \in Spots : from[p] \in Spots /\ Source(p, from[p])
    BY <2>2 DEF Sources
  <2>3. \A p \in Spots : Held(p)' # 0 => Held(p)' = Held(from[p])
    BY <2>6
  <2>4. ASSUME NEW p \in Spots, NEW q \in Spots, Held(p)' # 0, Held(q)' # 0, from[p] = from[q]
        PROVE  p = q
    <3>1. Source(p, from[p]) /\ Source(q, from[p])
      BY <2>4, <2>6
    <3>2. CASE from[p] = p
      <4>1. ~(Held(from[p])' = 0)
        BY <2>4, <3>2
      <4> QED BY <3>1, <3>2, <4>1
    <3>3. CASE from[p] = q
      <4>1. ~(Held(from[p])' = 0)
        BY <2>4, <3>3
      <4> QED BY <3>1, <3>3, <4>1
    <3>4. CASE from[p] # p /\ from[p] # q
      BY <3>1, <3>4
    <3> QED BY <3>2, <3>3, <3>4
  <2>5. ASSUME NEW p \in Spots, Held(p) # 0 PROVE \E q \in Spots : Held(q)' = Held(p)
    <3>1. ASSUME NEW u \in Units, puts(u) = Held(p) PROVE \E q \in Spots : Held(q)' = Held(p)
      <4>1. <<"out", u, 0>> \in Spots /\ Held(<<"out", u, 0>>)' = puts(u)
        BY <1>4, <2>5, <3>1, SpotsAre, Constants DEF Held
      <4> QED BY <3>1, <4>1
    <3>2. ASSUME NEW u \in Units, p = <<"cur", u, 0>> PROVE \E q \in Spots : Held(q)' = Held(p)
      <4>1. Held(p) = unit[u].cur /\ Held(p)' = unit'[u].cur
        BY <3>2 DEF Held
      <4> QED BY <1>3, <2>5, <3>1, <4>1
    <3>3. ASSUME NEW u \in Units, NEW i \in Stages(u), p = <<"stage", u, i>>
          PROVE  \E q \in Spots : Held(q)' = Held(p)
      <4>1. Held(p) = unit[u].stages[i] /\ Held(p)' = unit'[u].stages[i]
        BY <3>3 DEF Held
      <4> QED BY <1>3, <2>5, <3>1, <4>1
    <3>4. ASSUME NEW x \in Slots, p = <<"out", x, 0>> PROVE \E q \in Spots : Held(q)' = Held(p)
      <4>1. Held(p) = out[x] /\ Held(p)' = out'[x]
        BY <3>4 DEF Held
      <4>2. ~(x \in Units /\ puts(x) # 0)
        BY <1>3, <2>5, <4>1
      <4> QED BY <1>4, <4>1, <4>2
    <3> QED BY <3>2, <3>3, <3>4, SpotsAre
  <2> QED BY <1>1, <1>2, <2>2, <2>3, <2>4, <2>5, Moved
<1> QED BY <1>6, <1>7, <1>8, <1>10 DEF UnitsInv
-----------------------------------------------------------------------------
(* The theorems *)

LEMMA UnitsInductive == UnitsInv /\ [UNext]_uvars => UnitsInv'
<1> SUFFICES ASSUME UnitsInv, [UNext]_uvars PROVE UnitsInv'
  OBVIOUS
<1>1. CASE Writeback
  BY <1>1, WritebackStep
<1>2. CASE EndWriteback
  BY <1>2, EndWritebackStep
<1>3. CASE EndStage
  BY <1>3, EndStageStep
<1>4. CASE Edge
  BY <1>4, EdgeStep
<1>5. ASSUME NEW s \in Ops, Replay(s) PROVE UnitsInv'
  BY <1>5, ReplayStep
<1>6. ASSUME NEW s \in Ops, Dispatch(s) PROVE UnitsInv'
  BY <1>6, DispatchStep
<1>7. ASSUME NEW s \in Ops, NEW x \in LoadOuts, ReportLoad(x, s) PROVE UnitsInv'
  BY <1>7, ReportLoadStep
<1>8. ASSUME NEW s \in Ops, NEW u \in Units, Issue(u, s) PROVE UnitsInv'
  BY <1>8, IssueStep
<1>9. CASE UNCHANGED uvars
  <2>1. UNCHANGED <<unit, out, wbReady, fate, stage, won>>
    BY <1>9 DEF uvars
  <2>2. /\ fate' \in [Ops -> Fates] /\ won' \in 0 .. WbPorts
        /\ stage' \in DOMAIN StageAfter \cup {"writeback", "edge"}
    BY <2>1 DEF UnitsInv, Shape
  <2> QED BY <2>1, <2>2, NothingMoves
<1> QED BY <1>1, <1>2, <1>3, <1>4, <1>5, <1>6, <1>7, <1>8, <1>9 DEF UNext, Progress

THEOREM UnitsInvariant == USpec => []UnitsInv
BY UnitsInitially, UnitsInductive, PTL DEF USpec

LEMMA AtMostOne ==
  ASSUME NEW S, \A a, b \in S : a = b
  PROVE  /\ IsFiniteSet(S) /\ Cardinality(S) = IF S = {} THEN 0 ELSE 1
<1>1. CASE S = {}
  BY <1>1, FS_EmptySet
<1>2. CASE S # {}
  <2>1. PICK a \in S : TRUE
    BY <1>2
  <2>2. S = {a}
    BY <2>1
  <2> QED BY <2>2, FS_Singleton
<1> QED BY <1>1, <1>2

LEMMA CandidatesExact == UnitsInv => WbReadyExact
<1> SUFFICES ASSUME UnitsInv PROVE WbReadyExact
  OBVIOUS
<1>1. /\ wbReady \in Seq(Slots) /\ Distinct(wbReady)
      /\ \A x \in Slots : Has(wbReady, x) <=> out[x] # 0
  BY DEF UnitsInv, Listed
<1> DEFINE T == {x \in Slots : Has(wbReady, x)}
<1>2. Cardinality(T) = Len(wbReady)
  BY <1>1, ListSize
<1>3. T = {x \in Slots : out[x] # 0}
  BY <1>1
<1>4. {wbReady[i] : i \in DOMAIN wbReady} = T
  <2>1. DOMAIN wbReady = 1 .. Len(wbReady) /\ \A i \in 1 .. Len(wbReady) : wbReady[i] \in Slots
    BY <1>1
  <2> QED BY <2>1 DEF Has
<1> QED BY <1>2, <1>3, <1>4 DEF WbReadyExact

LEMMA InFlightBounded ==
  ASSUME NEW u \in Units, NEW o, unit[u] \in FuUnits(u), Sound(u, unit[u], o)
  PROVE  unit[u].inFlight \in 0 .. Latency[u]
<1>1. Latency[u] \in Nat /\ Latency[u] >= 1 /\ Pipelined[u] \in BOOLEAN
  BY Constants
<1>2. IsFiniteSet(Stages(u)) /\ Cardinality(Stages(u)) = Latency[u]
  <2> DEFINE n == Latency[u] - 1
  <2>1. n \in Int /\ 0 \in Int /\ n >= 0 /\ n + 1 = Latency[u]
    BY <1>1
  <2> HIDE DEF n
  <2>2. /\ IsFiniteSet(0 .. n)
        /\ Cardinality(0 .. n) = IF 0 > n THEN 0 ELSE n - 0 + 1
    BY <2>1, FS_Interval
  <2>3. Cardinality(0 .. n) = n + 1
    BY <2>1, <2>2
  <2> QED BY <2>1, <2>2, <2>3 DEF Stages, n
<1>3. Cardinality(Filled(u, unit[u])) \in Nat /\ Cardinality(Filled(u, unit[u])) <= Latency[u]
  <2>1. Filled(u, unit[u]) \subseteq Stages(u)
    BY DEF Filled
  <2> QED BY <1>2, <2>1, FS_Subset, FS_CardinalityType
<1> QED BY <1>1, <1>3 DEF Sound

LEMMA InOnePlace == UnitsInv => NoneLostOrDoubled
<1> SUFFICES ASSUME UnitsInv PROVE NoneLostOrDoubled
  OBVIOUS
<1>1. /\ Shape /\ Located
      /\ \A u \in Units : Sound(u, unit[u], out[u]) /\ unit[u] \in FuUnits(u)
  BY DEF UnitsInv, Shape
<1>2. UnitsTypeOK
  <2>1. \A u \in Units : unit[u].inFlight \in 0 .. Latency[u]
    BY <1>1, InFlightBounded
  <2> QED BY <1>1, <2>1 DEF UnitsTypeOK, Shape, FuUnits, Stages, Contents
<1>3. ASSUME NEW s \in Ops PROVE Places(s) = IF fate[s] = "executing" THEN 1 ELSE 0
  <2> DEFINE A == {u \in Units : unit[u].cur = s}
             B == {x \in Slots : out[x] = s}
             C == {p \in UNION {{u} \X DOMAIN unit[u].stages : u \in Units} :
                     unit[p[1]].stages[p[2]] = s}
  <2>1. s # 0 /\ \A p, q \in Spots : Held(p) = s /\ Held(q) = s => p = q
    BY <1>1, Constants DEF Located
  <2>2. \A u \in Units : DOMAIN unit[u].stages = Stages(u)
    BY <1>1 DEF FuUnits
  <2>3. \A p : p \in C <=> \E u \in Units : \E i \in Stages(u) :
                              p = <<u, i>> /\ unit[u].stages[i] = s
    BY <2>2
  <2>4. ASSUME NEW u \in A
        PROVE  <<"cur", u, 0>> \in Spots /\ Held(<<"cur", u, 0>>) = s
    BY SpotsAre
  <2>5. ASSUME NEW x \in B
        PROVE  <<"out", x, 0>> \in Spots /\ Held(<<"out", x, 0>>) = s
    BY SpotsAre
  <2>6. ASSUME NEW p \in C
        PROVE  \E u \in Units : \E i \in Stages(u) :
                 p = <<u, i>> /\ <<"stage", u, i>> \in Spots /\ Held(<<"stage", u, i>>) = s
    BY <2>3, SpotsAre
  <2> HIDE DEF C
  <2>7. \A a, b \in A : a = b
    <3> SUFFICES ASSUME NEW a \in A, NEW b \in A PROVE a = b
      OBVIOUS
    <3>1. <<"cur", a, 0>> = <<"cur", b, 0>>
      BY <2>1, <2>4
    <3> QED BY <3>1
  <2>8. \A a, b \in B : a = b
    <3> SUFFICES ASSUME NEW a \in B, NEW b \in B PROVE a = b
      OBVIOUS
    <3>1. <<"out", a, 0>> = <<"out", b, 0>>
      BY <2>1, <2>5
    <3> QED BY <3>1
  <2>9. \A a, b \in C : a = b
    <3> SUFFICES ASSUME NEW a \in C, NEW b \in C PROVE a = b
      OBVIOUS
    <3>1. PICK u, i :
            a = <<u, i>> /\ <<"stage", u, i>> \in Spots /\ Held(<<"stage", u, i>>) = s
      BY <2>6
    <3>2. PICK v, j :
            b = <<v, j>> /\ <<"stage", v, j>> \in Spots /\ Held(<<"stage", v, j>>) = s
      BY <2>6
    <3>3. <<"stage", u, i>> = <<"stage", v, j>>
      BY <2>1, <3>1, <3>2
    <3> QED BY <3>1, <3>2, <3>3
  <2>10. ~(A # {} /\ B # {})
    <3> SUFFICES ASSUME NEW a \in A, NEW b \in B PROVE FALSE
      OBVIOUS
    <3>1. <<"cur", a, 0>> = <<"out", b, 0>>
      BY <2>1, <2>4, <2>5
    <3> QED BY <3>1
  <2>11. ~(A # {} /\ C # {})
    <3> SUFFICES ASSUME NEW a \in A, NEW c \in C PROVE FALSE
      OBVIOUS
    <3>1. PICK u, i : <<"stage", u, i>> \in Spots /\ Held(<<"stage", u, i>>) = s
      BY <2>6
    <3>2. <<"cur", a, 0>> = <<"stage", u, i>>
      BY <2>1, <2>4, <3>1
    <3> QED BY <3>2
  <2>12. ~(B # {} /\ C # {})
    <3> SUFFICES ASSUME NEW b \in B, NEW c \in C PROVE FALSE
      OBVIOUS
    <3>1. PICK u, i : <<"stage", u, i>> \in Spots /\ Held(<<"stage", u, i>>) = s
      BY <2>6
    <3>2. <<"out", b, 0>> = <<"stage", u, i>>
      BY <2>1, <2>5, <3>1
    <3> QED BY <3>2
  <2>13. fate[s] = "executing" <=> A # {} \/ B # {} \/ C # {}
    <3>1. fate[s] = "executing" <=> \E p \in Spots : Held(p) = s
      BY <1>1 DEF Located
    <3>2. (\E p \in Spots : Held(p) = s) => A # {} \/ B # {} \/ C # {}
      <4> SUFFICES ASSUME NEW p \in Spots, Held(p) = s PROVE A # {} \/ B # {} \/ C # {}
        OBVIOUS
      <4>1. ASSUME NEW u \in Units, p = <<"cur", u, 0>> PROVE u \in A
        BY <4>1, SpotsAre
      <4>2. ASSUME NEW x \in Slots, p = <<"out", x, 0>> PROVE x \in B
        BY <4>2, SpotsAre
      <4>3. ASSUME NEW u \in Units, NEW i \in Stages(u), p = <<"stage", u, i>>
            PROVE  <<u, i>> \in C
        BY <2>3, <4>3, SpotsAre
      <4> HIDE DEF A, B
      <4> QED BY <4>1, <4>2, <4>3, SpotsAre
    <3>3. A # {} \/ B # {} \/ C # {} => \E p \in Spots : Held(p) = s
      BY <2>4, <2>5, <2>6
    <3> QED BY <3>1, <3>2, <3>3
  <2>14. Places(s) = Cardinality(A) + Cardinality(B) + Cardinality(C)
    BY DEF Places, C
  <2> HIDE DEF A, B
  <2>15. /\ Cardinality(A) = IF A = {} THEN 0 ELSE 1
         /\ Cardinality(B) = IF B = {} THEN 0 ELSE 1
         /\ Cardinality(C) = IF C = {} THEN 0 ELSE 1
    BY <2>7, <2>8, <2>9, AtMostOne
  <2> QED BY <2>10, <2>11, <2>12, <2>13, <2>14, <2>15
<1> QED BY <1>2, <1>3 DEF NoneLostOrDoubled

THEOREM OneWayOut == USpec => []NoneLostOrDoubled
BY UnitsInvariant, InOnePlace, PTL

THEOREM EveryResultCompetesOnce == USpec => []WbReadyExact
BY UnitsInvariant, CandidatesExact, PTL
-----------------------------------------------------------------------------
(* The units are delay lines *)

Op(s, n) == [seq |-> s, left |-> n]

(* The line in a unit f, and how long a stage has to go.                   *)
ToGo(u, f, i) == IF f.inputSlot - i > 0 THEN f.inputSlot - i ELSE f.inputSlot - i + Latency[u]

Inside(u, f, o) ==
  \/ \E i \in Stages(u) : f.stages[i] # 0 /\ o = Op(f.stages[i], ToGo(u, f, i))
  \/ f.cur # 0 /\ o = Op(f.cur, f.remaining)

LEMMA LineIs ==
  ASSUME NEW u \in Units
  PROVE  /\ unit[u] \in FuUnits(u) => \A o : o \in Line(u) <=> Inside(u, unit[u], o)
         /\ unit'[u] \in FuUnits(u) => \A o : o \in Line(u)' <=> Inside(u, unit'[u], o)
<1>1. ASSUME unit[u] \in FuUnits(u), NEW o PROVE o \in Line(u) <=> Inside(u, unit[u], o)
  <2>1. DOMAIN unit[u].stages = Stages(u)
    BY <1>1 DEF FuUnits
  <2> QED BY <2>1 DEF Line, Inside, Remaining, ToGo, Op
<1>2. ASSUME unit'[u] \in FuUnits(u), NEW o PROVE o \in Line(u)' <=> Inside(u, unit'[u], o)
  <2>1. DOMAIN unit'[u].stages = Stages(u)
    BY <1>2 DEF FuUnits
  <2> QED BY <2>1 DEF Line, Inside, Remaining, ToGo, Op
<1> QED BY <1>1, <1>2

LEMMA AcceptLine ==
  ASSUME NEW u \in Units, unit[u] \in FuUnits(u), Sound(u, unit[u], out[u]), NEW s \in Ops,
         CanAccept(u)
  PROVE  /\ \A o : Inside(u, Accepted(u, s), o)
                     <=> Inside(u, unit[u], o) \/ o = Op(s, Latency[u])
         /\ \A o : Inside(u, unit[u], o) => o.left < Latency[u]
<1> DEFINE f == unit[u]
           a == Accepted(u, s)
           n == f.inputSlot
<1>1. /\ f = [stages |-> f.stages, inputSlot |-> n, inFlight |-> f.inFlight, cur |-> f.cur,
              remaining |-> f.remaining]
      /\ f.stages \in [Stages(u) -> Contents] /\ n \in Stages(u)
  BY DEF FuUnits
<1>2. s # 0 /\ Latency[u] \in Nat /\ Latency[u] >= 1 /\ Pipelined[u] \in BOOLEAN
  BY Constants
<1>3. CASE Pipelined[u]
  <2> DEFINE filled == [f.stages EXCEPT ![n] = s]
             count == f.inFlight + 1
  <2>1. a = [f EXCEPT !.stages = filled, !.inFlight = count]
    BY <1>3 DEF Accepted
  <2>2. f.stages[n] = 0 /\ f.cur = 0
    BY <1>3 DEF CanAccept, Sound
  <2>3. \A i \in Stages(u) : filled[i] = IF i = n THEN s ELSE f.stages[i]
    BY <1>1
  <2> HIDE DEF a, f, n, filled, count
  <2>4. a.stages = filled /\ a.cur = f.cur /\ a.inputSlot = n
    BY <1>1, <2>1 DEF n
  <2>5. /\ \A i \in Stages(u) : ToGo(u, a, i) = ToGo(u, f, i)
        /\ ToGo(u, f, n) = Latency[u]
        /\ \A i \in Stages(u) : i # n => ToGo(u, f, i) < Latency[u]
    BY <1>1, <1>2, <2>4 DEF ToGo, Stages, n
  <2>6. \A o : Inside(u, a, o) <=> Inside(u, f, o) \/ o = Op(s, Latency[u])
    <3> SUFFICES ASSUME NEW o
                 PROVE  Inside(u, a, o) <=> Inside(u, f, o) \/ o = Op(s, Latency[u])
      OBVIOUS
    <3>1. Inside(u, a, o)
            <=> \E i \in Stages(u) : a.stages[i] # 0 /\ o = Op(a.stages[i], ToGo(u, a, i))
      BY <2>2, <2>4 DEF Inside
    <3>2. Inside(u, f, o)
            <=> \E i \in Stages(u) : f.stages[i] # 0 /\ o = Op(f.stages[i], ToGo(u, f, i))
      BY <2>2 DEF Inside
    <3> QED BY <1>1, <1>2, <2>2, <2>3, <2>4, <2>5, <3>1, <3>2
  <2>7. \A o : Inside(u, f, o) => o.left < Latency[u]
    BY <2>2, <2>5 DEF Inside, Op
  <2> QED BY <2>6, <2>7 DEF a, f
<1>4. CASE ~Pipelined[u]
  <2>1. a = [f EXCEPT !.cur = s, !.remaining = Latency[u]]
    BY <1>4 DEF Accepted
  <2>2. f.cur = 0 /\ \A i \in Stages(u) : f.stages[i] = 0
    BY <1>4 DEF CanAccept, Sound
  <2> HIDE DEF a, f
  <2>3. a.stages = f.stages /\ a.cur = s /\ a.remaining = Latency[u]
    BY <1>1, <2>1
  <2> QED BY <1>2, <2>2, <2>3 DEF Inside, a, f
<1> QED BY <1>2, <1>3, <1>4

LEMMA FlushLine ==
  ASSUME NEW u \in Units, unit[u] \in FuUnits(u), Sound(u, unit[u], out[u]), NEW s \in Nat
  PROVE  \A o : Inside(u, Flushed(u, s), o) <=> Inside(u, unit[u], o) /\ o.seq <= s
<1> DEFINE f == unit[u]
           t == Flushed(u, s)
<1>1. /\ t.cur = Keep(f.cur, s) /\ t.inputSlot = f.inputSlot
      /\ f.cur <= s => t.remaining = f.remaining
      /\ \A i \in Stages(u) : t.stages[i] = Keep(f.stages[i], s)
  BY FlushUnit
<1>2. f.cur \in Contents /\ \A i \in Stages(u) : f.stages[i] \in Contents
  BY DEF FuUnits
<1>3. \A c \in Contents : /\ Keep(c, s) # 0 <=> c # 0 /\ c <= s
                          /\ c <= s => Keep(c, s) = c
  <2>1. \A c \in Contents : c \in Nat
    BY Constants DEF Contents
  <2> QED BY <2>1 DEF Keep
<1> HIDE DEF f, t
<1>4. \A i : ToGo(u, t, i) = ToGo(u, f, i)
  BY <1>1 DEF ToGo
<1>5. \A a, b : Op(a, b).seq = a
  BY DEF Op
<1>6. ASSUME NEW o PROVE Inside(u, t, o) <=> Inside(u, f, o) /\ o.seq <= s
  <2>1. (t.cur # 0 /\ o = Op(t.cur, t.remaining))
          <=> (f.cur # 0 /\ o = Op(f.cur, f.remaining)) /\ o.seq <= s
    BY <1>1, <1>2, <1>3, <1>5
  <2>2. ASSUME NEW i \in Stages(u)
        PROVE  (t.stages[i] # 0 /\ o = Op(t.stages[i], ToGo(u, t, i)))
                 <=> (f.stages[i] # 0 /\ o = Op(f.stages[i], ToGo(u, f, i))) /\ o.seq <= s
    BY <1>1, <1>2, <1>3, <1>4, <1>5
  <2> QED BY <2>1, <2>2 DEF Inside
<1> QED BY <1>6 DEF t, f

Behind(L, n, i) == IF n - i > 0 THEN n - i ELSE n - i + L

LEMMA BehindIs ==
  ASSUME NEW L \in Nat, L >= 1, NEW n \in 0 .. L - 1, NEW i \in 0 .. L - 1,
         NEW last, last = IF n = 0 THEN L - 1 ELSE n - 1
  PROVE  /\ Behind(L, n, i) \in Nat \ {0} /\ (Behind(L, n, i) = 1 <=> i = last)
         /\ i # last => /\ Behind(L, n, i) = Behind(L, last, i) + 1
                        /\ Behind(L, last, i) \in Nat \ {0}
<1>1. CASE n = 0
  BY <1>1 DEF Behind
<1>2. CASE n # 0
  BY <1>2 DEF Behind
<1> QED BY <1>1, <1>2

(* A tick of a unit whose slot is free brings each operation one cycle     *)
(* nearer, and puts out the one that has none left.                        *)
LEMMA TickLine ==
  ASSUME NEW u \in Units, unit[u] \in FuUnits(u), Sound(u, unit[u], out[u]), out[u] = 0
  PROVE  LET t == Ticked(u).unit
             puts == Ticked(u).puts
         IN  /\ \A o : Inside(u, unit[u], o) =>
                         \E s \in Ops : \E n \in Nat \ {0} : o = Op(s, n)
             /\ \A s \in Ops : \A n \in Nat \ {0} :
                  Inside(u, t, Op(s, n)) <=> Inside(u, unit[u], Op(s, n + 1))
             /\ \A o : Inside(u, t, o) =>
                         \E s \in Ops : \E n \in Nat \ {0} : o = Op(s, n)
             /\ \A s \in Ops : puts = s <=> Inside(u, unit[u], Op(s, 1))
<1> DEFINE f == unit[u]
           last == LastStage(u)
           t == Ticked(u).unit
           puts == Ticked(u).puts
<1>1. /\ f.stages \in [Stages(u) -> Contents] /\ f.inputSlot \in Stages(u)
      /\ f.cur \in Contents /\ f.remaining \in 0 .. Latency[u]
  BY DEF FuUnits
<1>2. /\ Latency[u] \in Nat /\ Latency[u] >= 1 /\ Pipelined[u] \in BOOLEAN
      /\ \A c \in Contents : c # 0 => c \in Ops
      /\ \A s \in Ops : s # 0
  BY Constants DEF Contents
<1>3. ~Frozen(u) /\ last \in Stages(u) /\ Busy(u) \in BOOLEAN
  BY TickFields DEF Frozen, Busy
<1>4. last = IF f.inputSlot = 0 THEN Latency[u] - 1 ELSE f.inputSlot - 1
  BY DEF LastStage
<1>5. \A a, b, c, d : Op(a, b) = Op(c, d) <=> a = c /\ b = d
  BY DEF Op
<1>9. \A i : ToGo(u, f, i) = Behind(Latency[u], f.inputSlot, i)
  BY DEF ToGo, Behind
<1>10. \A i \in Stages(u) :
         LET L == Latency[u]
             n == f.inputSlot
         IN  /\ Behind(L, n, i) \in Nat \ {0} /\ (Behind(L, n, i) = 1 <=> i = last)
             /\ i # last => /\ Behind(L, n, i) = Behind(L, last, i) + 1
                            /\ Behind(L, last, i) \in Nat \ {0}
  <2> SUFFICES ASSUME NEW i \in Stages(u)
               PROVE  LET L == Latency[u]
                          n == f.inputSlot
                      IN  /\ Behind(L, n, i) \in Nat \ {0} /\ (Behind(L, n, i) = 1 <=> i = last)
                          /\ i # last => /\ Behind(L, n, i) = Behind(L, last, i) + 1
                                         /\ Behind(L, last, i) \in Nat \ {0}
    OBVIOUS
  <2> DEFINE L == Latency[u]
             n == f.inputSlot
  <2>1. /\ L \in Nat /\ L >= 1 /\ n \in 0 .. L - 1 /\ i \in 0 .. L - 1
        /\ last = IF n = 0 THEN L - 1 ELSE n - 1
    BY <1>1, <1>2, <1>4 DEF Stages
  <2> HIDE DEF L, n, last
  <2>2. /\ Behind(L, n, i) \in Nat \ {0} /\ (Behind(L, n, i) = 1 <=> i = last)
        /\ i # last => /\ Behind(L, n, i) = Behind(L, last, i) + 1
                       /\ Behind(L, last, i) \in Nat \ {0}
    BY <2>1, BehindIs
  <2> QED BY <2>2 DEF L, n
<1>6. \A i \in Stages(u) : ToGo(u, f, i) \in Nat \ {0} /\ (ToGo(u, f, i) = 1 <=> i = last)
  BY <1>9, <1>10
<1>7. CASE Pipelined[u]
  <2>1. f.cur = 0 /\ f.inFlight = Cardinality(Filled(u, f))
    BY <1>7 DEF Sound
  <2>2. /\ puts = f.stages[last] /\ t.cur = 0
        /\ \A i \in Stages(u) : t.stages[i] = IF i = last THEN 0 ELSE f.stages[i]
        /\ \A i \in Stages(u) : f.stages[i] # 0 => t.inputSlot = last
    <3>1. CASE Busy(u)
      <4>1. /\ puts = f.stages[last] /\ t.cur = f.cur /\ t.inputSlot = last
            /\ \A i \in Stages(u) : t.stages[i] = IF i = last THEN 0 ELSE f.stages[i]
        BY <1>3, <1>7, <3>1, TickFields
      <4> HIDE DEF t, puts, f, last
      <4> QED BY <2>1, <4>1
    <3>2. CASE ~Busy(u)
      <4>1. f.inFlight = 0
        BY <1>7, <3>2 DEF Busy
      <4>2. Filled(u, f) = {}
        <5> HIDE DEF f
        <5> QED BY <2>1, <4>1, FilledFinite, FS_EmptySet
      <4>3. \A i \in Stages(u) : f.stages[i] = 0
        BY <4>2 DEF Filled
      <4>4. t = f /\ puts = 0
        BY <3>2, TickFields
      <4> HIDE DEF t, puts, f, last
      <4> QED BY <1>3, <2>1, <4>3, <4>4
    <3> QED BY <1>3, <3>1, <3>2
  <2> HIDE DEF t, puts, f, last
  <2>3. ASSUME NEW i \in Stages(u), t.inputSlot = last, i # last
        PROVE  ToGo(u, f, i) = ToGo(u, t, i) + 1 /\ ToGo(u, t, i) \in Nat \ {0}
    <3>1. ToGo(u, t, i) = Behind(Latency[u], last, i)
      BY <2>3 DEF ToGo, Behind
    <3> QED BY <1>9, <1>10, <2>3, <3>1
  <2>4. \A o : Inside(u, f, o) <=>
          \E i \in Stages(u) : f.stages[i] # 0 /\ o = Op(f.stages[i], ToGo(u, f, i))
    BY <2>1 DEF Inside
  <2>5. \A o : Inside(u, t, o) <=>
          \E i \in Stages(u) : t.stages[i] # 0 /\ o = Op(t.stages[i], ToGo(u, t, i))
    BY <2>2 DEF Inside
  <2>6. \A i \in Stages(u) : f.stages[i] \in Contents
    BY <1>1
  <2>7. \A o : Inside(u, f, o) => \E s \in Ops : \E n \in Nat \ {0} : o = Op(s, n)
    BY <1>2, <1>6, <2>4, <2>6
  <2>8. \A o : Inside(u, t, o) => \E s \in Ops : \E n \in Nat \ {0} : o = Op(s, n)
    <3> SUFFICES ASSUME NEW o, Inside(u, t, o)
                 PROVE  \E s \in Ops : \E n \in Nat \ {0} : o = Op(s, n)
      OBVIOUS
    <3>1. PICK i \in Stages(u) : t.stages[i] # 0 /\ o = Op(t.stages[i], ToGo(u, t, i))
      BY <2>5
    <3>2. i # last /\ f.stages[i] # 0 /\ t.stages[i] = f.stages[i] /\ t.inputSlot = last
      BY <2>2, <3>1
    <3>3. t.stages[i] \in Ops /\ ToGo(u, t, i) \in Nat \ {0}
      BY <1>2, <2>3, <2>6, <3>2
    <3> QED BY <3>1, <3>3
  <2>9. ASSUME NEW s \in Ops, NEW n \in Nat \ {0}
        PROVE  Inside(u, t, Op(s, n)) <=> Inside(u, f, Op(s, n + 1))
    <3>1. ASSUME NEW i \in Stages(u), t.stages[i] # 0, Op(s, n) = Op(t.stages[i], ToGo(u, t, i))
          PROVE  f.stages[i] # 0 /\ Op(s, n + 1) = Op(f.stages[i], ToGo(u, f, i))
      <4>1. i # last /\ f.stages[i] # 0 /\ t.stages[i] = f.stages[i] /\ t.inputSlot = last
        BY <2>2, <3>1
      <4> QED BY <1>5, <2>3, <3>1, <4>1
    <3>2. ASSUME NEW i \in Stages(u), f.stages[i] # 0,
                 Op(s, n + 1) = Op(f.stages[i], ToGo(u, f, i))
          PROVE  t.stages[i] # 0 /\ Op(s, n) = Op(t.stages[i], ToGo(u, t, i))
      <4>1. s = f.stages[i] /\ n + 1 = ToGo(u, f, i)
        BY <1>5, <3>2
      <4>2. n + 1 # 1
        OBVIOUS
      <4>3. i # last /\ t.inputSlot = last
        BY <1>6, <2>2, <3>2, <4>1, <4>2
      <4>4. n = ToGo(u, t, i)
        BY <2>3, <4>1, <4>3
      <4> QED BY <2>2, <3>2, <4>1, <4>3, <4>4
    <3> QED BY <2>4, <2>5, <3>1, <3>2
  <2>10. ASSUME NEW s \in Ops PROVE puts = s <=> Inside(u, f, Op(s, 1))
    <3>1. ASSUME puts = s PROVE Inside(u, f, Op(s, 1))
      <4>1. f.stages[last] = s /\ s # 0 /\ ToGo(u, f, last) = 1
        BY <1>2, <1>3, <1>6, <2>2, <3>1
      <4> QED BY <1>3, <2>4, <4>1
    <3>2. ASSUME Inside(u, f, Op(s, 1)) PROVE puts = s
      BY <1>5, <1>6, <2>2, <2>4, <3>2
    <3> QED BY <3>1, <3>2
  <2> QED BY <2>7, <2>8, <2>9, <2>10 DEF f, t, puts
<1>8. CASE ~Pipelined[u]
  <2>1. /\ \A i \in Stages(u) : f.stages[i] = 0
        /\ f.cur # 0 => f.remaining # 0
        /\ Busy(u) <=> f.cur # 0
    BY <1>8 DEF Sound, Busy
  <2>2. /\ t.stages = f.stages
        /\ f.cur # 0 => /\ puts = IF f.remaining = 1 THEN f.cur ELSE 0
                        /\ t.cur = IF f.remaining = 1 THEN 0 ELSE f.cur
                        /\ t.remaining = f.remaining - 1
        /\ f.cur = 0 => t.cur = 0 /\ puts = 0
    <3>1. CASE f.cur # 0
      <4>1. /\ puts = IF f.remaining = 1 THEN f.cur ELSE 0
            /\ t.stages = f.stages
            /\ t.cur = (IF f.remaining = 1 THEN 0 ELSE f.cur)
            /\ t.remaining = f.remaining - 1
        BY <1>3, <1>8, <2>1, <3>1, TickFields
      <4> HIDE DEF t, puts, f
      <4> QED BY <3>1, <4>1
    <3>2. CASE f.cur = 0
      <4>1. t = f /\ puts = 0
        BY <2>1, <3>2, TickFields
      <4> HIDE DEF t, puts, f
      <4> QED BY <3>2, <4>1
    <3> QED BY <3>1, <3>2
  <2> HIDE DEF t, puts, f, last
  <2>3. \A o : Inside(u, f, o) <=> f.cur # 0 /\ o = Op(f.cur, f.remaining)
    BY <2>1 DEF Inside
  <2>4. \A o : Inside(u, t, o) <=> t.cur # 0 /\ o = Op(t.cur, t.remaining)
    BY <2>1, <2>2 DEF Inside
  <2>5. f.cur # 0 => f.cur \in Ops /\ f.remaining \in Nat \ {0}
    BY <1>1, <1>2, <2>1
  <2>6. t.cur # 0 => /\ f.cur # 0 /\ t.cur = f.cur /\ t.remaining \in Nat \ {0}
                     /\ f.remaining = t.remaining + 1
    BY <2>2, <2>5
  <2>7. \A o : Inside(u, f, o) => \E s \in Ops : \E n \in Nat \ {0} : o = Op(s, n)
    BY <2>3, <2>5
  <2>8. \A o : Inside(u, t, o) => \E s \in Ops : \E n \in Nat \ {0} : o = Op(s, n)
    BY <2>4, <2>5, <2>6
  <2>9. ASSUME NEW s \in Ops, NEW n \in Nat \ {0}
        PROVE  Inside(u, t, Op(s, n)) <=> Inside(u, f, Op(s, n + 1))
    <3>1. Inside(u, t, Op(s, n)) => Inside(u, f, Op(s, n + 1))
      BY <1>5, <2>3, <2>4, <2>6
    <3>2. ASSUME Inside(u, f, Op(s, n + 1)) PROVE Inside(u, t, Op(s, n))
      <4>1. f.cur # 0 /\ s = f.cur /\ n + 1 = f.remaining
        BY <1>5, <2>3, <3>2
      <4>2. f.remaining # 1 /\ n = f.remaining - 1
        BY <4>1
      <4>3. t.cur = f.cur /\ t.remaining = n
        BY <2>2, <4>1, <4>2
      <4> QED BY <2>4, <4>1, <4>3
    <3> QED BY <3>1, <3>2
  <2>10. ASSUME NEW s \in Ops PROVE puts = s <=> Inside(u, f, Op(s, 1))
    <3>1. Inside(u, f, Op(s, 1)) <=> f.cur # 0 /\ s = f.cur /\ f.remaining = 1
      BY <1>5, <2>3
    <3> QED BY <1>2, <2>2, <2>5, <3>1
  <2> QED BY <2>7, <2>8, <2>9, <2>10 DEF f, t, puts
<1> QED BY <1>2, <1>7, <1>8

LineMap == [u \in Units |-> Line(u)]
SlotMap == [u \in Units |-> {out[u]} \ {0}]

LEMMA LineTypes ==
  UnitsInv => \A u \in Units : /\ unit[u] \in FuUnits(u) /\ Sound(u, unit[u], out[u])
                               /\ out[u] \in Contents
BY Constants DEF UnitsInv, Shape

LEMMA FuUnitsPrimed == \A u \in Units : (unit[u] \in FuUnits(u))' <=> unit'[u] \in FuUnits(u)
BY DEF FuUnits, Stages

LEMMA LinesInitially == UInit => Lines!LInit
<1> SUFFICES ASSUME UInit PROVE Lines!LInit
  OBVIOUS
<1>1. \A u \in Units : Line(u) = {}
  <2> SUFFICES ASSUME NEW u \in Units PROVE Line(u) = {}
    OBVIOUS
  <2> DEFINE empty == [i \in 0 .. Latency[u] - 1 |-> 0]
  <2>1. unit[u] = [stages |-> empty, inputSlot |-> 0, inFlight |-> 0, cur |-> 0, remaining |-> 0]
    BY DEF UInit, Idle
  <2>2. \A j \in DOMAIN empty : empty[j] = 0
    OBVIOUS
  <2> HIDE DEF empty
  <2>3. unit[u].stages = empty /\ unit[u].cur = 0
    BY <2>1
  <2> QED BY <2>2, <2>3 DEF Line
<1>2. \A u \in Units : {out[u]} \ {0} = {}
  BY Constants DEF UInit
<1> QED BY <1>1, <1>2 DEF Lines!LInit

LEMMA FlushedLines ==
  ASSUME UnitsInv, UnitsInv', NEW s \in Nat, unit' = [u \in Units |-> Flushed(u, s)]
  PROVE  \A u \in Units : Line(u)' = {o \in Line(u) : o.seq <= s}
<1> SUFFICES ASSUME NEW u \in Units PROVE Line(u)' = {o \in Line(u) : o.seq <= s}
  OBVIOUS
<1>1. unit[u] \in FuUnits(u) /\ Sound(u, unit[u], out[u]) /\ unit'[u] \in FuUnits(u)
  <2>1. (unit[u] \in FuUnits(u))'
    BY DEF UnitsInv, Shape
  <2> QED BY <2>1, LineTypes, FuUnitsPrimed
<1>2. unit'[u] = Flushed(u, s)
  OBVIOUS
<1>3. \A o : o \in Line(u)' <=> o \in Line(u) /\ o.seq <= s
  BY <1>1, <1>2, LineIs, FlushLine
<1> QED BY <1>3

LEMMA WritebackLines ==
  UnitsInv /\ UnitsInv' /\ Writeback => [Lines!LNext]_(Lines!lvars)
<1> SUFFICES ASSUME UnitsInv, UnitsInv', Writeback PROVE [Lines!LNext]_(Lines!lvars)
  OBVIOUS
<1> DEFINE x == wbReady[Winner]
           s == out[x]
           rest == SwapAndPop(wbReady, Winner)
<1>1. x \in Slots /\ s \in Ops
  BY WinnerIs DEF Writeback
<1>2. out \in [Slots -> Contents] /\ Units \subseteq Slots /\ s # 0 /\ s \in Nat
  BY <1>1, Constants DEF UnitsInv, Shape
<1>3. \/ out' = [out EXCEPT ![x] = 0] /\ UNCHANGED unit
      \/ /\ unit' = [u \in Units |-> Flushed(u, s)]
         /\ out' = [y \in Slots |-> Keep([out EXCEPT ![x] = 0][y], s)]
  BY DEF Writeback, Recover
<1>4. \A y \in Slots : out[y] = s => y = x
  BY <1>1, <1>2, OnlyThere
<1> HIDE DEF x, rest
<1>5. CASE out' = [out EXCEPT ![x] = 0] /\ UNCHANGED unit
  <2>1. \A u \in Units : Line(u)' = Line(u)
    BY <1>5 DEF Line, Remaining
  <2>2. LineMap' = LineMap
    BY <2>1 DEF LineMap
  <2>3. \A u \in Units : out'[u] = IF u = x THEN 0 ELSE out[u]
    BY <1>1, <1>2, <1>5
  <2>4. CASE x \in Units
    <3>1. SlotMap[x] # {}
      BY <1>2, <2>4 DEF SlotMap
    <3>2. SlotMap' = [SlotMap EXCEPT ![x] = {}]
      BY <2>3, <2>4 DEF SlotMap
    <3>3. PICK z \in Units : z = x
      BY <2>4
    <3>4. Lines!Leave(z)
      BY <2>2, <3>1, <3>2, <3>3 DEF Lines!Leave, LineMap, SlotMap
    <3> QED BY <3>4 DEF Lines!LNext
  <2>5. CASE x \notin Units
    <3>1. SlotMap' = SlotMap
      BY <2>3, <2>5 DEF SlotMap
    <3> QED BY <2>2, <3>1 DEF Lines!lvars, LineMap, SlotMap
  <2> QED BY <2>4, <2>5
<1>6. CASE /\ unit' = [u \in Units |-> Flushed(u, s)]
           /\ out' = [y \in Slots |-> Keep([out EXCEPT ![x] = 0][y], s)]
  <2>1. \A u \in Units : Line(u)' = {o \in Line(u) : o.seq <= s}
    BY <1>2, <1>6, FlushedLines
  <2>2. LineMap' = [u \in Units |-> {o \in LineMap[u] : o.seq <= s}]
    BY <2>1 DEF LineMap
  <2>3. \A u \in Units : {out'[u]} \ {0} = {y \in {out[u]} \ {0} : y <= s} \ {s}
    <3> SUFFICES ASSUME NEW u \in Units
                 PROVE  {out'[u]} \ {0} = {y \in {out[u]} \ {0} : y <= s} \ {s}
      OBVIOUS
    <3>1. out'[u] = Keep(IF u = x THEN 0 ELSE out[u], s)
      BY <1>1, <1>2, <1>6
    <3>2. out[u] = s <=> u = x
      BY <1>2, <1>4 DEF s
    <3>3. out[u] \in Nat /\ 0 \in Nat
      BY <1>2, Constants DEF Contents
    <3> HIDE DEF s
    <3>4. CASE u = x
      BY <1>2, <3>1, <3>2, <3>4 DEF Keep
    <3>5. CASE u # x
      BY <1>2, <3>1, <3>2, <3>3, <3>5 DEF Keep
    <3> QED BY <3>4, <3>5
  <2>4. SlotMap' = [u \in Units |-> {y \in SlotMap[u] : y <= s} \ {s}]
    BY <2>3 DEF SlotMap
  <2> HIDE DEF s
  <2>5. PICK n \in Ops : n = s
    BY <1>1
  <2>6. Lines!Squash(n)
    BY <2>2, <2>4, <2>5 DEF Lines!Squash, LineMap, SlotMap
  <2> QED BY <2>6 DEF Lines!LNext
<1> QED BY <1>3, <1>5, <1>6

LEMMA ReplayLines ==
  \A s \in Ops : UnitsInv /\ UnitsInv' /\ Replay(s) => [Lines!LNext]_(Lines!lvars)
<1> SUFFICES ASSUME NEW s \in Ops, UnitsInv, UnitsInv', Replay(s)
             PROVE  [Lines!LNext]_(Lines!lvars)
  OBVIOUS
<1> DEFINE m == s - 1
<1>1. m \in Nat /\ m \in Ops \cup {0} /\ out \in [Slots -> Contents] /\ Units \subseteq Slots
  BY Constants DEF Ops, UnitsInv, Shape
<1>2. /\ unit' = [u \in Units |-> Flushed(u, m)]
      /\ out' = [y \in Slots |-> Keep(out[y], m)]
  BY DEF Replay, Recover
<1> HIDE DEF m
<1>3. LineMap' = [u \in Units |-> {o \in LineMap[u] : o.seq <= m}]
  <2>1. \A u \in Units : Line(u)' = {o \in Line(u) : o.seq <= m}
    BY <1>1, <1>2, FlushedLines
  <2> QED BY <2>1 DEF LineMap
<1>4. SlotMap' = [u \in Units |-> {y \in SlotMap[u] : y <= m} \ {}]
  <2>1. ASSUME NEW u \in Units
        PROVE  {out'[u]} \ {0} = {y \in {out[u]} \ {0} : y <= m} \ {}
    <3>1. u \in Slots /\ out[u] \in Contents
      BY <1>1, <2>1
    <3>2. out'[u] = Keep(out[u], m)
      BY <1>2, <3>1
    <3>3. out[u] \in Nat
      BY <3>1, Constants DEF Contents
    <3> QED BY <1>1, <3>2, <3>3 DEF Keep
  <2> QED BY <2>1 DEF SlotMap
<1>5. Lines!Squash(m)
  BY <1>3, <1>4 DEF Lines!Squash, LineMap, SlotMap
<1> QED BY <1>1, <1>5 DEF Lines!LNext

LEMMA IssueLines ==
  \A s \in Ops : \A u \in Units :
    UnitsInv /\ UnitsInv' /\ Issue(u, s) => [Lines!LNext]_(Lines!lvars)
<1> SUFFICES ASSUME NEW s \in Ops, NEW u \in Units, UnitsInv, UnitsInv', Issue(u, s)
             PROVE  [Lines!LNext]_(Lines!lvars)
  OBVIOUS
<1>1. /\ CanAccept(u) /\ unit' = [unit EXCEPT ![u] = Accepted(u, s)] /\ UNCHANGED out
      /\ unit = [v \in Units |-> unit[v]]
  BY DEF Issue, UnitsInv, Shape
<1>2. \A v \in Units : unit'[v] = IF v = u THEN Accepted(u, s) ELSE unit[v]
  BY <1>1
<1>3. unit[u] \in FuUnits(u) /\ Sound(u, unit[u], out[u]) /\ unit'[u] \in FuUnits(u)
  <2>1. (unit[u] \in FuUnits(u))'
    BY DEF UnitsInv, Shape
  <2> QED BY <2>1, LineTypes, FuUnitsPrimed
<1>4. \A o : o \in Line(u)' <=> o \in Line(u) \/ o = Op(s, Latency[u])
  BY <1>1, <1>2, <1>3, LineIs, AcceptLine
<1>5. Line(u)' = Line(u) \cup {[seq |-> s, left |-> Latency[u]]}
  BY <1>4 DEF Op
<1>6. \A v \in Units : v # u => Line(v)' = Line(v)
  BY <1>2 DEF Line, Remaining
<1>7. \A o \in Line(u) : o.left < Latency[u]
  BY <1>1, <1>3, LineIs, AcceptLine
<1>8. LineMap' = [LineMap EXCEPT ![u] = @ \cup {[seq |-> s, left |-> Latency[u]]}]
  BY <1>5, <1>6 DEF LineMap
<1>9. SlotMap' = SlotMap
  BY <1>1 DEF SlotMap
<1>10. \A o \in LineMap[u] : o.left < Latency[u]
  BY <1>7 DEF LineMap
<1>11. Lines!Enter(u, s)
  BY <1>8, <1>9, <1>10 DEF Lines!Enter, LineMap, SlotMap
<1> QED BY <1>11 DEF Lines!LNext

LEMMA EdgeLines ==
  UnitsInv /\ UnitsInv' /\ Edge => [Lines!LNext]_(Lines!lvars)
<1> SUFFICES ASSUME UnitsInv, UnitsInv', Edge PROVE [Lines!LNext]_(Lines!lvars)
  OBVIOUS
<1>1. \A u \in Units : /\ unit'[u] = Ticked(u).unit
                       /\ out'[u] = IF Ticked(u).puts # 0 THEN Ticked(u).puts ELSE out[u]
  <2>1. /\ unit' = [u \in Units |-> Ticked(u).unit]
        /\ out' = [x \in Slots |-> IF x \in {u \in Units : Ticked(u).puts # 0}
                                   THEN Ticked(x).puts ELSE out[x]]
    BY DEF Edge
  <2> QED BY <2>1, Constants
<1>2. \A u \in Units : /\ unit[u] \in FuUnits(u) /\ Sound(u, unit[u], out[u])
                       /\ out[u] \in Contents /\ unit'[u] \in FuUnits(u)
  <2>1. \A u \in Units : (unit[u] \in FuUnits(u))'
    BY DEF UnitsInv, Shape
  <2> QED BY <2>1, LineTypes, FuUnitsPrimed
<1>3. ASSUME NEW u \in Units
      PROVE  /\ Line(u)' = IF {out[u]} \ {0} # {} THEN Line(u)
                           ELSE {o \in {[p EXCEPT !.left = @ - 1] : p \in Line(u)} : o.left > 0}
             /\ {out'[u]} \ {0}
                  = IF {out[u]} \ {0} # {} THEN {out[u]} \ {0}
                    ELSE {o.seq : o \in {q \in {[p EXCEPT !.left = @ - 1] : p \in Line(u)} :
                                           q.left = 0}}
  <2> DEFINE f == unit[u]
             t == unit'[u]
             puts == Ticked(u).puts
             Nearer == {[p EXCEPT !.left = @ - 1] : p \in Line(u)}
  <2>1. t = Ticked(u).unit /\ out'[u] = IF puts # 0 THEN puts ELSE out[u]
    BY <1>1
  <2>2. /\ \A o : o \in Line(u) <=> Inside(u, f, o)
        /\ \A o : o \in Line(u)' <=> Inside(u, t, o)
    BY <1>2, LineIs
  <2>3. puts \in Contents /\ (puts # 0 => out[u] = 0)
    BY <1>2, TickUnit
  <2>4. CASE out[u] # 0
    <3>1. ~Busy(u) \/ Frozen(u)
      BY <1>2, <2>4, Constants DEF Sound, Busy, Frozen
    <3>2. t = f /\ puts = 0
      BY <1>2, <2>1, <3>1, TickFields
    <3> HIDE DEF t, puts, f
    <3>3. \A o : o \in Line(u)' <=> o \in Line(u)
      BY <2>2, <3>2
    <3>4. Line(u)' = Line(u) /\ out'[u] = out[u] /\ {out[u]} \ {0} # {}
      BY <2>1, <2>4, <3>2, <3>3
    <3> QED BY <3>4
  <2>5. CASE out[u] = 0
    <3>1. /\ \A o : Inside(u, f, o) => \E s \in Ops : \E n \in Nat \ {0} : o = Op(s, n)
          /\ \A s \in Ops : \A n \in Nat \ {0} : Inside(u, t, Op(s, n)) <=> Inside(u, f, Op(s, n + 1))
          /\ \A o : Inside(u, t, o) => \E s \in Ops : \E n \in Nat \ {0} : o = Op(s, n)
          /\ \A s \in Ops : puts = s <=> Inside(u, f, Op(s, 1))
      BY <1>2, <2>1, <2>5, TickLine
    <3>2. \A s \in Ops : \A n \in Nat \ {0} :
            /\ [Op(s, n) EXCEPT !.left = @ - 1] = Op(s, n - 1)
            /\ Op(s, n).left = n /\ Op(s, n).seq = s
      BY DEF Op
    <3>3. \A s : \A n : Op(s, n).left = n /\ Op(s, n).seq = s
      BY DEF Op
    <3> HIDE DEF t, puts, f
    <3>4. \A o : o \in Nearer <=> \E s \in Ops : \E n \in Nat \ {0} :
                                    Op(s, n) \in Line(u) /\ o = Op(s, n - 1)
      <4>1. ASSUME NEW o \in Nearer
            PROVE  \E s \in Ops : \E n \in Nat \ {0} :
                     Op(s, n) \in Line(u) /\ o = Op(s, n - 1)
        <5>1. PICK p \in Line(u) : o = [p EXCEPT !.left = @ - 1]
          OBVIOUS
        <5>2. PICK s \in Ops, n \in Nat \ {0} : p = Op(s, n)
          BY <2>2, <3>1
        <5> QED BY <3>2, <5>1, <5>2
      <4>2. ASSUME NEW s \in Ops, NEW n \in Nat \ {0}, Op(s, n) \in Line(u)
            PROVE  Op(s, n - 1) \in Nearer
        <5>1. [Op(s, n) EXCEPT !.left = @ - 1] \in Nearer
          BY <4>2
        <5> HIDE DEF Nearer
        <5> QED BY <3>2, <5>1
      <4> QED BY <4>1, <4>2
    <3> HIDE DEF Nearer
    <3>5. Line(u)' = {o \in Nearer : o.left > 0}
      <4>1. ASSUME NEW o, o \in Line(u)' PROVE o \in Nearer /\ o.left > 0
        <5>1. PICK s \in Ops : \E n \in Nat \ {0} : o = Op(s, n)
          BY <2>2, <3>1, <4>1
        <5>2. PICK n \in Nat \ {0} : o = Op(s, n)
          BY <5>1
        <5>3. Op(s, n + 1) \in Line(u) /\ n + 1 \in Nat \ {0} /\ n = (n + 1) - 1
          BY <2>2, <3>1, <4>1, <5>2
        <5>4. o \in Nearer
          BY <3>4, <5>2, <5>3
        <5>5. o.left = n
          BY <3>3, <5>2
        <5> QED BY <5>4, <5>5
      <4>2. ASSUME NEW o \in Nearer, o.left > 0 PROVE o \in Line(u)'
        <5>1. PICK s \in Ops, n \in Nat \ {0} : Op(s, n) \in Line(u) /\ o = Op(s, n - 1)
          BY <3>4, <4>2
        <5>2. o.left = n - 1
          BY <3>3, <5>1
        <5>3. n - 1 \in Nat \ {0} /\ n = (n - 1) + 1
          BY <4>2, <5>2
        <5>4. Inside(u, t, Op(s, n - 1))
          BY <2>2, <3>1, <5>1, <5>3
        <5> QED BY <2>2, <5>1, <5>4
      <4> QED BY <4>1, <4>2
    <3>6. {out'[u]} \ {0} = {o.seq : o \in {q \in Nearer : q.left = 0}}
      <4>1. out'[u] = puts
        BY <2>1, <2>5
      <4>2. ASSUME NEW y \in {puts} \ {0} PROVE \E o \in Nearer : o.left = 0 /\ y = o.seq
        <5>1. y \in Ops /\ puts = y
          BY <2>3, <4>2 DEF Contents
        <5>2. Op(y, 1) \in Line(u)
          BY <2>2, <3>1, <5>1
        <5>3. Op(y, 0) \in Nearer
          <6>1. 1 \in Nat \ {0} /\ 0 = 1 - 1
            OBVIOUS
          <6> QED BY <3>4, <5>1, <5>2, <6>1
        <5> QED BY <3>3, <5>3
      <4>3. ASSUME NEW o \in Nearer, o.left = 0 PROVE o.seq \in {puts} \ {0}
        <5>1. PICK s \in Ops, n \in Nat \ {0} : Op(s, n) \in Line(u) /\ o = Op(s, n - 1)
          BY <3>4
        <5>2. o.left = n - 1 /\ o.seq = s
          BY <3>3, <5>1
        <5>3. n = 1
          BY <4>3, <5>2
        <5>4. puts = s /\ s # 0
          BY <2>2, <3>1, <5>1, <5>3, Constants
        <5> QED BY <5>2, <5>4
      <4> QED BY <4>1, <4>2, <4>3
    <3>7. {out[u]} \ {0} = {}
      BY <2>5
    <3> QED BY <3>5, <3>6, <3>7 DEF Nearer
  <2> QED BY <2>4, <2>5
<1>4. /\ LineMap' = [u \in Units |-> Line(u)'] /\ SlotMap' = [u \in Units |-> {out'[u]} \ {0}]
  BY DEF LineMap, SlotMap
<1>5. Lines!Tick
  <2>1. \A u \in Units : LineMap[u] = Line(u) /\ SlotMap[u] = {out[u]} \ {0}
    BY DEF LineMap, SlotMap
  <2>2. LineMap' = [u \in Units |->
                      IF SlotMap[u] # {} THEN LineMap[u]
                      ELSE {o \in {[p EXCEPT !.left = @ - 1] : p \in LineMap[u]} : o.left > 0}]
    BY <1>3, <1>4, <2>1
  <2>3. SlotMap' = [u \in Units |->
                      IF SlotMap[u] # {} THEN SlotMap[u]
                      ELSE {o.seq : o \in {q \in {[p EXCEPT !.left = @ - 1] : p \in LineMap[u]} :
                                             q.left = 0}}]
    BY <1>3, <1>4, <2>1
  <2> QED BY <2>2, <2>3 DEF Lines!Tick, Lines!Advanced, LineMap, SlotMap
<1> QED BY <1>5 DEF Lines!LNext

LEMMA ReportLines ==
  \A s \in Ops : \A x \in LoadOuts : UnitsInv /\ ReportLoad(x, s) => UNCHANGED Lines!lvars
<1> SUFFICES ASSUME NEW s \in Ops, NEW x \in LoadOuts, UnitsInv, ReportLoad(x, s)
             PROVE  UNCHANGED Lines!lvars
  OBVIOUS
<1>1. out' = [out EXCEPT ![x] = s] /\ UNCHANGED unit /\ out \in [Slots -> Contents]
  BY DEF ReportLoad, UnitsInv, Shape
<1>2. \A u \in Units : Line(u)' = Line(u)
  BY <1>1 DEF Line, Remaining
<1>3. \A u \in Units : out'[u] = out[u]
  BY <1>1, Constants
<1>4. LineMap' = LineMap /\ SlotMap' = SlotMap
  BY <1>2, <1>3 DEF LineMap, SlotMap
<1> QED BY <1>4 DEF Lines!lvars, LineMap, SlotMap

LEMMA OthersLines == UNCHANGED <<unit, out>> => UNCHANGED Lines!lvars
<1> SUFFICES ASSUME UNCHANGED <<unit, out>> PROVE UNCHANGED Lines!lvars
  OBVIOUS
<1>1. \A u \in Units : Line(u)' = Line(u) /\ out'[u] = out[u]
  BY DEF Line, Remaining
<1>2. LineMap' = LineMap /\ SlotMap' = SlotMap
  BY <1>1 DEF LineMap, SlotMap
<1> QED BY <1>2 DEF Lines!lvars, LineMap, SlotMap

LEMMA StepLines ==
  UnitsInv /\ UnitsInv' /\ [UNext]_uvars => [Lines!LNext]_(Lines!lvars)
<1> SUFFICES ASSUME UnitsInv, UnitsInv', [UNext]_uvars PROVE [Lines!LNext]_(Lines!lvars)
  OBVIOUS
<1>1. CASE Writeback
  BY <1>1, WritebackLines
<1>2. CASE EndWriteback \/ EndStage \/ (\E s \in Ops : Dispatch(s)) \/ UNCHANGED uvars
  <2>1. UNCHANGED <<unit, out>>
    BY <1>2 DEF EndWriteback, EndStage, Dispatch, uvars
  <2> QED BY <2>1, OthersLines
<1>3. CASE Edge
  BY <1>3, EdgeLines
<1>4. ASSUME NEW s \in Ops, Replay(s) PROVE [Lines!LNext]_(Lines!lvars)
  BY <1>4, ReplayLines
<1>5. ASSUME NEW s \in Ops, NEW x \in LoadOuts, ReportLoad(x, s)
      PROVE  [Lines!LNext]_(Lines!lvars)
  BY <1>5, ReportLines
<1>6. ASSUME NEW s \in Ops, NEW u \in Units, Issue(u, s) PROVE [Lines!LNext]_(Lines!lvars)
  BY <1>6, IssueLines
<1> QED BY <1>1, <1>2, <1>3, <1>4, <1>5, <1>6 DEF UNext, Progress

THEOREM UnitsAreDelayLines == USpec => RefinesDelayLines
<1>1. USpec => []UnitsInv
  BY UnitsInvariant
<1> QED
  BY <1>1, LinesInitially, StepLines, PTL DEF USpec, RefinesDelayLines, Lines!LSpec
=============================================================================
