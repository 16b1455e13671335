----------------------------- MODULE CacheProofs -----------------------------
(***************************************************************************)
(* Proofs about Cache and CacheOverMemory, for every geometry, every       *)
(* number of MSHRs and writeback entries, and any number of requests: no   *)
(* line has two homes, what may be dropped is current below (CopiesSound), *)
(* and the cache is one memory on which each request takes effect when it  *)
(* arrives (RefinesArrival).                                               *)
(*                                                                         *)
(* The inductive invariant is Good, a predicate of a cache, of the level   *)
(* below it, of the refills on their way and of the number of requests.    *)
(* It is one of values, not of variables, because a tick goes through      *)
(* several caches: hits ripen, delayed installs are retried one by one and *)
(* a request goes below.  Each of these operations has a lemma that says   *)
(* what becomes of Good, of the memory the cache stands for (Contents) and *)
(* of the answers it owes (Due); the steps of CacheOverMemory compose them.*)
(***************************************************************************)
EXTENDS CacheOverMemory, RingProofs, SequenceTheorems, FiniteSetTheorems

SetIds   == 0 .. Sets - 1
PartData == UNION {[S -> Datum] : S \in SUBSET Offsets}

Stored   == [line : LineSet, data : LineData, dirty : BOOLEAN]
Victim   == [line : LineSet, data : LineData]
Delayed  == [mshr : MshrIds, data : LineData]
Reply    == [src : {0}, tag : Datum, data : PartData]
AnyAsked == [write : BOOLEAN, line : LineSet, bytes : SUBSET Offsets,
             src : {0}, tag : Datum, data : PartData]
Asked    == {r \in AnyAsked : r.write => r.data \in [r.bytes -> Datum]}
MissState == [valid : BOOLEAN, line : LineSet, sent : BOOLEAN, waiting : Seq(Asked)]

CacheState ==
  [arrays : [SetIds -> Seq(Stored)], mshrs : [MshrIds -> MissState],
   wbq : Seq(Victim), installs : Seq(Delayed), hits : Seq(Reply), resp : Seq(Reply)]

Elems(s) == {s[k] : k \in 1 .. Len(s)}
LinesDiffer(s) == \A j, k \in 1 .. Len(s) : s[j].line = s[k].line => j = k
TagsDiffer(s)  == \A j, k \in 1 .. Len(s) : s[j].tag = s[k].tag => j = k

(* Capacities are respected and a line is in its own set.                  *)
Fits(c) ==
  /\ c \in CacheState
  /\ \A s \in SetIds :
       /\ Len(c.arrays[s]) <= Ways
       /\ \A e \in Elems(c.arrays[s]) : SetOf(e.line) = s
  /\ Len(c.wbq) <= WbCap

(* No line has two homes.                                                  *)
Apart(c) ==
  /\ \A s \in SetIds : LinesDiffer(c.arrays[s])
  /\ LinesDiffer(c.wbq)
  /\ \A i, j \in Occupied(c) : c.mshrs[i].line = c.mshrs[j].line => i = j
  /\ \A s \in SetIds : \A e \in Elems(c.arrays[s]) :
       /\ \A v \in Elems(c.wbq) : e.line # v.line
       /\ \A i \in Occupied(c) : e.line # c.mshrs[i].line
  /\ \A v \in Elems(c.wbq) : \A i \in Occupied(c) : v.line # c.mshrs[i].line

(* A miss waits for one refill, which is not sent, on its way, or delayed, *)
(* and holds the line as it is below; so does a clean copy.                *)
Awaited(c, B, F) ==
  /\ \A i \in MshrIds :
       /\ c.mshrs[i].valid <=> c.mshrs[i].waiting # <<>>
       /\ \A j \in 1 .. Len(c.mshrs[i].waiting) :
            c.mshrs[i].waiting[j].line = c.mshrs[i].line
  /\ \A r \in F :
       /\ r \in [tag : MshrIds, data : LineData]
       /\ c.mshrs[r.tag].valid /\ c.mshrs[r.tag].sent
       /\ r.data = B[c.mshrs[r.tag].line]
  /\ \A k \in 1 .. Len(c.installs) :
       LET i == c.installs[k].mshr IN
       /\ c.mshrs[i].valid /\ c.mshrs[i].sent
       /\ c.installs[k].data = B[c.mshrs[i].line]
       /\ \A r \in F : r.tag # i
       /\ \A m \in 1 .. Len(c.installs) : c.installs[m].mshr = i => m = k
  /\ \A s \in SetIds : \A e \in Elems(c.arrays[s]) : e.dirty \/ e.data = B[e.line]

(* Every request that has no answer yet is in one place, under its number. *)
Numbered(c, n) ==
  /\ TagsDiffer(c.resp) /\ TagsDiffer(c.hits)
  /\ \A a \in Elems(c.resp), b \in Elems(c.hits) : a.tag # b.tag
  /\ \A a \in Elems(c.resp) \cup Elems(c.hits) : a.tag <= n
  /\ \A i \in MshrIds : \A j \in 1 .. Len(c.mshrs[i].waiting) :
       LET t == c.mshrs[i].waiting[j].tag IN
       /\ t <= n
       /\ \A a \in Elems(c.resp) \cup Elems(c.hits) : a.tag # t
       /\ \A x \in MshrIds : \A y \in 1 .. Len(c.mshrs[x].waiting) :
            c.mshrs[x].waiting[y].tag = t => x = i /\ y = j

Good(c, B, F, n) ==
  /\ B \in [LineSet -> LineData]
  /\ n \in Datum
  /\ Fits(c)
  /\ Apart(c)
  /\ Awaited(c, B, F)
  /\ Numbered(c, n)

CacheInv == Good(cache, below, flight, asked)
-----------------------------------------------------------------------------
(* Lemmas about sequences: what appending, removing and dropping the head  *)
(* do to the elements.                                                     *)

LEMMA AppendSeq ==
  ASSUME NEW S, NEW s \in Seq(S), NEW e \in S
  PROVE  LET t == Append(s, e)
         IN  /\ t \in Seq(S) /\ Len(s) \in Nat /\ Len(t) = Len(s) + 1
             /\ t[Len(t)] = e /\ \A j \in 1 .. Len(s) : t[j] = s[j]
             /\ Elems(t) = Elems(s) \cup {e}
<1> DEFINE t == Append(s, e)
           n == Len(s)
<1>1. /\ t \in Seq(S) /\ n \in Nat /\ Len(t) = n + 1
      /\ t[n + 1] = e /\ \A j \in 1 .. n : t[j] = s[j]
  OBVIOUS
<1> HIDE DEF t, n
<1>2. \A j \in 1 .. n + 1 : j \in 1 .. n \/ j = n + 1
  BY <1>1
<1>3. n + 1 \in 1 .. n + 1 /\ \A j \in 1 .. n : j \in 1 .. n + 1
  BY <1>1
<1>4. Elems(t) = {s[k] : k \in 1 .. n} \cup {e}
  BY <1>1, <1>2, <1>3 DEF Elems
<1> QED BY <1>1, <1>4 DEF Elems, n, t

LEMMA RemoveSeq ==
  ASSUME NEW S, NEW s \in Seq(S), NEW k \in 1 .. Len(s)
  PROVE  LET t == RemoveAt(s, k)
         IN  /\ t \in Seq(S) /\ Len(s) \in Nat /\ Len(t) = Len(s) - 1
             /\ \A j \in 1 .. Len(t) : t[j] = s[IF j < k THEN j ELSE j + 1]
             /\ Elems(t) = {s[j] : j \in 1 .. Len(s) \ {k}}
<1> DEFINE t == RemoveAt(s, k)
           n == Len(s)
           a == SubSeq(s, 1, k - 1)
           b == SubSeq(s, k + 1, n)
           at(j) == IF j < k THEN j ELSE j + 1
<1>1. n \in Nat /\ k \in Nat /\ 1 <= k /\ k <= n /\ \A j \in 1 .. n : s[j] \in S
  OBVIOUS
<1>2. a \in Seq(S) /\ Len(a) = k - 1 /\ \A j \in 1 .. k - 1 : a[j] = s[j]
  BY <1>1
<1>3. b \in Seq(S) /\ Len(b) = n - k /\ \A j \in 1 .. n - k : b[j] = s[k + j]
  BY <1>1
<1>4. t = a \o b
  BY DEF RemoveAt
<1> HIDE DEF t, a, b, n
<1>5. /\ t \in Seq(S) /\ Len(t) = n - 1
      /\ \A j \in 1 .. k - 1 : t[j] = a[j]
      /\ \A j \in k .. n - 1 : t[j] = b[j - (k - 1)]
  BY <1>1, <1>2, <1>3, <1>4
<1>6. ASSUME NEW j \in 1 .. n - 1
      PROVE  t[j] = s[at(j)] /\ at(j) \in 1 .. n \ {k}
  <2>1. CASE j < k
    BY <1>1, <1>2, <1>5, <2>1
  <2>2. CASE ~(j < k)
    <3>1. j \in k .. n - 1 /\ j - (k - 1) \in 1 .. n - k /\ k + (j - (k - 1)) = j + 1
      BY <1>1, <2>2
    <3>2. t[j] = s[j + 1]
      BY <1>3, <1>5, <3>1
    <3> QED BY <1>1, <2>2, <3>2
  <2> QED BY <2>1, <2>2
<1>7. ASSUME NEW i \in 1 .. n \ {k}
      PROVE  \E j \in 1 .. n - 1 : at(j) = i
  <2>1. CASE i < k
    <3>1. i \in 1 .. n - 1 /\ at(i) = i
      BY <1>1, <2>1
    <3> QED BY <3>1
  <2>2. CASE ~(i < k)
    <3>1. i - 1 \in 1 .. n - 1 /\ at(i - 1) = i
      BY <1>1, <2>2
    <3> QED BY <3>1
  <2> QED BY <2>1, <2>2
<1>8. Elems(t) = {s[j] : j \in 1 .. n \ {k}}
  <2>1. Elems(t) = {t[j] : j \in 1 .. n - 1}
    BY <1>5 DEF Elems
  <2> HIDE DEF at
  <2> QED BY <1>6, <1>7, <2>1
<1> QED BY <1>1, <1>5, <1>6, <1>8 DEF n, t

LEMMA TailSeq ==
  ASSUME NEW S, NEW s \in Seq(S), s # <<>>
  PROVE  LET t == Tail(s)
         IN  /\ t \in Seq(S) /\ Len(s) \in Nat /\ Len(t) = Len(s) - 1
             /\ \A j \in 1 .. Len(t) : t[j] = s[j + 1]
             /\ Head(s) = s[1] /\ 1 \in 1 .. Len(s)
             /\ Elems(t) = {s[j] : j \in 1 .. Len(s) \ {1}}
<1> DEFINE t == Tail(s)
           n == Len(s)
<1>1. n \in Nat /\ n # 0 /\ t \in Seq(S) /\ Len(t) = n - 1 /\ Head(s) = s[1]
  OBVIOUS
<1>2. \A j \in 1 .. n - 1 : t[j] = s[j + 1] /\ j + 1 \in 1 .. n \ {1}
  BY <1>1
<1>3. \A j \in 1 .. n \ {1} : j - 1 \in 1 .. n - 1 /\ (j - 1) + 1 = j
  BY <1>1
<1> HIDE DEF t, n
<1>4. Elems(t) = {s[j] : j \in 1 .. n \ {1}}
  <2>1. Elems(t) = {t[j] : j \in 1 .. n - 1}
    BY <1>1 DEF Elems
  <2> QED BY <1>2, <1>3, <2>1
<1>5. 1 \in 1 .. n
  BY <1>1
<1> QED BY <1>1, <1>2, <1>4, <1>5 DEF n, t

(* The lines stay distinct, and the removed line is gone.                  *)
LEMMA RemoveLine ==
  ASSUME NEW S, NEW s \in Seq(S), NEW k \in 1 .. Len(s), LinesDiffer(s)
  PROVE  LET t == RemoveAt(s, k)
         IN  LinesDiffer(t) /\ Elems(t) = Elems(s) \ {s[k]}
             /\ \A e \in Elems(t) : e.line # s[k].line
<1> DEFINE t == RemoveAt(s, k)
<1>1. /\ Len(s) \in Nat /\ Len(t) = Len(s) - 1
      /\ \A j \in 1 .. Len(t) : t[j] = s[IF j < k THEN j ELSE j + 1]
      /\ Elems(t) = {s[j] : j \in 1 .. Len(s) \ {k}}
  BY RemoveSeq
<1> HIDE DEF t
<1>2. LinesDiffer(t)
  <2> SUFFICES ASSUME NEW x \in 1 .. Len(t), NEW y \in 1 .. Len(t), t[x].line = t[y].line
               PROVE  x = y
    BY DEF LinesDiffer
  <2>1. PICK v \in 1 .. Len(s) : t[x] = s[v] /\ v = IF x < k THEN x ELSE x + 1
    BY <1>1
  <2>2. PICK w \in 1 .. Len(s) : t[y] = s[w] /\ w = IF y < k THEN y ELSE y + 1
    BY <1>1
  <2>3. v = w
    BY <2>1, <2>2 DEF LinesDiffer
  <2>4. x \in Nat /\ y \in Nat /\ k \in Nat
    BY <1>1
  <2> QED BY <2>1, <2>2, <2>3, <2>4
<1>3. \A j \in 1 .. Len(s) \ {k} : s[j].line # s[k].line
  BY DEF LinesDiffer
<1> QED BY <1>1, <1>2, <1>3 DEF Elems, t

LEMMA TailLine ==
  ASSUME NEW S, NEW s \in Seq(S), s # <<>>, LinesDiffer(s)
  PROVE  LET t == Tail(s)
         IN  LinesDiffer(t) /\ Elems(t) = Elems(s) \ {Head(s)}
             /\ \A e \in Elems(t) : e.line # Head(s).line
<1> DEFINE t == Tail(s)
<1>1. /\ Len(s) \in Nat /\ Len(t) = Len(s) - 1
      /\ \A j \in 1 .. Len(t) : t[j] = s[j + 1]
      /\ Head(s) = s[1] /\ 1 \in 1 .. Len(s)
      /\ Elems(t) = {s[j] : j \in 1 .. Len(s) \ {1}}
  BY TailSeq
<1> HIDE DEF t
<1>2. LinesDiffer(t)
  BY <1>1 DEF LinesDiffer
<1>3. \A j \in 1 .. Len(s) \ {1} : s[j].line # s[1].line
  BY <1>1 DEF LinesDiffer
<1> QED BY <1>1, <1>2, <1>3 DEF Elems, t

LEMMA AppendLine ==
  ASSUME NEW S, NEW s \in Seq(S), NEW e \in S, LinesDiffer(s),
         \A x \in Elems(s) : x.line # e.line
  PROVE  LinesDiffer(Append(s, e))
<1> DEFINE t == Append(s, e)
<1>1. /\ Len(s) \in Nat /\ Len(t) = Len(s) + 1
      /\ t[Len(t)] = e /\ \A j \in 1 .. Len(s) : t[j] = s[j]
  BY AppendSeq
<1> HIDE DEF t
<1>2. \A j \in 1 .. Len(t) : j \in 1 .. Len(s) \/ j = Len(t)
  BY <1>1
<1>3. \A j \in 1 .. Len(s) : s[j].line # e.line
  BY DEF Elems
<1>4. LinesDiffer(t)
  BY <1>1, <1>2, <1>3 DEF LinesDiffer
<1> QED BY <1>4 DEF t

LEMMA AppendTag ==
  ASSUME NEW S, NEW s \in Seq(S), NEW e \in S, TagsDiffer(s),
         \A x \in Elems(s) : x.tag # e.tag
  PROVE  TagsDiffer(Append(s, e))
<1> DEFINE t == Append(s, e)
<1>1. /\ Len(s) \in Nat /\ Len(t) = Len(s) + 1
      /\ t[Len(t)] = e /\ \A j \in 1 .. Len(s) : t[j] = s[j]
  BY AppendSeq
<1> HIDE DEF t
<1>2. \A j \in 1 .. Len(t) : j \in 1 .. Len(s) \/ j = Len(t)
  BY <1>1
<1>3. \A j \in 1 .. Len(s) : s[j].tag # e.tag
  BY DEF Elems
<1>4. TagsDiffer(t)
  BY <1>1, <1>2, <1>3 DEF TagsDiffer
<1> QED BY <1>4 DEF t

LEMMA TailTag ==
  ASSUME NEW S, NEW s \in Seq(S), s # <<>>, TagsDiffer(s)
  PROVE  LET t == Tail(s)
         IN  TagsDiffer(t) /\ Elems(t) = Elems(s) \ {Head(s)}
             /\ \A e \in Elems(t) : e.tag # Head(s).tag
<1> DEFINE t == Tail(s)
<1>1. /\ Len(s) \in Nat /\ Len(t) = Len(s) - 1
      /\ \A j \in 1 .. Len(t) : t[j] = s[j + 1]
      /\ Head(s) = s[1] /\ 1 \in 1 .. Len(s)
      /\ Elems(t) = {s[j] : j \in 1 .. Len(s) \ {1}}
  BY TailSeq
<1> HIDE DEF t
<1>2. TagsDiffer(t)
  BY <1>1 DEF TagsDiffer
<1>3. \A j \in 1 .. Len(s) \ {1} : s[j].tag # s[1].tag
  BY <1>1 DEF TagsDiffer
<1> QED BY <1>1, <1>2, <1>3 DEF Elems, t

-----------------------------------------------------------------------------
(* Where a line is, and what peek8 says of it.                             *)

NoHome(c, l) ==
  /\ \A e \in Elems(c.arrays[SetOf(l)]) : e.line # l
  /\ \A v \in Elems(c.wbq) : v.line # l
  /\ \A i \in Occupied(c) : c.mshrs[i].line # l

(* The memory a cache over B stands for.                                   *)
Contents(c, B) == [l \in LineSet |-> Peek(c, l, B[l])]

LEMMA SetOfRange == \A l \in LineSet : SetOf(l) \in SetIds
BY CacheAssumption DEF LineSet, SetOf, SetIds

LEMMA FirstIs ==
  ASSUME NEW k \in Int, NEW S, S = {k}
  PROVE  First(S) = k
<1>1. k \in S /\ \A y \in S : k <= y
  OBVIOUS
<1>2. First(S) \in S
  BY <1>1 DEF First
<1> QED BY <1>2

LEMMA FirstIn ==
  ASSUME NEW S, S \subseteq Nat, S # {}
  PROVE  First(S) \in S
<1>1. \E m \in S : \A x \in S : m <= x
  BY MinExists
<1> QED BY <1>1 DEF First

LEMMA StateParts ==
  ASSUME NEW c, c \in CacheState
  PROVE  /\ c.arrays \in [SetIds -> Seq(Stored)] /\ c.mshrs \in [MshrIds -> MissState]
         /\ c.wbq \in Seq(Victim) /\ c.installs \in Seq(Delayed)
         /\ c.hits \in Seq(Reply) /\ c.resp \in Seq(Reply)
         /\ c = [arrays |-> c.arrays, mshrs |-> c.mshrs, wbq |-> c.wbq,
                 installs |-> c.installs, hits |-> c.hits, resp |-> c.resp]
BY DEF CacheState

LEMMA PeekIs ==
  ASSUME NEW c, Fits(c), Apart(c), NEW l \in LineSet, NEW b
  PROVE  /\ \A e \in Elems(c.arrays[SetOf(l)]) : e.line = l => Peek(c, l, b) = e.data
         /\ \A v \in Elems(c.wbq) : v.line = l => Peek(c, l, b) = v.data
         /\ \A i \in Occupied(c) : c.mshrs[i].line = l
              => Peek(c, l, b) = Overlaid(c.mshrs[i].waiting, b)
         /\ NoHome(c, l) => Peek(c, l, b) = b
<1> DEFINE s == SetOf(l)
           q == c.arrays[s]
<1>1. s \in SetIds /\ q \in Seq(Stored) /\ c.wbq \in Seq(Victim)
  BY SetOfRange, StateParts DEF Fits
<1>2. InArrays(c, l) = {k \in 1 .. Len(q) : q[k].line = l}
  BY <1>1 DEF InArrays
<1>3. InWbq(c, l) = {k \in 1 .. Len(c.wbq) : c.wbq[k].line = l}
  BY <1>1 DEF InWbq
<1>4. MshrFor(c, l) = {i \in Occupied(c) : c.mshrs[i].line = l}
  BY DEF MshrFor
<1>5. LinesDiffer(q) /\ LinesDiffer(c.wbq)
  BY <1>1 DEF Apart
<1>6. ASSUME NEW e \in Elems(q), e.line = l
      PROVE  Peek(c, l, b) = e.data
  <2>1. PICK k \in 1 .. Len(q) : e = q[k]
    BY DEF Elems
  <2>2. InArrays(c, l) = {k}
    BY <1>2, <1>5, <1>6, <2>1 DEF LinesDiffer
  <2>3. First(InArrays(c, l)) = k
    BY <2>2, FirstIs
  <2> QED BY <2>1, <2>2, <2>3 DEF Peek
<1>7. ASSUME NEW v \in Elems(c.wbq), v.line = l
      PROVE  Peek(c, l, b) = v.data
  <2>1. PICK k \in 1 .. Len(c.wbq) : v = c.wbq[k]
    BY DEF Elems
  <2>2. InWbq(c, l) = {k}
    BY <1>3, <1>5, <1>7, <2>1 DEF LinesDiffer
  <2>3. First(InWbq(c, l)) = k
    BY <2>2, FirstIs
  <2>4. InArrays(c, l) = {}
    BY <1>1, <1>2, <1>7 DEF Apart, Elems
  <2> QED BY <2>1, <2>2, <2>3, <2>4 DEF Peek
<1>8. ASSUME NEW i \in Occupied(c), c.mshrs[i].line = l
      PROVE  Peek(c, l, b) = Overlaid(c.mshrs[i].waiting, b)
  <2>1. MshrFor(c, l) = {i}
    BY <1>4, <1>8 DEF Apart
  <2>2. i \in Int
    BY DEF Occupied, MshrIds
  <2>3. First(MshrFor(c, l)) = i
    BY <2>1, <2>2, FirstIs
  <2>4. InArrays(c, l) = {}
    BY <1>1, <1>2, <1>8 DEF Apart, Elems
  <2>5. InWbq(c, l) = {}
    BY <1>3, <1>8 DEF Apart, Elems
  <2> QED BY <2>1, <2>3, <2>4, <2>5 DEF Peek
<1>9. ASSUME NoHome(c, l)
      PROVE  Peek(c, l, b) = b
  <2>1. InArrays(c, l) = {} /\ InWbq(c, l) = {} /\ MshrFor(c, l) = {}
    BY <1>2, <1>3, <1>4, <1>9 DEF NoHome, Elems
  <2> QED BY <2>1 DEF Peek
<1> QED BY <1>6, <1>7, <1>8, <1>9

(* Numbered looks at the requests that wait and the answers only.          *)
LEMMA NumberedSame ==
  ASSUME NEW c, NEW x, NEW n, Numbered(c, n),
         x.mshrs = c.mshrs, x.hits = c.hits, x.resp = c.resp
  PROVE  Numbered(x, n)
BY DEF Numbered
-----------------------------------------------------------------------------
(* installLine: a line without a home gets one, its victim keeps one or    *)
(* is current below.                                                       *)

LEMMA InstallFields ==
  ASSUME NEW c, c \in CacheState, NEW l \in LineSet, NEW d \in LineData, NEW y \in BOOLEAN
  PROVE  LET p == InstallLine(c, l, d, y)
             s == SetOf(l)
             q == c.arrays[s]
             full == Len(q) = Ways
             evict == full /\ Head(q).dirty
             new == [line |-> l, data |-> d, dirty |-> y]
         IN  /\ p.ok <=> ~(evict /\ Len(c.wbq) >= WbCap)
             /\ p.ok => /\ p.way = Len(IF full THEN Tail(q) ELSE q) + 1
                        /\ p.cache =
                             [arrays |-> [c.arrays EXCEPT ![s] =
                                            Append(IF full THEN Tail(q) ELSE q, new)],
                              mshrs |-> c.mshrs,
                              wbq |-> IF evict
                                      THEN Append(c.wbq, [line |-> Head(q).line,
                                                          data |-> Head(q).data])
                                      ELSE c.wbq,
                              installs |-> c.installs, hits |-> c.hits, resp |-> c.resp]
             /\ ~p.ok => p.cache = c
<1> DEFINE A == c.arrays
           M == c.mshrs
           W == c.wbq
           I == c.installs
           H == c.hits
           R == c.resp
<1>1. c = [arrays |-> A, mshrs |-> M, wbq |-> W, installs |-> I, hits |-> H, resp |-> R]
  BY StateParts
<1>2. SetOf(l) \in SetIds /\ A \in [SetIds -> Seq(Stored)]
  BY SetOfRange, StateParts
<1> HIDE DEF A, M, W, I, H, R
<1>3. c.arrays = A /\ c.mshrs = M /\ c.wbq = W /\ c.installs = I /\ c.hits = H /\ c.resp = R
  BY DEF A, M, W, I, H, R
<1> QED BY <1>1, <1>2, <1>3 DEF InstallLine

Installed(c, B, F, n, l, d, y) ==
  LET p == InstallLine(c, l, d, y)
      x == p.cache
      q == x.arrays[SetOf(l)]
  IN  /\ Good(x, B, F, n)
      /\ p.way = Len(q) /\ p.way \in 1 .. Len(q)
      /\ q[p.way] = [line |-> l, data |-> d, dirty |-> y]
      /\ x.mshrs = c.mshrs /\ x.installs = c.installs
      /\ x.hits = c.hits /\ x.resp = c.resp
      /\ Contents(x, B) = [Contents(c, B) EXCEPT ![l] = d]

LEMMA InstallGood ==
  ASSUME NEW c, NEW B, NEW F, NEW n, Good(c, B, F, n),
         NEW l \in LineSet, NEW d \in LineData, NEW y \in BOOLEAN,
         NoHome(c, l), y = FALSE => d = B[l],
         InstallLine(c, l, d, y).ok
  PROVE  Installed(c, B, F, n, l, d, y)
<1> DEFINE p == InstallLine(c, l, d, y)
           x == p.cache
           s == SetOf(l)
           q == c.arrays[s]
           full == Len(q) = Ways
           evict == full /\ Head(q).dirty
           kept == IF full THEN Tail(q) ELSE q
           new == [line |-> l, data |-> d, dirty |-> y]
           v == Head(q)
           gone == [line |-> v.line, data |-> v.data]
<1>1. c \in CacheState /\ Fits(c) /\ Apart(c) /\ Awaited(c, B, F) /\ Numbered(c, n)
      /\ B \in [LineSet -> LineData] /\ n \in Datum
  BY DEF Good, Fits
<1>2. /\ c.arrays \in [SetIds -> Seq(Stored)] /\ c.mshrs \in [MshrIds -> MissState]
      /\ c.wbq \in Seq(Victim) /\ c.installs \in Seq(Delayed)
      /\ c.hits \in Seq(Reply) /\ c.resp \in Seq(Reply)
  BY <1>1, StateParts
<1>3. s \in SetIds /\ q \in Seq(Stored) /\ LinesDiffer(q) /\ Len(q) <= Ways
  BY <1>1, <1>2, SetOfRange DEF Apart, Fits
<1>4. /\ ~(evict /\ Len(c.wbq) >= WbCap)
      /\ p.way = Len(kept) + 1
      /\ x = [arrays |-> [c.arrays EXCEPT ![s] = Append(kept, new)], mshrs |-> c.mshrs,
              wbq |-> IF evict THEN Append(c.wbq, gone) ELSE c.wbq,
              installs |-> c.installs, hits |-> c.hits, resp |-> c.resp]
  BY <1>1, InstallFields
<1>5. new \in Stored /\ new.line = l /\ new.data = d /\ new.dirty = y
  BY DEF Stored
<1> HIDE DEF p, x, new
(* The line that goes is the head of a full set.                           *)
<1>6. /\ kept \in Seq(Stored) /\ LinesDiffer(kept) /\ Len(kept) < Ways
      /\ full => /\ v \in Elems(q) /\ v \in Stored
                 /\ Elems(kept) = Elems(q) \ {v} /\ \A e \in Elems(kept) : e.line # v.line
      /\ ~full => Elems(kept) = Elems(q)
      /\ Len(kept) \in Nat
  <2>1. CASE full
    <3>1. q # <<>>
      BY <1>3, <2>1, CacheAssumption
    <3>2. /\ Tail(q) \in Seq(Stored) /\ Len(q) \in Nat /\ Len(Tail(q)) = Len(q) - 1
          /\ v = q[1] /\ 1 \in 1 .. Len(q)
      BY <1>3, <3>1, TailSeq
    <3>3. LinesDiffer(Tail(q)) /\ Elems(Tail(q)) = Elems(q) \ {v}
          /\ \A e \in Elems(Tail(q)) : e.line # v.line
      BY <1>3, <3>1, TailLine
    <3>4. v \in Elems(q) /\ v \in Stored
      BY <1>3, <3>2 DEF Elems
    <3>5. kept = Tail(q) /\ Len(kept) < Ways
      BY <2>1, <3>2, CacheAssumption
    <3> QED BY <2>1, <3>2, <3>3, <3>4, <3>5
  <2>2. CASE ~full
    BY <1>3, <2>2, CacheAssumption
  <2> QED BY <2>1, <2>2
<1> HIDE DEF kept, v
<1>7. \A e \in Elems(kept) : e \in Elems(q) /\ e.line # l
  BY <1>6 DEF NoHome
<1>8. /\ Append(kept, new) \in Seq(Stored) /\ Len(Append(kept, new)) = Len(kept) + 1
      /\ Append(kept, new)[Len(kept) + 1] = new
      /\ Elems(Append(kept, new)) = Elems(kept) \cup {new}
  BY <1>5, <1>6, AppendSeq
<1>9. LinesDiffer(Append(kept, new))
  BY <1>5, <1>6, <1>7, AppendLine
<1>10. /\ x.arrays = [c.arrays EXCEPT ![s] = Append(kept, new)] /\ x.mshrs = c.mshrs
       /\ x.wbq = IF evict THEN Append(c.wbq, gone) ELSE c.wbq
       /\ x.installs = c.installs /\ x.hits = c.hits /\ x.resp = c.resp
  BY <1>4
<1>11. /\ x.arrays \in [SetIds -> Seq(Stored)]
       /\ x.arrays[s] = Append(kept, new)
       /\ \A t \in SetIds : t # s => x.arrays[t] = c.arrays[t]
  BY <1>2, <1>3, <1>8, <1>10
<1>12. /\ x.wbq \in Seq(Victim) /\ Len(x.wbq) <= WbCap /\ LinesDiffer(x.wbq)
       /\ evict => Elems(x.wbq) = Elems(c.wbq) \cup {gone}
       /\ ~evict => Elems(x.wbq) = Elems(c.wbq)
  <2>1. CASE evict
    <3>1. v \in Elems(q) /\ v \in Stored
      BY <1>6, <2>1
    <3>2. gone \in Victim /\ gone.line = v.line
      BY <3>1 DEF Stored, Victim
    <3>3. \A w \in Elems(c.wbq) : w.line # gone.line
      BY <1>1, <1>3, <3>1, <3>2 DEF Apart
    <3>4. x.wbq = Append(c.wbq, gone) /\ LinesDiffer(c.wbq) /\ Len(c.wbq) <= WbCap
      BY <1>1, <1>10, <2>1 DEF Apart, Fits
    <3> HIDE DEF gone
    <3>5. /\ x.wbq \in Seq(Victim) /\ Len(x.wbq) = Len(c.wbq) + 1 /\ Len(c.wbq) \in Nat
          /\ Elems(x.wbq) = Elems(c.wbq) \cup {gone}
      BY <1>2, <3>2, <3>4, AppendSeq
    <3>6. LinesDiffer(x.wbq)
      BY <1>2, <3>2, <3>3, <3>4, AppendLine
    <3>7. Len(x.wbq) <= WbCap
      BY <1>4, <2>1, <3>4, <3>5, CacheAssumption
    <3> QED BY <2>1, <3>5, <3>6, <3>7
  <2>2. CASE ~evict
    BY <1>1, <1>2, <1>10, <2>2 DEF Apart, Fits
  <2> QED BY <2>1, <2>2
<1>13. Fits(x)
  <2>1. x \in CacheState
    BY <1>2, <1>4, <1>10, <1>11, <1>12 DEF CacheState
  <2>2. ASSUME NEW t \in SetIds
        PROVE  Len(x.arrays[t]) <= Ways /\ \A e \in Elems(x.arrays[t]) : SetOf(e.line) = t
    <3>1. CASE t = s
      <4>1. Len(x.arrays[t]) <= Ways
        BY <1>6, <1>8, <1>11, <3>1, CacheAssumption
      <4>2. \A e \in Elems(q) : SetOf(e.line) = s
        BY <1>1, <1>3 DEF Fits
      <4> HIDE DEF s
      <4> QED BY <1>5, <1>7, <1>8, <1>11, <3>1, <4>1, <4>2 DEF s
    <3>2. CASE t # s
      BY <1>1, <1>11, <3>2 DEF Fits
    <3> QED BY <3>1, <3>2
  <2> QED BY <1>12, <2>1, <2>2 DEF Fits
(* What each set holds now: what it held, except the line that went, and   *)
(* the new one.                                                            *)
<1>14. ASSUME NEW t \in SetIds, NEW e \in Elems(x.arrays[t])
       PROVE  \/ e = new /\ t = s
              \/ e \in Elems(c.arrays[t]) /\ e.line # l /\ (full => e.line # v.line)
  <2>1. CASE t = s
    BY <1>6, <1>7, <1>8, <1>11, <2>1
  <2>2. CASE t # s
    <3>1. e \in Elems(c.arrays[t]) /\ SetOf(e.line) = t
      BY <1>1, <1>11, <2>2 DEF Fits
    <3>2. full => SetOf(v.line) = s
      BY <1>1, <1>3, <1>6 DEF Fits
    <3> QED BY <2>2, <3>1, <3>2
  <2> QED BY <2>1, <2>2
<1>15. ASSUME NEW w \in Elems(x.wbq)
       PROVE  w \in Elems(c.wbq) \/ (evict /\ w = gone /\ w.line = v.line /\ w.data = v.data)
  BY <1>12
<1>16. evict => v \in Elems(q) /\ v.line # l
  BY <1>6 DEF NoHome
<1>17. Occupied(x) = Occupied(c)
  BY <1>10 DEF Occupied
<1> HIDE DEF evict, gone, full
<1>18. Apart(x)
  <2>1. \A t \in SetIds : LinesDiffer(x.arrays[t])
    BY <1>1, <1>9, <1>11 DEF Apart
  <2>2. ASSUME NEW t \in SetIds, NEW e \in Elems(x.arrays[t])
        PROVE  /\ \A w \in Elems(x.wbq) : e.line # w.line
               /\ \A i \in Occupied(c) : e.line # c.mshrs[i].line
    <3>1. CASE e = new
      <4>1. e.line = l
        BY <1>5, <3>1
      <4> QED BY <1>15, <1>16, <4>1 DEF NoHome
    <3>2. CASE e \in Elems(c.arrays[t]) /\ (full => e.line # v.line)
      BY <1>1, <1>15, <3>2 DEF Apart, evict
    <3> QED BY <1>14, <3>1, <3>2
  <2>3. ASSUME NEW w \in Elems(x.wbq), NEW i \in Occupied(c)
        PROVE  w.line # c.mshrs[i].line
    BY <1>1, <1>3, <1>15, <1>16 DEF Apart
  <2>4. \A i, j \in Occupied(c) : c.mshrs[i].line = c.mshrs[j].line => i = j
    BY <1>1 DEF Apart
  <2> QED BY <1>10, <1>12, <1>17, <2>1, <2>2, <2>3, <2>4 DEF Apart
<1>19. Awaited(x, B, F)
  <2>1. ASSUME NEW t \in SetIds, NEW e \in Elems(x.arrays[t])
        PROVE  e.dirty \/ e.data = B[e.line]
    <3>1. CASE e = new
      BY <1>5, <3>1
    <3>2. CASE e \in Elems(c.arrays[t])
      BY <1>1, <3>2 DEF Awaited
    <3> QED BY <1>14, <3>1, <3>2
  <2> QED BY <1>1, <1>10, <2>1 DEF Awaited
<1>20. Good(x, B, F, n)
  BY <1>1, <1>10, <1>13, <1>18, <1>19, NumberedSame DEF Good
<1>21. ASSUME NEW m \in LineSet
       PROVE  Peek(x, m, B[m]) = IF m = l THEN d ELSE Peek(c, m, B[m])
  <2>1. SetOf(m) \in SetIds
    BY SetOfRange
  <2>2. CASE m = l
    <3>1. new \in Elems(x.arrays[SetOf(m)]) /\ new.line = m
      BY <1>5, <1>8, <1>11, <2>2
    <3> QED BY <1>5, <1>13, <1>18, <2>2, <3>1, PeekIs
  <2>3. CASE m # l
    <3>1. CASE \E e \in Elems(c.arrays[SetOf(m)]) : e.line = m
      <4>1. PICK e \in Elems(c.arrays[SetOf(m)]) : e.line = m
        BY <3>1
      <4>2. Peek(c, m, B[m]) = e.data
        BY <1>1, <4>1, PeekIs
      <4>3. CASE e \in Elems(x.arrays[SetOf(m)])
        BY <1>13, <1>18, <2>3, <4>1, <4>2, <4>3, PeekIs
      <4>4. CASE e \notin Elems(x.arrays[SetOf(m)])
        <5>1. full /\ e = v /\ SetOf(m) = s
          BY <1>6, <1>8, <1>11, <2>1, <4>1, <4>4
        <5>2. CASE evict
          <6>1. gone \in Elems(x.wbq) /\ gone.line = m /\ gone.data = e.data
            BY <1>12, <4>1, <5>1, <5>2 DEF gone
          <6> QED BY <1>13, <1>18, <2>3, <4>2, <6>1, PeekIs
        <5>3. CASE ~evict
          <6>1. ~e.dirty /\ e.data = B[m]
            BY <1>1, <2>1, <4>1, <5>1, <5>3 DEF evict, v, Awaited
          <6>2. NoHome(x, m)
            <7>1. \A a \in Elems(x.arrays[SetOf(m)]) : a.line # m
              BY <1>5, <1>14, <2>1, <2>3, <4>1, <5>1
            <7>2. \A w \in Elems(x.wbq) : w.line # m
              BY <1>1, <1>12, <2>1, <4>1, <5>3 DEF Apart
            <7>3. \A i \in Occupied(x) : x.mshrs[i].line # m
              BY <1>1, <1>10, <1>17, <2>1, <4>1 DEF Apart
            <7> QED BY <7>1, <7>2, <7>3 DEF NoHome
          <6>3. Peek(x, m, B[m]) = B[m]
            BY <1>13, <1>18, <6>2, PeekIs
          <6> QED BY <2>3, <4>2, <6>1, <6>3
        <5> QED BY <5>2, <5>3
      <4> QED BY <4>3, <4>4
    <3>2. CASE \E w \in Elems(c.wbq) : w.line = m
      <4>1. PICK w \in Elems(c.wbq) : w.line = m
        BY <3>2
      <4>2. w \in Elems(x.wbq)
        BY <1>12, <4>1
      <4> QED BY <1>1, <1>13, <1>18, <2>3, <4>1, <4>2, PeekIs
    <3>3. CASE \E i \in Occupied(c) : c.mshrs[i].line = m
      <4>1. PICK i \in Occupied(c) : c.mshrs[i].line = m
        BY <3>3
      <4>2. Peek(c, m, B[m]) = Overlaid(c.mshrs[i].waiting, B[m])
        BY <1>1, <4>1, PeekIs
      <4>3. Peek(x, m, B[m]) = Overlaid(c.mshrs[i].waiting, B[m])
        BY <1>10, <1>13, <1>17, <1>18, <4>1, PeekIs
      <4> QED BY <2>3, <4>2, <4>3
    <3>4. CASE NoHome(c, m)
      <4>1. NoHome(x, m)
        <5>1. \A a \in Elems(x.arrays[SetOf(m)]) : a.line # m
          BY <1>5, <1>14, <2>1, <2>3, <3>4 DEF NoHome
        <5>2. evict => SetOf(v.line) = s
          BY <1>1, <1>3, <1>6 DEF Fits, evict
        <5>3. evict => v.line # m
          BY <1>16, <3>4, <5>2 DEF NoHome
        <5>4. \A w \in Elems(x.wbq) : w.line # m
          BY <1>15, <3>4, <5>3 DEF NoHome
        <5> QED BY <1>10, <1>17, <3>4, <5>1, <5>4 DEF NoHome
      <4>2. Peek(c, m, B[m]) = B[m] /\ Peek(x, m, B[m]) = B[m]
        BY <1>1, <1>13, <1>18, <3>4, <4>1, PeekIs
      <4> QED BY <2>3, <4>2
    <3> QED BY <3>1, <3>2, <3>3, <3>4 DEF NoHome
  <2> QED BY <2>2, <2>3
<1>22. Contents(x, B) = [Contents(c, B) EXCEPT ![l] = d]
  BY <1>21 DEF Contents
<1>23. p.way = Len(x.arrays[s]) /\ p.way \in 1 .. Len(x.arrays[s]) /\ x.arrays[s][p.way] = new
  BY <1>4, <1>6, <1>8, <1>11
<1> QED BY <1>10, <1>20, <1>22, <1>23 DEF p, x, new, Installed

-----------------------------------------------------------------------------
(* performOnLine and the answers.                                          *)

LEMMA ContentsSame ==
  ASSUME NEW c, NEW x, NEW B,
         x.arrays = c.arrays, x.wbq = c.wbq, x.mshrs = c.mshrs
  PROVE  Contents(x, B) = Contents(c, B)
BY DEF Contents, Peek, InArrays, InWbq, MshrFor, Occupied

LEMMA WrittenType ==
  ASSUME NEW req \in Asked, NEW line \in LineData
  PROVE  Written(req, line) \in LineData /\ (~req.write => Written(req, line) = line)
<1>1. req.write => req.data \in [req.bytes -> Datum]
  BY DEF Asked
<1>2. \A o \in Offsets : line[o] \in Datum
  BY DEF LineData
<1>3. \A o \in Offsets :
        (IF req.write /\ o \in req.bytes THEN req.data[o] ELSE line[o]) \in Datum
  BY <1>1, <1>2
<1>4. Written(req, line) \in LineData
  BY <1>3 DEF Written, LineData
<1>5. ASSUME ~req.write PROVE Written(req, line) = line
  <2>1. Written(req, line) = [o \in Offsets |-> line[o]]
    BY <1>5 DEF Written
  <2> QED BY <2>1 DEF LineData
<1> QED BY <1>4, <1>5

LEMMA AnswerType ==
  ASSUME NEW req \in Asked, NEW line \in LineData
  PROVE  Answer(req, line) \in Reply /\ Answer(req, line).tag = req.tag
<1>1. req \in AnyAsked
  BY DEF Asked
<1>2. req.src \in {0} /\ req.tag \in Datum /\ req.bytes \in SUBSET Offsets
  BY <1>1 DEF AnyAsked
<1> DEFINE S == IF req.write THEN {} ELSE req.bytes
<1>3. S \in SUBSET Offsets /\ \A o \in S : line[o] \in Datum
  BY <1>2 DEF LineData
<1> HIDE DEF S
<1>4. [o \in S |-> line[o]] \in [S -> Datum]
  BY <1>3
<1>5. [o \in S |-> line[o]] \in PartData
  BY <1>3, <1>4 DEF PartData
<1>6. Answer(req, line) = [src |-> req.src, tag |-> req.tag, data |-> [o \in S |-> line[o]]]
  BY DEF Answer, S
<1> QED BY <1>2, <1>5, <1>6 DEF Reply

LEMMA ContentsAt ==
  ASSUME NEW c, NEW B, NEW F, NEW n, Good(c, B, F, n),
         NEW s \in SetIds, NEW e \in Elems(c.arrays[s])
  PROVE  /\ e \in Stored /\ e.line \in LineSet /\ SetOf(e.line) = s
         /\ e.data \in LineData /\ Contents(c, B)[e.line] = e.data
<1>1. Fits(c) /\ Apart(c) /\ c \in CacheState
  BY DEF Good, Fits
<1>2. c.arrays[s] \in Seq(Stored)
  BY <1>1, StateParts
<1>3. e \in Stored /\ SetOf(e.line) = s
  BY <1>1, <1>2 DEF Elems, Fits
<1>4. e.line \in LineSet /\ e.data \in LineData
  BY <1>3 DEF Stored
<1>5. Peek(c, e.line, B[e.line]) = e.data
  BY <1>1, <1>3, <1>4, PeekIs
<1> QED BY <1>3, <1>4, <1>5 DEF Contents

(* From c the request was performed at position k of set s.                *)
Performed(c, B, F, n, s, k, req) ==
  LET p == Perform(c, s, k, req)
      x == p.cache
      q == x.arrays[s]
  IN  /\ Good(x, B, F, n)
      /\ p.answer = Answer(req, Contents(c, B)[req.line])
      /\ Len(q) = Len(c.arrays[s]) /\ Len(q) \in 1 .. Len(q)
      /\ q[Len(q)].line = req.line
      /\ x.mshrs = c.mshrs /\ x.wbq = c.wbq /\ x.installs = c.installs
      /\ x.hits = c.hits /\ x.resp = c.resp
      /\ Contents(x, B) = [Contents(c, B) EXCEPT ![req.line] = Written(req, @)]

LEMMA PerformGood ==
  ASSUME NEW c, NEW B, NEW F, NEW n, Good(c, B, F, n), NEW s \in SetIds,
         NEW k \in 1 .. Len(c.arrays[s]),
         NEW req \in Asked, req.line = c.arrays[s][k].line
  PROVE  Performed(c, B, F, n, s, k, req)
<1> DEFINE p == Perform(c, s, k, req)
           x == p.cache
           q == c.arrays[s]
           e == q[k]
           new == [e EXCEPT !.data = Written(req, e.data), !.dirty = e.dirty \/ req.write]
           rest == RemoveAt(q, k)
           l == req.line
<1>1. c \in CacheState /\ Fits(c) /\ Apart(c) /\ Awaited(c, B, F) /\ Numbered(c, n)
      /\ B \in [LineSet -> LineData] /\ n \in Datum
  BY DEF Good, Fits
<1>2. /\ c.arrays \in [SetIds -> Seq(Stored)] /\ c.mshrs \in [MshrIds -> MissState]
      /\ c.wbq \in Seq(Victim) /\ c.installs \in Seq(Delayed)
      /\ c.hits \in Seq(Reply) /\ c.resp \in Seq(Reply)
  BY <1>1, StateParts
<1>3. q \in Seq(Stored) /\ LinesDiffer(q) /\ e \in Elems(q)
  BY <1>1, <1>2 DEF Apart, Elems
<1>4. /\ e \in Stored /\ l \in LineSet /\ SetOf(l) = s
      /\ e.data \in LineData /\ Contents(c, B)[l] = e.data /\ e.line = l
  BY <1>3, ContentsAt
<1>5. /\ p.answer = Answer(req, e.data)
      /\ x = [arrays |-> [c.arrays EXCEPT ![s] = Append(rest, new)],
              mshrs |-> c.mshrs, wbq |-> c.wbq, installs |-> c.installs,
              hits |-> c.hits, resp |-> c.resp]
  <2> DEFINE A == c.arrays
             M == c.mshrs
             W == c.wbq
             I == c.installs
             H == c.hits
             R == c.resp
  <2>1. c = [arrays |-> A, mshrs |-> M, wbq |-> W, installs |-> I, hits |-> H, resp |-> R]
    BY <1>1, StateParts
  <2>2. A \in [SetIds -> Seq(Stored)]
    BY <1>2
  <2> HIDE DEF A, M, W, I, H, R
  <2>3. c.arrays = A /\ c.mshrs = M /\ c.wbq = W /\ c.installs = I /\ c.hits = H /\ c.resp = R
    BY DEF A, M, W, I, H, R
  <2> QED BY <2>1, <2>2, <2>3 DEF Perform
<1>6. Written(req, e.data) \in LineData /\ (~req.write => Written(req, e.data) = e.data)
  BY <1>4, WrittenType
<1>7. e.dirty \in BOOLEAN /\ (e.dirty \/ req.write) \in BOOLEAN
  BY <1>4 DEF Stored
<1>8. /\ new \in Stored /\ new.line = l /\ new.data = Written(req, e.data)
      /\ ~new.dirty => ~e.dirty /\ new.data = e.data
  <2>1. e = [line |-> e.line, data |-> e.data, dirty |-> e.dirty]
    BY <1>4 DEF Stored
  <2> DEFINE wd == Written(req, e.data)
             wy == e.dirty \/ req.write
             el == e.line
             ed == e.data
             ey == e.dirty
  <2>2. new = [line |-> el, data |-> wd, dirty |-> wy]
    <3>1. e = [line |-> el, data |-> ed, dirty |-> ey] /\ new = [e EXCEPT !.data = wd, !.dirty = wy]
      BY <2>1
    <3> HIDE DEF el, ed, ey, wd, wy, e, new
    <3> QED BY <3>1
  <2>3. el \in LineSet /\ wd \in LineData /\ wy \in BOOLEAN /\ el = l
    BY <1>4, <1>6, <1>7
  <2>4. ~wy => ~e.dirty /\ wd = e.data
    BY <1>6
  <2> HIDE DEF el, ed, ey, wd, wy, e, new
  <2>5. new.line = el /\ new.data = wd /\ new.dirty = wy
    BY <2>2
  <2>6. new \in Stored
    BY <2>2, <2>3 DEF Stored
  <2> QED BY <2>3, <2>4, <2>5, <2>6 DEF wd
<1>9. /\ rest \in Seq(Stored) /\ Len(q) \in Nat /\ Len(rest) = Len(q) - 1
      /\ LinesDiffer(rest) /\ Elems(rest) = Elems(q) \ {e}
      /\ \A a \in Elems(rest) : a.line # l
  <2>1. e.line = l
    BY <1>4
  <2>2. /\ rest \in Seq(Stored) /\ Len(q) \in Nat /\ Len(rest) = Len(q) - 1
    BY <1>3, RemoveSeq
  <2>3. LinesDiffer(rest) /\ Elems(rest) = Elems(q) \ {q[k]} /\ \A a \in Elems(rest) : a.line # q[k].line
    BY <1>3, RemoveLine
  <2> HIDE DEF rest
  <2> QED BY <2>1, <2>2, <2>3
<1> HIDE DEF p, x, new, rest, e
<1>10. /\ Append(rest, new) \in Seq(Stored) /\ Len(Append(rest, new)) = Len(q)
       /\ Append(rest, new)[Len(q)] = new
       /\ Elems(Append(rest, new)) = Elems(rest) \cup {new}
       /\ LinesDiffer(Append(rest, new))
  BY <1>8, <1>9, AppendSeq, AppendLine
<1>11. /\ x.arrays = [c.arrays EXCEPT ![s] = Append(rest, new)] /\ x.mshrs = c.mshrs
       /\ x.wbq = c.wbq /\ x.installs = c.installs /\ x.hits = c.hits /\ x.resp = c.resp
  BY <1>5
<1>12. /\ x.arrays \in [SetIds -> Seq(Stored)]
       /\ x.arrays[s] = Append(rest, new)
       /\ \A t \in SetIds : t # s => x.arrays[t] = c.arrays[t]
  BY <1>2, <1>10, <1>11
(* Same lines as before: only the data and the dirty bit of one changed.   *)
<1>13. ASSUME NEW t \in SetIds, NEW a \in Elems(x.arrays[t])
       PROVE  \/ a = new /\ t = s
              \/ a \in Elems(c.arrays[t]) /\ a.line # l
  <2>1. CASE t = s
    BY <1>9, <1>10, <1>12, <2>1
  <2>2. CASE t # s
    <3>1. a \in Elems(c.arrays[t]) /\ SetOf(a.line) = t
      BY <1>1, <1>12, <2>2 DEF Fits
    <3> QED BY <1>4, <2>2, <3>1
  <2> QED BY <2>1, <2>2
<1>14. Fits(x)
  <2>1. x \in CacheState
    BY <1>2, <1>5, <1>12 DEF CacheState
  <2>2. ASSUME NEW t \in SetIds
        PROVE  Len(x.arrays[t]) <= Ways /\ \A a \in Elems(x.arrays[t]) : SetOf(a.line) = t
    <3>1. Len(x.arrays[t]) <= Ways
      BY <1>1, <1>10, <1>12 DEF Fits
    <3>2. \A a \in Elems(x.arrays[t]) : SetOf(a.line) = t
      BY <1>1, <1>4, <1>8, <1>13 DEF Fits
    <3> QED BY <3>1, <3>2
  <2> QED BY <1>1, <1>11, <2>1, <2>2 DEF Fits
<1>15. Occupied(x) = Occupied(c)
  BY <1>11 DEF Occupied
<1>16. Apart(x)
  <2>1. \A t \in SetIds : LinesDiffer(x.arrays[t])
    BY <1>1, <1>10, <1>12 DEF Apart
  <2>2. ASSUME NEW t \in SetIds, NEW a \in Elems(x.arrays[t])
        PROVE  \E b \in Elems(c.arrays[t]) : b.line = a.line
    BY <1>3, <1>4, <1>8, <1>13
  <2>3. ASSUME NEW t \in SetIds, NEW a \in Elems(x.arrays[t])
        PROVE  /\ \A w \in Elems(c.wbq) : a.line # w.line
               /\ \A i \in Occupied(c) : a.line # c.mshrs[i].line
    BY <1>1, <2>2 DEF Apart
  <2> QED BY <1>1, <1>11, <1>15, <2>1, <2>3 DEF Apart
<1>17. Awaited(x, B, F)
  <2>1. ASSUME NEW t \in SetIds, NEW a \in Elems(x.arrays[t])
        PROVE  a.dirty \/ a.data = B[a.line]
    <3>1. CASE a = new
      BY <1>1, <1>3, <1>4, <1>8, <3>1 DEF Awaited
    <3>2. CASE a \in Elems(c.arrays[t])
      BY <1>1, <3>2 DEF Awaited
    <3> QED BY <1>13, <3>1, <3>2
  <2> QED BY <1>1, <1>11, <2>1 DEF Awaited
<1>18. Good(x, B, F, n)
  BY <1>1, <1>11, <1>14, <1>16, <1>17, NumberedSame DEF Good
<1>19. ASSUME NEW m \in LineSet
       PROVE  Peek(x, m, B[m]) = IF m = l THEN Written(req, e.data) ELSE Peek(c, m, B[m])
  <2>1. SetOf(m) \in SetIds
    BY SetOfRange
  <2>2. CASE m = l
    <3>1. new \in Elems(x.arrays[SetOf(m)]) /\ new.line = m
      BY <1>4, <1>8, <1>10, <1>12, <2>2
    <3> QED BY <1>8, <1>14, <1>16, <2>2, <3>1, PeekIs
  <2>3. CASE m # l
    <3>1. ASSUME NEW a, a.line = m
          PROVE  a \in Elems(c.arrays[SetOf(m)]) <=> a \in Elems(x.arrays[SetOf(m)])
      BY <1>4, <1>8, <1>9, <1>10, <1>12, <2>1, <2>3, <3>1
    <3>2. CASE \E a \in Elems(c.arrays[SetOf(m)]) : a.line = m
      BY <1>1, <1>14, <1>16, <2>3, <3>1, <3>2, PeekIs
    <3>3. CASE \E w \in Elems(c.wbq) : w.line = m
      BY <1>1, <1>11, <1>14, <1>16, <2>3, <3>3, PeekIs
    <3>4. CASE \E i \in Occupied(c) : c.mshrs[i].line = m
      <4>1. PICK i \in Occupied(c) : c.mshrs[i].line = m
        BY <3>4
      <4>2. Peek(c, m, B[m]) = Overlaid(c.mshrs[i].waiting, B[m])
        BY <1>1, <4>1, PeekIs
      <4>3. Peek(x, m, B[m]) = Overlaid(c.mshrs[i].waiting, B[m])
        BY <1>11, <1>14, <1>15, <1>16, <4>1, PeekIs
      <4> QED BY <2>3, <4>2, <4>3
    <3>5. CASE NoHome(c, m)
      <4>1. NoHome(x, m)
        BY <1>11, <1>15, <3>1, <3>5 DEF NoHome
      <4> QED BY <1>1, <1>14, <1>16, <2>3, <3>5, <4>1, PeekIs
    <3> QED BY <3>2, <3>3, <3>4, <3>5 DEF NoHome
  <2> QED BY <2>2, <2>3
<1>20. Contents(x, B) = [Contents(c, B) EXCEPT ![l] = Written(req, @)]
  BY <1>4, <1>19 DEF Contents
<1>21. Len(x.arrays[s]) = Len(q) /\ Len(q) \in 1 .. Len(q) /\ x.arrays[s][Len(q)] = new
  BY <1>9, <1>10, <1>12
<1>22. p.answer = Answer(req, Contents(c, B)[l])
  BY <1>4, <1>5
<1> HIDE DEF q, l
<1>23. x.arrays[s][Len(x.arrays[s])].line = l
  BY <1>8, <1>21
<1> QED BY <1>11, <1>18, <1>20, <1>21, <1>22, <1>23 DEF p, x, q, l, Performed

-----------------------------------------------------------------------------
(* The answers a cache owes, and adding one.                               *)

Note(a) == [tag |-> a.tag, data |-> a.data]

(* What the request j on the list of MSHR i will be answered.              *)
Promise(c, B, i, j) ==
  LET m == c.mshrs[i] IN
  Answer(m.waiting[j], Overlaid(SubSeq(m.waiting, 1, j - 1), B[m.line]))

Promises(c, B, i) == {Note(Promise(c, B, i, j)) : j \in 1 .. Len(c.mshrs[i].waiting)}

Due(c, B) ==
  {Note(a) : a \in Elems(c.hits)} \cup {Note(a) : a \in Elems(c.resp)}
    \cup UNION {Promises(c, B, i) : i \in MshrIds}

(* From c to x the request took effect and was answered or promised.       *)
Served(c, x, B, F, n, req) ==
  /\ Good(x, B, F, n)
  /\ Contents(x, B) = [Contents(c, B) EXCEPT ![req.line] = Written(req, @)]
  /\ Due(x, B) = Due(c, B) \cup {Note(Answer(req, Contents(c, B)[req.line]))}

(* No answer and no waiting request carries the number t.                  *)
Fresh(c, t) ==
  /\ \A a \in Elems(c.resp) \cup Elems(c.hits) : a.tag # t
  /\ \A i \in MshrIds : \A j \in 1 .. Len(c.mshrs[i].waiting) : c.mshrs[i].waiting[j].tag # t

LEMMA PromisesSame ==
  ASSUME NEW c, NEW x, NEW B, x.mshrs = c.mshrs
  PROVE  \A i : Promises(x, B, i) = Promises(c, B, i)
BY DEF Promises, Promise

LEMMA DueSame ==
  ASSUME NEW c, NEW x, NEW B, x.mshrs = c.mshrs, x.hits = c.hits, x.resp = c.resp
  PROVE  Due(x, B) = Due(c, B)
BY PromisesSame DEF Due

(* From c to x an answer joined a list of answers.                         *)
Listed(c, x, B, F, n, a) ==
  /\ Good(x, B, F, n)
  /\ x.arrays = c.arrays
  /\ Contents(x, B) = Contents(c, B)
  /\ Due(x, B) = Due(c, B) \cup {Note(a)}

LEMMA AnswerListed ==
  ASSUME NEW c, NEW B, NEW F, NEW n, Good(c, B, F, n),
         NEW a \in Reply, a.tag <= n, Fresh(c, a.tag),
         NEW x, \/ x = [c EXCEPT !.resp = Append(@, a)]
                \/ x = [c EXCEPT !.hits = Append(@, a)]
  PROVE  Listed(c, x, B, F, n, a)
<1>1. c \in CacheState /\ Fits(c) /\ Apart(c) /\ Awaited(c, B, F) /\ Numbered(c, n)
      /\ B \in [LineSet -> LineData] /\ n \in Datum
  BY DEF Good, Fits
<1>2. /\ c.arrays \in [SetIds -> Seq(Stored)] /\ c.mshrs \in [MshrIds -> MissState]
      /\ c.wbq \in Seq(Victim) /\ c.installs \in Seq(Delayed)
      /\ c.hits \in Seq(Reply) /\ c.resp \in Seq(Reply)
      /\ c = [arrays |-> c.arrays, mshrs |-> c.mshrs, wbq |-> c.wbq,
              installs |-> c.installs, hits |-> c.hits, resp |-> c.resp]
  BY <1>1, StateParts
<1>3. PICK R, H :
        /\ x = [arrays |-> c.arrays, mshrs |-> c.mshrs, wbq |-> c.wbq,
                installs |-> c.installs, hits |-> H, resp |-> R]
        /\ \/ R = Append(c.resp, a) /\ H = c.hits
           \/ R = c.resp /\ H = Append(c.hits, a)
  <2> DEFINE A == c.arrays
             M == c.mshrs
             W == c.wbq
             I == c.installs
             h == c.hits
             r == c.resp
  <2>1. c = [arrays |-> A, mshrs |-> M, wbq |-> W, installs |-> I, hits |-> h, resp |-> r]
    BY <1>2
  <2> HIDE DEF A, M, W, I, h, r
  <2>2. c.arrays = A /\ c.mshrs = M /\ c.wbq = W /\ c.installs = I /\ c.hits = h /\ c.resp = r
    BY DEF A, M, W, I, h, r
  <2>3. CASE x = [c EXCEPT !.resp = Append(@, a)]
    <3>1. x = [arrays |-> A, mshrs |-> M, wbq |-> W, installs |-> I, hits |-> h,
               resp |-> Append(r, a)]
      BY <2>1, <2>3
    <3> QED BY <2>2, <3>1
  <2>4. CASE x = [c EXCEPT !.hits = Append(@, a)]
    <3>1. x = [arrays |-> A, mshrs |-> M, wbq |-> W, installs |-> I, hits |-> Append(h, a),
               resp |-> r]
      BY <2>1, <2>4
    <3> QED BY <2>2, <3>1
  <2> QED BY <2>3, <2>4
<1>4. /\ x.arrays = c.arrays /\ x.mshrs = c.mshrs /\ x.wbq = c.wbq
      /\ x.installs = c.installs /\ x.hits = H /\ x.resp = R
  BY <1>3
<1>5. TagsDiffer(c.resp) /\ TagsDiffer(c.hits)
  BY <1>1 DEF Numbered
<1>6. /\ \A b \in Elems(c.resp) : b.tag # a.tag
      /\ \A b \in Elems(c.hits) : b.tag # a.tag
  BY DEF Fresh
<1>7. /\ R \in Seq(Reply) /\ H \in Seq(Reply) /\ TagsDiffer(R) /\ TagsDiffer(H)
      /\ \/ Elems(R) = Elems(c.resp) \cup {a} /\ Elems(H) = Elems(c.hits)
         \/ Elems(R) = Elems(c.resp) /\ Elems(H) = Elems(c.hits) \cup {a}
  <2>1. CASE R = Append(c.resp, a) /\ H = c.hits
    BY <1>2, <1>5, <1>6, <2>1, AppendSeq, AppendTag
  <2>2. CASE R = c.resp /\ H = Append(c.hits, a)
    BY <1>2, <1>5, <1>6, <2>2, AppendSeq, AppendTag
  <2> QED BY <1>3, <2>1, <2>2
<1>8. Occupied(x) = Occupied(c)
  BY <1>4 DEF Occupied
<1>9. x \in CacheState
  BY <1>2, <1>3, <1>7 DEF CacheState
<1>10. Fits(x)
  BY <1>1, <1>4, <1>9 DEF Fits
<1>11. Apart(x)
  BY <1>1, <1>4, <1>8 DEF Apart
<1>12. Awaited(x, B, F)
  BY <1>1, <1>4 DEF Awaited
<1>13. Numbered(x, n)
  <2>1. \A b \in Elems(x.resp), d \in Elems(x.hits) : b.tag # d.tag
    BY <1>1, <1>4, <1>6, <1>7 DEF Numbered
  <2>2. \A b \in Elems(x.resp) \cup Elems(x.hits) : b \in Elems(c.resp) \cup Elems(c.hits) \/ b = a
    BY <1>4, <1>7
  <2>3. \A b \in Elems(x.resp) \cup Elems(x.hits) : b.tag <= n
    BY <1>1, <2>2 DEF Numbered
  <2>4. ASSUME NEW i \in MshrIds, NEW j \in 1 .. Len(c.mshrs[i].waiting)
        PROVE  LET t == c.mshrs[i].waiting[j].tag IN
               /\ t <= n
               /\ \A b \in Elems(x.resp) \cup Elems(x.hits) : b.tag # t
               /\ \A k \in MshrIds : \A y \in 1 .. Len(c.mshrs[k].waiting) :
                    c.mshrs[k].waiting[y].tag = t => k = i /\ y = j
    BY <1>1, <2>2 DEF Numbered, Fresh
  <2> QED BY <1>4, <1>7, <2>1, <2>3, <2>4 DEF Numbered
<1>14. Contents(x, B) = Contents(c, B)
  BY <1>4, ContentsSame
<1>15. Due(x, B) = Due(c, B) \cup {Note(a)}
  <2>1. \A i : Promises(x, B, i) = Promises(c, B, i)
    BY <1>4, PromisesSame
  <2> QED BY <1>4, <1>7, <2>1 DEF Due
<1> QED BY <1>1, <1>4, <1>10, <1>11, <1>12, <1>13, <1>14, <1>15 DEF Good, Listed

LEMMA ReserveHitGood ==
  ASSUME NEW c, NEW B, NEW F, NEW n, Good(c, B, F, n),
         NEW a \in Reply, a.tag <= n, Fresh(c, a.tag)
  PROVE  LET x == ReserveHit(c, a)
         IN  /\ Good(x, B, F, n)
             /\ Contents(x, B) = Contents(c, B)
             /\ Due(x, B) = Due(c, B) \cup {Note(a)}
<1> DEFINE x == ReserveHit(c, a)
<1>1. \/ x = [c EXCEPT !.resp = Append(@, a)]
      \/ x = [c EXCEPT !.hits = Append(@, a)]
  BY DEF ReserveHit
<1> HIDE DEF x
<1>2. /\ Good(x, B, F, n) /\ Contents(x, B) = Contents(c, B)
      /\ Due(x, B) = Due(c, B) \cup {Note(a)}
  BY <1>1, AnswerListed DEF Listed
<1> QED BY <1>2 DEF x

LEMMA FreshSame ==
  ASSUME NEW c, NEW x, NEW t, Fresh(c, t),
         x.mshrs = c.mshrs, x.hits = c.hits, x.resp = c.resp
  PROVE  Fresh(x, t)
BY DEF Fresh

(* A request to a line that is present takes effect and is answered.       *)
LEMMA ServeHitGood ==
  ASSUME NEW c, NEW B, NEW F, NEW n, Good(c, B, F, n), NEW s \in SetIds,
         NEW k \in 1 .. Len(c.arrays[s]),
         NEW req \in Asked, req.line = c.arrays[s][k].line,
         req.tag <= n, Fresh(c, req.tag)
  PROVE  Served(c, ServeHit(c, s, k, req), B, F, n, req)
<1> DEFINE p == Perform(c, s, k, req)
           y == p.cache
           a == p.answer
           x == ServeHit(c, s, k, req)
<1>1. x = ReserveHit(y, a)
  BY DEF ServeHit
<1>2. /\ Good(y, B, F, n) /\ a = Answer(req, Contents(c, B)[req.line])
      /\ y.mshrs = c.mshrs /\ y.hits = c.hits /\ y.resp = c.resp
      /\ Contents(y, B) = [Contents(c, B) EXCEPT ![req.line] = Written(req, @)]
  <2>1. Performed(c, B, F, n, s, k, req)
    BY PerformGood
  <2> QED BY <2>1 DEF Performed
<1>3. c.arrays[s][k] \in Elems(c.arrays[s])
  BY DEF Elems
<1>4. Contents(c, B)[req.line] \in LineData
  BY <1>3, ContentsAt
<1> HIDE DEF p, y, a, x
<1>5. a \in Reply /\ a.tag = req.tag
  BY <1>2, <1>4, AnswerType
<1>6. Fresh(y, a.tag) /\ Due(y, B) = Due(c, B)
  BY <1>2, <1>5, FreshSame, DueSame
<1>7. /\ Good(x, B, F, n) /\ Contents(x, B) = Contents(y, B)
      /\ Due(x, B) = Due(y, B) \cup {Note(a)}
  <2>1. a.tag <= n
    BY <1>5
  <2>2. LET r == ReserveHit(y, a)
        IN  /\ Good(r, B, F, n) /\ Contents(r, B) = Contents(y, B)
            /\ Due(r, B) = Due(y, B) \cup {Note(a)}
    <3>1. Good(y, B, F, n) /\ a \in Reply /\ Fresh(y, a.tag)
      BY <1>2, <1>5, <1>6
    <3> QED BY <2>1, <3>1, ReserveHitGood
  <2> QED BY <1>1, <2>2
<1> QED BY <1>2, <1>6, <1>7 DEF x, Served

-----------------------------------------------------------------------------
(* access: the request takes effect at once, wherever its line is.         *)

LEMMA FinalIn ==
  ASSUME NEW n \in Nat, NEW S, S \subseteq 1 .. n, S # {}
  PROVE  Final(S) \in S /\ \A y \in S : Final(S) >= y
<1>1. S \subseteq 0 .. n
  OBVIOUS
<1>2. PICK m \in S : \A x \in S : x <= m
  BY <1>1, MaxExists
<1>3. \A y \in S : m >= y
  BY <1>1, <1>2
<1> QED BY <1>3 DEF Final

(* A write that joins the list overlays what the list says.                *)
LEMMA OverlaidAppend ==
  ASSUME NEW w \in Seq(Asked), NEW req \in Asked, NEW b
  PROVE  Overlaid(Append(w, req), b) = Written(req, Overlaid(w, b))
<1> DEFINE n == Len(w)
           v == Append(w, req)
<1>1. /\ v \in Seq(Asked) /\ n \in Nat /\ Len(v) = n + 1
      /\ v[n + 1] = req /\ \A j \in 1 .. n : v[j] = w[j]
  BY AppendSeq
<1>2. DOMAIN v = 1 .. n + 1 /\ DOMAIN w = 1 .. n
  BY <1>1
<1> HIDE DEF v, n
<1>3. ASSUME NEW o \in Offsets
      PROVE  Overlaid(v, b)[o] =
               IF req.write /\ o \in req.bytes THEN req.data[o] ELSE Overlaid(w, b)[o]
  <2> DEFINE W == WritesTo(o, w)
             V == WritesTo(o, v)
  <2>1. W = {j \in 1 .. n : w[j].write /\ o \in w[j].bytes}
    BY <1>2 DEF WritesTo
  <2>2. V = {j \in 1 .. n + 1 : v[j].write /\ o \in v[j].bytes}
    BY <1>2 DEF WritesTo
  <2>3. Overlaid(v, b)[o] = IF V = {} THEN b[o] ELSE v[Final(V)].data[o]
    BY DEF Overlaid
  <2>4. Overlaid(w, b)[o] = IF W = {} THEN b[o] ELSE w[Final(W)].data[o]
    BY DEF Overlaid
  <2> HIDE DEF V, W
  <2>5. n + 1 \in Nat /\ n + 1 \in 1 .. n + 1 /\ V \subseteq 1 .. n + 1 /\ W \subseteq 1 .. n
    BY <1>1, <2>1, <2>2
  <2>6. CASE req.write /\ o \in req.bytes
    <3>1. n + 1 \in V
      BY <1>1, <2>2, <2>5, <2>6
    <3>2. Final(V) \in V /\ Final(V) >= n + 1
      BY <2>5, <3>1, FinalIn
    <3>3. Final(V) \in 1 .. n + 1
      BY <2>5, <3>2
    <3>4. Final(V) = n + 1
      BY <1>1, <3>2, <3>3
    <3> QED BY <1>1, <2>3, <2>6, <3>1, <3>4
  <2>7. CASE ~(req.write /\ o \in req.bytes)
    <3>1. \A j \in 1 .. n + 1 : j \in 1 .. n \/ j = n + 1
      BY <1>1
    <3>2. \A j \in 1 .. n : j \in 1 .. n + 1
      BY <1>1
    <3>3. V = W
      BY <1>1, <2>1, <2>2, <2>7, <3>1, <3>2
    <3>4. W # {} => Final(W) \in 1 .. n
      BY <1>1, <2>5, FinalIn
    <3> QED BY <1>1, <2>3, <2>4, <2>7, <3>3, <3>4
  <2> QED BY <2>6, <2>7
<1>4. Overlaid(v, b) = [o \in Offsets |-> Overlaid(v, b)[o]]
  BY DEF Overlaid
<1>5. Overlaid(v, b) = Written(req, Overlaid(w, b))
  BY <1>3, <1>4 DEF Written
<1> QED BY <1>5 DEF v

LEMMA OverlaidEmpty ==
  ASSUME NEW b \in LineData
  PROVE  Overlaid(<<>>, b) = b
<1>1. \A o : WritesTo(o, <<>>) = {}
  BY DEF WritesTo
<1>2. Overlaid(<<>>, b) = [o \in Offsets |-> b[o]]
  BY <1>1 DEF Overlaid
<1> QED BY <1>2 DEF LineData

LEMMA NextNumber ==
  ASSUME NEW c, NEW B, NEW F, NEW n, Good(c, B, F, n), n + 1 \in Datum
  PROVE  Good(c, B, F, n + 1) /\ Fresh(c, n + 1)
<1>1. n \in Nat /\ c \in CacheState /\ Numbered(c, n)
  BY PortAssumption DEF Good, Fits, Datum
<1>2. /\ c.mshrs \in [MshrIds -> MissState]
      /\ c.hits \in Seq(Reply) /\ c.resp \in Seq(Reply)
  BY <1>1, StateParts
<1>3. \A a \in Elems(c.resp) \cup Elems(c.hits) : a.tag \in Nat /\ a.tag <= n
  <2>1. ASSUME NEW q \in Seq(Reply), NEW a \in Elems(q) PROVE a.tag \in Nat
    <3>1. PICK k \in 1 .. Len(q) : a = q[k]
      BY DEF Elems
    <3>2. a \in Reply
      BY <3>1
    <3> QED BY <3>2, PortAssumption DEF Reply, Datum
  <2> QED BY <1>1, <1>2, <2>1 DEF Numbered
<1>4. \A i \in MshrIds : \A j \in 1 .. Len(c.mshrs[i].waiting) :
        c.mshrs[i].waiting[j].tag \in Nat /\ c.mshrs[i].waiting[j].tag <= n
  <2>1. ASSUME NEW i \in MshrIds, NEW j \in 1 .. Len(c.mshrs[i].waiting)
        PROVE  c.mshrs[i].waiting[j].tag \in Nat
    <3>1. c.mshrs[i].waiting \in Seq(Asked)
      BY <1>2 DEF MissState
    <3>2. c.mshrs[i].waiting[j] \in AnyAsked
      BY <3>1 DEF Asked
    <3> QED BY <3>2, PortAssumption DEF AnyAsked, Datum
  <2> QED BY <1>1, <2>1 DEF Numbered
<1>5. Fresh(c, n + 1)
  BY <1>1, <1>3, <1>4 DEF Fresh
<1>6. Numbered(c, n + 1)
  BY <1>1, <1>3, <1>4 DEF Numbered
<1> QED BY <1>5, <1>6 DEF Good

(* A request joins the list of an MSHR that awaits its line, or of a free  *)
(* one when none does.                                                     *)
LEMMA JoinMiss ==
  ASSUME NEW c, NEW B, NEW F, NEW n, Good(c, B, F, n), n + 1 \in Datum,
         NEW req \in Asked, req.tag = n + 1, NEW i \in MshrIds,
         \A e \in Elems(c.arrays[SetOf(req.line)]) : e.line # req.line,
         \A v \in Elems(c.wbq) : v.line # req.line,
         \A k \in Occupied(c) : c.mshrs[k].line = req.line => k = i,
         NEW M \in [MshrIds -> MissState],
         \A k \in MshrIds : k # i => M[k] = c.mshrs[k],
         M[i].valid, M[i].line = req.line, M[i].waiting = Append(c.mshrs[i].waiting, req),
         c.mshrs[i].valid => c.mshrs[i].line = req.line /\ M[i].sent = c.mshrs[i].sent
  PROVE  Served(c, [c EXCEPT !.mshrs = M], B, F, n + 1, req)
<1> DEFINE x == [c EXCEPT !.mshrs = M]
           l == req.line
           w == c.mshrs[i].waiting
<1>1. c \in CacheState /\ Fits(c) /\ Apart(c) /\ Awaited(c, B, F) /\ Numbered(c, n)
      /\ B \in [LineSet -> LineData] /\ n \in Datum
  BY DEF Good, Fits
<1>2. /\ c.arrays \in [SetIds -> Seq(Stored)] /\ c.mshrs \in [MshrIds -> MissState]
      /\ c.wbq \in Seq(Victim) /\ c.installs \in Seq(Delayed)
      /\ c.hits \in Seq(Reply) /\ c.resp \in Seq(Reply)
  BY <1>1, StateParts
<1>3. x = [arrays |-> c.arrays, mshrs |-> M, wbq |-> c.wbq, installs |-> c.installs,
           hits |-> c.hits, resp |-> c.resp]
  <2> DEFINE A == c.arrays
             K == c.mshrs
             W == c.wbq
             I == c.installs
             h == c.hits
             r == c.resp
  <2>1. c = [arrays |-> A, mshrs |-> K, wbq |-> W, installs |-> I, hits |-> h, resp |-> r]
    BY <1>1, StateParts
  <2> HIDE DEF A, K, W, I, h, r
  <2>2. x = [arrays |-> A, mshrs |-> M, wbq |-> W, installs |-> I, hits |-> h, resp |-> r]
    BY <2>1
  <2> QED BY <2>2 DEF A, W, I, h, r
<1>4. l \in LineSet /\ SetOf(l) \in SetIds
  <2>1. req \in AnyAsked
    BY DEF Asked
  <2> QED BY <2>1, SetOfRange DEF AnyAsked
<1>5. w \in Seq(Asked) /\ (c.mshrs[i].valid <=> w # <<>>)
  BY <1>1, <1>2 DEF MissState, Awaited
<1> HIDE DEF x
<1>6. /\ x.arrays = c.arrays /\ x.mshrs = M /\ x.wbq = c.wbq /\ x.installs = c.installs
      /\ x.hits = c.hits /\ x.resp = c.resp
  BY <1>3
<1>7. /\ M[i].waiting \in Seq(Asked) /\ Len(w) \in Nat /\ Len(M[i].waiting) = Len(w) + 1
      /\ M[i].waiting[Len(w) + 1] = req
      /\ \A j \in 1 .. Len(w) : M[i].waiting[j] = w[j]
  <2> DEFINE t == Append(w, req)
  <2>1. M[i].waiting = t
    OBVIOUS
  <2> HIDE DEF w
  <2>2. /\ t \in Seq(Asked) /\ Len(w) \in Nat /\ Len(t) = Len(w) + 1
        /\ t[Len(t)] = req /\ \A j \in 1 .. Len(w) : t[j] = w[j]
    BY <1>5, AppendSeq
  <2> HIDE DEF t
  <2> QED BY <2>1, <2>2
<1>8. M[i].waiting # <<>>
  BY <1>7
<1>9. \A k \in MshrIds : \A j \in 1 .. Len(M[k].waiting) :
        \/ j \in 1 .. Len(c.mshrs[k].waiting) /\ M[k].waiting[j] = c.mshrs[k].waiting[j]
        \/ k = i /\ j = Len(w) + 1 /\ M[k].waiting[j] = req
  <2> SUFFICES ASSUME NEW k \in MshrIds, NEW j \in 1 .. Len(M[k].waiting)
               PROVE  \/ j \in 1 .. Len(c.mshrs[k].waiting)
                         /\ M[k].waiting[j] = c.mshrs[k].waiting[j]
                      \/ k = i /\ j = Len(w) + 1 /\ M[k].waiting[j] = req
    OBVIOUS
  <2>1. CASE k = i
    <3>1. j \in 1 .. Len(w) \/ j = Len(w) + 1
      BY <1>7, <2>1
    <3> QED BY <1>7, <2>1, <3>1
  <2>2. CASE k # i
    BY <2>2
  <2> QED BY <2>1, <2>2
<1>10. Fits(x)
  <2>1. x \in CacheState
    BY <1>2, <1>3 DEF CacheState
  <2> QED BY <1>1, <1>6, <2>1 DEF Fits
<1>11. /\ Occupied(x) = Occupied(c) \cup {i}
       /\ \A k \in Occupied(x) :
            /\ k \in MshrIds
            /\ \/ k \in Occupied(c) /\ M[k].line = c.mshrs[k].line
               \/ k = i /\ M[k].line = l
  <2>1. Occupied(x) = {k \in MshrIds : M[k].valid}
    BY <1>6 DEF Occupied
  <2>2. Occupied(c) = {k \in MshrIds : c.mshrs[k].valid}
    BY DEF Occupied
  <2>3. \A k \in MshrIds : M[k].valid <=> c.mshrs[k].valid \/ k = i
    OBVIOUS
  <2>4. Occupied(x) = Occupied(c) \cup {i}
    BY <2>1, <2>2, <2>3
  <2>5. \A k \in Occupied(c) : k \in MshrIds /\ (k # i => M[k].line = c.mshrs[k].line)
    BY <2>2
  <2>6. i \in MshrIds /\ M[i].line = l
    OBVIOUS
  <2>7. ASSUME NEW k \in Occupied(x)
        PROVE  /\ k \in MshrIds
               /\ \/ k \in Occupied(c) /\ M[k].line = c.mshrs[k].line
                  \/ k = i /\ M[k].line = l
    <3>1. CASE k = i
      BY <2>6, <3>1
    <3>2. CASE k # i
      <4>1. k \in Occupied(c)
        BY <2>4, <3>2
      <4>2. k \in MshrIds /\ M[k].line = c.mshrs[k].line
        BY <2>5, <3>2, <4>1
      <4> QED BY <4>1, <4>2
    <3> QED BY <3>1, <3>2
  <2> QED BY <2>4, <2>7
<1>12. Apart(x)
  <2>1. \A j, k \in Occupied(x) : M[j].line = M[k].line => j = k
    BY <1>1, <1>11 DEF Apart
  <2>2. ASSUME NEW s \in SetIds, NEW e \in Elems(c.arrays[s]), NEW k \in Occupied(x)
        PROVE  e.line # M[k].line
    <3>1. e.line # l
      BY <1>1, <1>4 DEF Fits
    <3> QED BY <1>1, <1>11, <3>1 DEF Apart
  <2>3. ASSUME NEW v \in Elems(c.wbq), NEW k \in Occupied(x)
        PROVE  v.line # M[k].line
    BY <1>1, <1>11 DEF Apart
  <2> QED BY <1>1, <1>6, <2>1, <2>2, <2>3 DEF Apart
<1>13. Awaited(x, B, F)
  <2>1. ASSUME NEW k \in MshrIds
        PROVE  /\ M[k].valid <=> M[k].waiting # <<>>
               /\ \A j \in 1 .. Len(M[k].waiting) : M[k].waiting[j].line = M[k].line
    <3>1. CASE k = i
      <4>1. \A j \in 1 .. Len(w) : w[j].line = c.mshrs[i].line
        BY <1>1 DEF Awaited
      <4>2. \A j \in 1 .. Len(w) : w # <<>>
        BY <1>5
      <4>3. \A j \in 1 .. Len(w) : w[j].line = l
        BY <1>5, <4>1, <4>2
      <4>4. \A j \in 1 .. Len(M[k].waiting) : M[k].waiting[j].line = l
        BY <1>9, <3>1, <4>3
      <4>5. M[k].valid /\ M[k].waiting # <<>> /\ M[k].line = l
        BY <1>8, <3>1
      <4> QED BY <4>4, <4>5
    <3>2. CASE k # i
      BY <1>1, <3>2 DEF Awaited
    <3> QED BY <3>1, <3>2
  <2>2. ASSUME NEW k \in MshrIds, c.mshrs[k].valid
        PROVE  /\ M[k].valid /\ M[k].sent = c.mshrs[k].sent
               /\ M[k].line = c.mshrs[k].line
    BY <2>2
  <2>3. ASSUME NEW r \in F
        PROVE  /\ r \in [tag : MshrIds, data : LineData]
               /\ M[r.tag].valid /\ M[r.tag].sent /\ r.data = B[M[r.tag].line]
    <3>1. /\ r \in [tag : MshrIds, data : LineData]
          /\ c.mshrs[r.tag].valid /\ c.mshrs[r.tag].sent /\ r.data = B[c.mshrs[r.tag].line]
      BY <1>1 DEF Awaited
    <3>2. r.tag \in MshrIds
      BY <3>1
    <3> QED BY <2>2, <3>1, <3>2
  <2>4. ASSUME NEW k \in 1 .. Len(c.installs)
        PROVE  LET j == c.installs[k].mshr IN
               /\ M[j].valid /\ M[j].sent /\ c.installs[k].data = B[M[j].line]
               /\ \A r \in F : r.tag # j
               /\ \A m \in 1 .. Len(c.installs) : c.installs[m].mshr = j => m = k
    <3>1. c.installs[k] \in Delayed
      BY <1>2
    <3>2. c.installs[k].mshr \in MshrIds
      BY <3>1 DEF Delayed
    <3> QED BY <1>1, <2>2, <3>2 DEF Awaited
  <2>5. \A s \in SetIds : \A e \in Elems(c.arrays[s]) : e.dirty \/ e.data = B[e.line]
    BY <1>1 DEF Awaited
  <2> QED BY <1>6, <2>1, <2>3, <2>4, <2>5 DEF Awaited
<1>14. Numbered(x, n + 1)
  <2>1. Fresh(c, n + 1) /\ Numbered(c, n + 1)
    BY NextNumber DEF Good
  <2>2. ASSUME NEW k \in MshrIds, NEW j \in 1 .. Len(M[k].waiting)
        PROVE  LET t == M[k].waiting[j].tag IN
               /\ t <= n + 1
               /\ \A a \in Elems(c.resp) \cup Elems(c.hits) : a.tag # t
               /\ \A y \in MshrIds : \A z \in 1 .. Len(M[y].waiting) :
                    M[y].waiting[z].tag = t => y = k /\ z = j
    <3> DEFINE t == M[k].waiting[j].tag
    <3>1. CASE j \in 1 .. Len(c.mshrs[k].waiting) /\ M[k].waiting[j] = c.mshrs[k].waiting[j]
      <4>1. t = c.mshrs[k].waiting[j].tag /\ t # n + 1
        BY <2>1, <3>1 DEF Fresh
      <4>2. t <= n + 1 /\ \A a \in Elems(c.resp) \cup Elems(c.hits) : a.tag # t
        BY <2>1, <3>1, <4>1 DEF Numbered
      <4>3. \A y \in MshrIds : \A z \in 1 .. Len(c.mshrs[y].waiting) :
              c.mshrs[y].waiting[z].tag = t => y = k /\ z = j
        BY <2>1, <3>1, <4>1 DEF Numbered
      <4>4. \A y \in MshrIds : \A z \in 1 .. Len(M[y].waiting) :
              M[y].waiting[z].tag = t => y = k /\ z = j
        <5>1. req.tag # t
          BY <4>1
        <5> HIDE DEF t
        <5> SUFFICES ASSUME NEW y \in MshrIds, NEW z \in 1 .. Len(M[y].waiting),
                            M[y].waiting[z].tag = t
                     PROVE  y = k /\ z = j
          OBVIOUS
        <5>2. \/ z \in 1 .. Len(c.mshrs[y].waiting) /\ M[y].waiting[z] = c.mshrs[y].waiting[z]
              \/ M[y].waiting[z] = req
          BY <1>9
        <5>3. z \in 1 .. Len(c.mshrs[y].waiting) /\ c.mshrs[y].waiting[z].tag = t
          BY <5>1, <5>2
        <5> QED BY <4>3, <5>3
      <4> QED BY <4>2, <4>4
    <3>2. CASE k = i /\ j = Len(w) + 1 /\ M[k].waiting[j] = req
      <4>1. t = n + 1 /\ n + 1 <= n + 1
        BY <3>2, PortAssumption DEF Datum
      <4>2. \A a \in Elems(c.resp) \cup Elems(c.hits) : a.tag # t
        BY <2>1, <4>1 DEF Fresh
      <4>3. \A y \in MshrIds : \A z \in 1 .. Len(c.mshrs[y].waiting) :
              c.mshrs[y].waiting[z].tag # t
        BY <2>1, <4>1 DEF Fresh
      <4>4. \A y \in MshrIds : \A z \in 1 .. Len(M[y].waiting) :
              M[y].waiting[z].tag = t => y = k /\ z = j
        BY <1>9, <3>2, <4>3
      <4> QED BY <4>1, <4>2, <4>4
    <3> QED BY <1>9, <3>1, <3>2
  <2> QED BY <1>6, <2>1, <2>2 DEF Numbered
<1>15. Good(x, B, F, n + 1)
  BY <1>1, <1>10, <1>12, <1>13, <1>14 DEF Good
<1>16. Contents(c, B)[l] = Overlaid(w, B[l])
  <2>1. CASE c.mshrs[i].valid
    <3>1. i \in Occupied(c) /\ c.mshrs[i].line = l
      BY <2>1 DEF Occupied
    <3> QED BY <1>1, <1>4, <3>1, PeekIs DEF Contents
  <2>2. CASE ~c.mshrs[i].valid
    <3>1. i \notin Occupied(c)
      BY <2>2 DEF Occupied
    <3>2. NoHome(c, l)
      BY <3>1 DEF NoHome
    <3>3. B[l] \in LineData /\ w = <<>>
      BY <1>1, <1>4, <1>5, <2>2
    <3> QED BY <1>1, <1>4, <3>2, <3>3, PeekIs, OverlaidEmpty DEF Contents
  <2> QED BY <2>1, <2>2
<1>17. ASSUME NEW m \in LineSet
       PROVE  Peek(x, m, B[m]) = IF m = l THEN Written(req, Overlaid(w, B[l]))
                                          ELSE Peek(c, m, B[m])
  <2>1. CASE m = l
    <3>1. i \in Occupied(x) /\ x.mshrs[i].line = m
      BY <1>6, <1>11, <2>1
    <3>2. Peek(x, m, B[m]) = Overlaid(x.mshrs[i].waiting, B[m])
      BY <1>10, <1>12, <3>1, PeekIs
    <3>3. x.mshrs[i].waiting = Append(w, req)
      BY <1>6
    <3> QED BY <1>5, <2>1, <3>2, <3>3, OverlaidAppend
  <2>2. CASE m # l
    <3>1. CASE \E a \in Elems(c.arrays[SetOf(m)]) : a.line = m
      BY <1>1, <1>6, <1>10, <1>12, <2>2, <3>1, PeekIs
    <3>2. CASE \E v \in Elems(c.wbq) : v.line = m
      BY <1>1, <1>6, <1>10, <1>12, <2>2, <3>2, PeekIs
    <3>3. CASE \E k \in Occupied(c) : c.mshrs[k].line = m
      <4>1. PICK k \in Occupied(c) : c.mshrs[k].line = m
        BY <3>3
      <4>2. k # i /\ k \in MshrIds /\ k \in Occupied(x)
        BY <1>11, <2>2, <4>1 DEF Occupied
      <4>3. M[k] = c.mshrs[k]
        BY <4>2
      <4>4. Peek(c, m, B[m]) = Overlaid(c.mshrs[k].waiting, B[m])
        BY <1>1, <4>1, PeekIs
      <4>5. Peek(x, m, B[m]) = Overlaid(c.mshrs[k].waiting, B[m])
        BY <1>6, <1>10, <1>12, <4>1, <4>2, <4>3, PeekIs
      <4> QED BY <2>2, <4>4, <4>5
    <3>4. CASE NoHome(c, m)
      <4>1. NoHome(x, m)
        BY <1>6, <1>11, <2>2, <3>4 DEF NoHome
      <4> QED BY <1>1, <1>10, <1>12, <2>2, <3>4, <4>1, PeekIs
    <3> QED BY <3>1, <3>2, <3>3, <3>4 DEF NoHome
  <2> QED BY <2>1, <2>2
<1>18. Contents(x, B) = [Contents(c, B) EXCEPT ![l] = Written(req, @)]
  BY <1>4, <1>16, <1>17 DEF Contents
<1>19. Due(x, B) = Due(c, B) \cup {Note(Answer(req, Contents(c, B)[l]))}
  <2>1. ASSUME NEW k \in MshrIds, k # i PROVE Promises(x, B, k) = Promises(c, B, k)
    <3>1. x.mshrs[k] = c.mshrs[k]
      BY <1>6, <2>1
    <3> QED BY <3>1 DEF Promises, Promise
  <2>2. ASSUME NEW j \in 1 .. Len(w) PROVE Promise(x, B, i, j) = Promise(c, B, i, j)
    <3>1. SubSeq(Append(w, req), 1, j - 1) = SubSeq(w, 1, j - 1)
      BY <1>5
    <3>2. M[i].line = c.mshrs[i].line
      BY <1>5
    <3>3. Append(w, req)[j] = w[j]
      BY <1>5
    <3> QED BY <1>6, <3>1, <3>2, <3>3 DEF Promise
  <2>3. Promise(x, B, i, Len(w) + 1) = Answer(req, Contents(c, B)[l])
    <3>1. SubSeq(Append(w, req), 1, (Len(w) + 1) - 1) = w
      BY <1>5
    <3>2. x.mshrs[i].waiting = Append(w, req) /\ x.mshrs[i].line = l
      BY <1>6
    <3>3. Append(w, req)[Len(w) + 1] = req
      BY <1>5
    <3>4. Promise(x, B, i, Len(w) + 1) = Answer(req, Overlaid(w, B[l]))
      BY <3>1, <3>2, <3>3 DEF Promise
    <3> QED BY <1>16, <3>4
  <2>4. Promises(x, B, i) = Promises(c, B, i) \cup {Note(Answer(req, Contents(c, B)[l]))}
    <3>1. \A j \in 1 .. Len(w) + 1 : j \in 1 .. Len(w) \/ j = Len(w) + 1
      BY <1>7
    <3>2. Len(w) + 1 \in 1 .. Len(w) + 1 /\ \A j \in 1 .. Len(w) : j \in 1 .. Len(w) + 1
      BY <1>7
    <3>3. Promises(x, B, i) = {Note(Promise(x, B, i, j)) : j \in 1 .. Len(w) + 1}
      BY <1>6, <1>7 DEF Promises
    <3>4. Promises(c, B, i) = {Note(Promise(c, B, i, j)) : j \in 1 .. Len(w)}
      BY DEF Promises
    <3> HIDE DEF w, l
    <3> QED BY <2>2, <2>3, <3>1, <3>2, <3>3, <3>4
  <2> QED BY <1>6, <2>1, <2>4 DEF Due
<1> QED BY <1>15, <1>18, <1>19 DEF x, Served

LEMMA Updated ==
  ASSUME NEW c, c \in CacheState, NEW v
  PROVE  /\ [c EXCEPT !.wbq = v] =
              [arrays |-> c.arrays, mshrs |-> c.mshrs, wbq |-> v,
               installs |-> c.installs, hits |-> c.hits, resp |-> c.resp]
         /\ [c EXCEPT !.mshrs = v] =
              [arrays |-> c.arrays, mshrs |-> v, wbq |-> c.wbq,
               installs |-> c.installs, hits |-> c.hits, resp |-> c.resp]
         /\ [c EXCEPT !.resp = v] =
              [arrays |-> c.arrays, mshrs |-> c.mshrs, wbq |-> c.wbq,
               installs |-> c.installs, hits |-> c.hits, resp |-> v]
<1> DEFINE A == c.arrays
           K == c.mshrs
           W == c.wbq
           I == c.installs
           H == c.hits
           R == c.resp
<1>1. c = [arrays |-> A, mshrs |-> K, wbq |-> W, installs |-> I, hits |-> H, resp |-> R]
  BY StateParts
<1> HIDE DEF A, K, W, I, H, R
<1>2. [c EXCEPT !.wbq = v] =
        [arrays |-> A, mshrs |-> K, wbq |-> v, installs |-> I, hits |-> H, resp |-> R]
  BY <1>1
<1>3. [c EXCEPT !.mshrs = v] =
        [arrays |-> A, mshrs |-> v, wbq |-> W, installs |-> I, hits |-> H, resp |-> R]
  BY <1>1
<1>4. [c EXCEPT !.resp = v] =
        [arrays |-> A, mshrs |-> K, wbq |-> W, installs |-> I, hits |-> H, resp |-> v]
  BY <1>1
<1> QED BY <1>2, <1>3, <1>4 DEF A, K, W, I, H, R

LEMMA RemoveAppend ==
  ASSUME NEW S, NEW s \in Seq(S), NEW e \in S, NEW k \in 1 .. Len(s)
  PROVE  RemoveAt(Append(s, e), k) = Append(RemoveAt(s, k), e)
<1> DEFINE t == Append(s, e)
           u == RemoveAt(s, k)
           n == Len(s)
<1>1. t \in Seq(S) /\ n \in Nat /\ Len(t) = n + 1 /\ t[n + 1] = e
      /\ \A j \in 1 .. n : t[j] = s[j]
  BY AppendSeq
<1>2. /\ u \in Seq(S) /\ Len(u) = n - 1
      /\ \A j \in 1 .. n - 1 : u[j] = s[IF j < k THEN j ELSE j + 1]
  BY RemoveSeq
<1>3. k \in 1 .. Len(t) /\ k \in 1 .. n
  BY <1>1
<1> DEFINE a == RemoveAt(t, k)
           b == Append(u, e)
<1>4. /\ a \in Seq(S) /\ Len(a) = n
      /\ \A j \in 1 .. n : a[j] = t[IF j < k THEN j ELSE j + 1]
  <2> HIDE DEF t
  <2>1. /\ a \in Seq(S) /\ Len(a) = Len(t) - 1
        /\ \A j \in 1 .. Len(t) - 1 : a[j] = t[IF j < k THEN j ELSE j + 1]
    BY <1>1, <1>3, RemoveSeq
  <2>2. Len(t) - 1 = n
    BY <1>1
  <2> QED BY <2>1, <2>2
<1>5. b \in Seq(S) /\ Len(b) = n /\ b[n] = e /\ \A j \in 1 .. n - 1 : b[j] = u[j]
  BY <1>1, <1>2, AppendSeq
<1> HIDE DEF a, b, t, u, n
<1>6. ASSUME NEW j \in 1 .. n PROVE a[j] = b[j]
  <2>1. CASE j = n
    BY <1>1, <1>3, <1>4, <1>5, <2>1
  <2>2. CASE j # n
    <3>1. j \in 1 .. n - 1 /\ (IF j < k THEN j ELSE j + 1) \in 1 .. n
      BY <1>1, <1>3, <2>2
    <3> QED BY <1>1, <1>2, <1>4, <1>5, <3>1
  <2> QED BY <2>1, <2>2
<1>7. a = b
  BY <1>1, <1>4, <1>5, <1>6
<1> QED BY <1>7 DEF a, b, t, u

(* Taking a victim back from the writeback queue.                          *)
(* What c is without the victim i.                                         *)
Dropped(c, B, F, n, i) ==
  LET x == [c EXCEPT !.wbq = RemoveAt(c.wbq, i)]
      l == c.wbq[i].line
  IN  /\ Good(x, B, F, n)
      /\ l \in LineSet /\ c.wbq[i].data \in LineData
      /\ x.arrays = c.arrays /\ x.mshrs = c.mshrs /\ x.installs = c.installs
      /\ x.hits = c.hits /\ x.resp = c.resp /\ Len(x.wbq) = Len(c.wbq) - 1
      /\ x.wbq = RemoveAt(c.wbq, i)
      /\ NoHome(x, l)
      /\ Contents(c, B)[l] = c.wbq[i].data
      /\ \A m \in LineSet : m # l => Contents(x, B)[m] = Contents(c, B)[m]

LEMMA DropVictim ==
  ASSUME NEW c, NEW B, NEW F, NEW n, Good(c, B, F, n), NEW i \in 1 .. Len(c.wbq)
  PROVE  Dropped(c, B, F, n, i)
<1> DEFINE x == [c EXCEPT !.wbq = RemoveAt(c.wbq, i)]
           v == c.wbq[i]
           W == RemoveAt(c.wbq, i)
<1>1. c \in CacheState /\ Fits(c) /\ Apart(c) /\ Awaited(c, B, F) /\ Numbered(c, n)
      /\ B \in [LineSet -> LineData] /\ n \in Datum
  BY DEF Good, Fits
<1>2. /\ c.arrays \in [SetIds -> Seq(Stored)] /\ c.mshrs \in [MshrIds -> MissState]
      /\ c.wbq \in Seq(Victim) /\ c.installs \in Seq(Delayed)
      /\ c.hits \in Seq(Reply) /\ c.resp \in Seq(Reply)
  BY <1>1, StateParts
<1>3. x = [arrays |-> c.arrays, mshrs |-> c.mshrs, wbq |-> W, installs |-> c.installs,
           hits |-> c.hits, resp |-> c.resp]
  BY <1>1, Updated
<1>4. v \in Victim /\ v.line \in LineSet /\ v.data \in LineData /\ v \in Elems(c.wbq)
  <2>1. v \in Victim
    BY <1>2
  <2> QED BY <2>1 DEF Victim, Elems
<1>5. /\ W \in Seq(Victim) /\ Len(W) = Len(c.wbq) - 1 /\ Len(c.wbq) \in Nat
      /\ LinesDiffer(W) /\ Elems(W) = Elems(c.wbq) \ {v}
      /\ \A w \in Elems(W) : w.line # v.line
  <2>1. LinesDiffer(c.wbq)
    BY <1>1 DEF Apart
  <2>2. W \in Seq(Victim) /\ Len(W) = Len(c.wbq) - 1 /\ Len(c.wbq) \in Nat
    BY <1>2, RemoveSeq
  <2>3. /\ LinesDiffer(W) /\ Elems(W) = Elems(c.wbq) \ {c.wbq[i]}
        /\ \A w \in Elems(W) : w.line # c.wbq[i].line
    BY <1>2, <2>1, RemoveLine
  <2> QED BY <2>2, <2>3
<1> HIDE DEF x, W, v
<1>6. /\ x.arrays = c.arrays /\ x.mshrs = c.mshrs /\ x.wbq = W
      /\ x.installs = c.installs /\ x.hits = c.hits /\ x.resp = c.resp
  BY <1>3
<1>7. Occupied(x) = Occupied(c)
  BY <1>6 DEF Occupied
<1>8. x \in CacheState
  BY <1>2, <1>3, <1>5 DEF CacheState
<1>9. Fits(x)
  BY <1>1, <1>5, <1>6, <1>8, CacheAssumption DEF Fits
<1>10. Apart(x)
  BY <1>1, <1>5, <1>6, <1>7 DEF Apart
<1>11. Awaited(x, B, F)
  BY <1>1, <1>6 DEF Awaited
<1>12. Good(x, B, F, n)
  BY <1>1, <1>6, <1>9, <1>10, <1>11, NumberedSame DEF Good
<1>13. NoHome(x, v.line)
  <2>1. SetOf(v.line) \in SetIds
    BY <1>4, SetOfRange
  <2> QED BY <1>1, <1>4, <1>5, <1>6, <1>7, <2>1 DEF Apart, NoHome
<1>14. Contents(c, B)[v.line] = v.data
  BY <1>1, <1>4, PeekIs DEF Contents
<1>15. ASSUME NEW m \in LineSet, m # v.line
       PROVE  Peek(x, m, B[m]) = Peek(c, m, B[m])
  <2>1. CASE \E a \in Elems(c.arrays[SetOf(m)]) : a.line = m
    BY <1>1, <1>6, <1>9, <1>10, <2>1, PeekIs
  <2>2. CASE \E w \in Elems(c.wbq) : w.line = m
    <3>1. PICK w \in Elems(c.wbq) : w.line = m
      BY <2>2
    <3>2. w \in Elems(x.wbq)
      BY <1>5, <1>6, <1>15, <3>1
    <3> QED BY <1>1, <1>9, <1>10, <3>1, <3>2, PeekIs
  <2>3. CASE \E k \in Occupied(c) : c.mshrs[k].line = m
    <3>1. PICK k \in Occupied(c) : c.mshrs[k].line = m
      BY <2>3
    <3>2. Peek(c, m, B[m]) = Overlaid(c.mshrs[k].waiting, B[m])
      BY <1>1, <3>1, PeekIs
    <3>3. Peek(x, m, B[m]) = Overlaid(c.mshrs[k].waiting, B[m])
      BY <1>6, <1>7, <1>9, <1>10, <3>1, PeekIs
    <3> QED BY <3>2, <3>3
  <2>4. CASE NoHome(c, m)
    <3>1. NoHome(x, m)
      BY <1>5, <1>6, <1>7, <2>4 DEF NoHome
    <3> QED BY <1>1, <1>9, <1>10, <2>4, <3>1, PeekIs
  <2> QED BY <2>1, <2>2, <2>3, <2>4 DEF NoHome
<1>16. \A m \in LineSet : m # v.line => Contents(x, B)[m] = Contents(c, B)[m]
  BY <1>15 DEF Contents
<1> QED BY <1>4, <1>5, <1>6, <1>12, <1>13, <1>14, <1>16 DEF x, v, W, Dropped

WithoutVictim(c, i) == [c EXCEPT !.wbq = RemoveAt(@, i)]

(* Installing and then taking the victim back, as the code does, is taking *)
(* it back first.                                                          *)
LEMMA InstallThenDrop ==
  ASSUME NEW c \in CacheState, NEW l \in LineSet, NEW d \in LineData,
         NEW y \in BOOLEAN, Len(c.wbq) < WbCap, NEW i \in 1 .. Len(c.wbq)
  PROVE  LET p == InstallLine(c, l, d, y)
             r == InstallLine(WithoutVictim(c, i), l, d, y)
         IN  /\ r.ok /\ p.way = r.way
             /\ WithoutVictim(p.cache, i) = r.cache
<1> DEFINE A == c.arrays
           K == c.mshrs
           W == c.wbq
           I == c.installs
           H == c.hits
           R == c.resp
           V == RemoveAt(W, i)
           s == SetOf(l)
           q == A[s]
           full == Len(q) = Ways
           evict == full /\ Head(q).dirty
           new == [line |-> l, data |-> d, dirty |-> y]
           gone == [line |-> Head(q).line, data |-> Head(q).data]
           kept == IF full THEN Tail(q) ELSE q
           next == [A EXCEPT ![s] = Append(kept, new)]
<1>1. c = [arrays |-> A, mshrs |-> K, wbq |-> W, installs |-> I, hits |-> H, resp |-> R]
  BY StateParts
<1>2. s \in SetIds /\ A \in [SetIds -> Seq(Stored)] /\ W \in Seq(Victim)
  BY SetOfRange, StateParts
<1>3. Len(V) < WbCap /\ Len(W) < WbCap /\ Len(W) \in Nat /\ Len(V) \in Nat
  <2>1. i \in 1 .. Len(W)
    OBVIOUS
  <2> HIDE DEF W
  <2>2. RemoveAt(W, i) \in Seq(Victim) /\ Len(RemoveAt(W, i)) = Len(W) - 1
    BY <1>2, <2>1, RemoveSeq
  <2>3. Len(W) \in Nat /\ Len(W) < WbCap /\ Len(W) >= 1
    BY <1>2, <2>1 DEF W
  <2> QED BY <2>2, <2>3, CacheAssumption
<1>4. evict => gone \in Victim
  <2> SUFFICES ASSUME evict PROVE gone \in Victim
    OBVIOUS
  <2>1. q \in Seq(Stored) /\ q # <<>>
    BY <1>2, CacheAssumption
  <2>2. Head(q) \in Stored
    BY <2>1
  <2> QED BY <2>2 DEF Stored, Victim
<1>5. evict => RemoveAt(Append(W, gone), i) = Append(V, gone)
  BY <1>2, <1>4, RemoveAppend
<1>6. WbCap \in Nat
  BY CacheAssumption
<1> HIDE DEF A, K, W, I, H, R, V, q
<1>7. c.arrays = A /\ c.wbq = W /\ c.mshrs = K /\ c.installs = I /\ c.hits = H /\ c.resp = R
  BY DEF A, K, W, I, H, R
<1> DEFINE u == WithoutVictim(c, i)
<1>8. u = [arrays |-> A, mshrs |-> K, wbq |-> V, installs |-> I, hits |-> H, resp |-> R]
  BY <1>1, <1>7 DEF V, WithoutVictim
<1> HIDE DEF u
<1>9. u.arrays = A /\ u.wbq = V /\ u.mshrs = K /\ u.installs = I /\ u.hits = H /\ u.resp = R
  BY <1>8
<1> DEFINE p == InstallLine(c, l, d, y)
           r == InstallLine(u, l, d, y)
<1>10. ~(Len(W) >= WbCap) /\ ~(Len(V) >= WbCap)
  BY <1>3, <1>6
<1>11. /\ p.way = Len(kept) + 1
       /\ p.cache = [c EXCEPT !.wbq = IF evict THEN Append(W, gone) ELSE W, !.arrays = next]
  BY <1>7, <1>10 DEF InstallLine, q
<1>12. /\ r.ok /\ r.way = Len(kept) + 1
       /\ r.cache = [u EXCEPT !.wbq = IF evict THEN Append(V, gone) ELSE V, !.arrays = next]
  BY <1>9, <1>10 DEF InstallLine, q
<1> HIDE DEF next, kept, evict, gone, p, r
<1>13. p.cache = [arrays |-> next, mshrs |-> K, wbq |-> IF evict THEN Append(W, gone) ELSE W,
                  installs |-> I, hits |-> H, resp |-> R]
  BY <1>1, <1>11
<1>14. r.cache = [arrays |-> next, mshrs |-> K, wbq |-> IF evict THEN Append(V, gone) ELSE V,
                  installs |-> I, hits |-> H, resp |-> R]
  BY <1>8, <1>12
<1>15. RemoveAt(IF evict THEN Append(W, gone) ELSE W, i) = IF evict THEN Append(V, gone) ELSE V
  BY <1>5 DEF V
<1>16. WithoutVictim(p.cache, i) = r.cache
  <2>1. p.cache.wbq = IF evict THEN Append(W, gone) ELSE W
    BY <1>13
  <2>2. [p.cache EXCEPT !.wbq = RemoveAt(p.cache.wbq, i)] =
          [arrays |-> next, mshrs |-> K, wbq |-> RemoveAt(p.cache.wbq, i),
           installs |-> I, hits |-> H, resp |-> R]
    BY <1>13
  <2> QED BY <1>14, <1>15, <2>1, <2>2 DEF WithoutVictim
<1> QED BY <1>11, <1>12, <1>16 DEF p, r, u

(* A line parked in the writeback queue comes back and is served.          *)
LEMMA RestoreGood ==
  ASSUME NEW c, NEW B, NEW F, NEW n, Good(c, B, F, n), CanAccept(c),
         NEW i \in 1 .. Len(c.wbq),
         NEW req \in Asked, req.line = c.wbq[i].line, req.tag <= n, Fresh(c, req.tag)
  PROVE  Served(c, Restore(c, i, req), B, F, n, req)
<1> DEFINE l == c.wbq[i].line
           d == c.wbq[i].data
           s == SetOf(l)
           W == RemoveAt(c.wbq, i)
           u == [c EXCEPT !.wbq = W]
           yes == TRUE
           p == InstallLine(c, l, d, yes)
           r == InstallLine(u, l, d, yes)
           z == r.cache
           new == [line |-> l, data |-> d, dirty |-> yes]
<1>1. /\ Good(u, B, F, n) /\ l \in LineSet /\ d \in LineData
      /\ u.arrays = c.arrays /\ u.mshrs = c.mshrs /\ u.installs = c.installs
      /\ u.hits = c.hits /\ u.resp = c.resp /\ Len(u.wbq) = Len(c.wbq) - 1
      /\ u.wbq = W
      /\ NoHome(u, l) /\ Contents(c, B)[l] = d
      /\ \A m \in LineSet : m # l => Contents(u, B)[m] = Contents(c, B)[m]
  <2>1. Dropped(c, B, F, n, i)
    BY DropVictim
  <2> QED BY <2>1 DEF Dropped
<1>2. /\ c \in CacheState /\ u \in CacheState /\ TRUE \in BOOLEAN /\ c.wbq \in Seq(Victim)
      /\ c.arrays \in [SetIds -> Seq(Stored)] /\ s \in SetIds
  BY <1>1, StateParts, SetOfRange DEF Good, Fits
<1>3. Len(c.wbq) \in Nat /\ Len(c.wbq) < WbCap /\ Len(u.wbq) < WbCap
  BY <1>1, <1>2, CacheAssumption DEF CanAccept
<1>8. r.ok /\ p.way = r.way /\ [p.cache EXCEPT !.wbq = RemoveAt(@, i)] = z
  <2>1. c \in CacheState /\ l \in LineSet /\ d \in LineData /\ Len(c.wbq) < WbCap
    BY <1>1, <1>2, <1>3
  <2>2. u = WithoutVictim(c, i) /\ yes \in BOOLEAN
    BY DEF WithoutVictim
  <2> HIDE DEF l, d, u, yes
  <2>3. /\ InstallLine(WithoutVictim(c, i), l, d, yes).ok
        /\ InstallLine(c, l, d, yes).way = InstallLine(WithoutVictim(c, i), l, d, yes).way
        /\ WithoutVictim(InstallLine(c, l, d, yes).cache, i) =
             InstallLine(WithoutVictim(c, i), l, d, yes).cache
    BY <2>1, <2>2, InstallThenDrop
  <2> QED BY <2>2, <2>3 DEF WithoutVictim
<1> HIDE DEF p, r, z, u
<1>9. /\ Good(z, B, F, n) /\ r.way \in 1 .. Len(z.arrays[s])
      /\ z.arrays[s][r.way] = new
      /\ z.mshrs = u.mshrs /\ z.hits = u.hits /\ z.resp = u.resp
      /\ Contents(z, B) = [Contents(u, B) EXCEPT ![l] = d]
  <2>1. /\ Good(u, B, F, n) /\ l \in LineSet /\ d \in LineData /\ yes \in BOOLEAN
        /\ NoHome(u, l) /\ (yes = FALSE => d = B[l]) /\ r = InstallLine(u, l, d, yes)
    BY <1>1 DEF r
  <2> HIDE DEF l, d, yes
  <2>2. InstallLine(u, l, d, yes).ok
    BY <1>8, <2>1
  <2>3. Installed(u, B, F, n, l, d, yes)
    BY <2>1, <2>2, InstallGood
  <2> QED BY <2>1, <2>3 DEF z, Installed
<1>10. Contents(z, B) = Contents(c, B)
  BY <1>1, <1>9 DEF Contents
<1>11. Due(z, B) = Due(c, B) /\ Fresh(z, req.tag)
  BY <1>1, <1>9, DueSame, FreshSame
<1>12. z.arrays[s][r.way].line = req.line
  BY <1>9
<1>13. Restore(c, i, req) = ServeHit(z, s, r.way, req)
  BY <1>8 DEF Restore, p
<1> HIDE DEF s, l, d
<1>14. Served(z, ServeHit(z, s, r.way, req), B, F, n, req)
  <2>1. Good(z, B, F, n) /\ s \in SetIds /\ r.way \in 1 .. Len(z.arrays[s])
        /\ Fresh(z, req.tag)
    BY <1>2, <1>9, <1>11
  <2> QED BY <1>12, <2>1, ServeHitGood
<1> QED BY <1>10, <1>11, <1>13, <1>14 DEF Served

LEMMA WriteAnswer ==
  ASSUME NEW req, req.write, NEW a, NEW b
  PROVE  Answer(req, a) = Answer(req, b)
<1> DEFINE S == IF req.write THEN {} ELSE req.bytes
<1>1. \A o \in S : a[o] = b[o]
  OBVIOUS
<1> HIDE DEF S
<1>2. [o \in S |-> a[o]] = [o \in S |-> b[o]]
  BY <1>1
<1> QED BY <1>2 DEF Answer, S

(* A whole line is written without a refill.                               *)
LEMMA InstallWholeGood ==
  ASSUME NEW c, NEW B, NEW F, NEW n, Good(c, B, F, n), CanAccept(c),
         NEW req \in Asked, NoHome(c, req.line), req.write, WholeLine(req),
         req.tag <= n, Fresh(c, req.tag)
  PROVE  Served(c, InstallWhole(c, req), B, F, n, req)
<1> DEFINE l == req.line
           d == req.data
           yes == TRUE
           p == InstallLine(c, l, d, yes)
           z == p.cache
           a == Answer(req, d)
           x == ReserveHit(z, a)
<1>1. /\ l \in LineSet /\ d \in LineData /\ yes \in BOOLEAN /\ ~(yes = FALSE)
      /\ req.tag \in Datum
  BY DEF Asked, AnyAsked, WholeLine, LineData
<1>2. p.ok
  <2>1. c \in CacheState
    BY DEF Good, Fits
  <2>2. Len(c.wbq) \in Nat /\ Len(c.wbq) < WbCap
    BY <2>1, StateParts DEF CanAccept
  <2>3. ~(Len(c.wbq) >= WbCap)
    BY <2>2, CacheAssumption
  <2> QED BY <2>3 DEF InstallLine
<1>3. InstallWhole(c, req) = x
  BY DEF InstallWhole
<1>4. a \in Reply /\ a.tag = req.tag
  BY <1>1, AnswerType
<1> HIDE DEF x, a, yes
<1>5. Installed(c, B, F, n, l, d, yes)
  <2> HIDE DEF l, d
  <2>1. NoHome(c, l)
    BY DEF l
  <2> QED BY <1>1, <1>2, <2>1, InstallGood
<1>6. /\ Good(z, B, F, n) /\ z.mshrs = c.mshrs /\ z.hits = c.hits /\ z.resp = c.resp
      /\ Contents(z, B) = [Contents(c, B) EXCEPT ![l] = d]
  BY <1>5 DEF Installed
<1> HIDE DEF p, z
<1>7. Fresh(z, a.tag) /\ Due(z, B) = Due(c, B) /\ a.tag <= n
  BY <1>4, <1>6, FreshSame, DueSame
<1>8. LET y == ReserveHit(z, a)
      IN  /\ Good(y, B, F, n) /\ Contents(y, B) = Contents(z, B)
          /\ Due(y, B) = Due(z, B) \cup {Note(a)}
  BY <1>4, <1>6, <1>7, ReserveHitGood
<1>9. \A b : Written(req, b) = d
  <2>1. \A b : Written(req, b) = [o \in Offsets |-> req.data[o]]
    BY DEF Written, WholeLine
  <2> QED BY <1>1, <2>1 DEF LineData
<1>10. a = Answer(req, Contents(c, B)[l])
  BY WriteAnswer DEF a
<1> QED BY <1>3, <1>6, <1>7, <1>8, <1>9, <1>10 DEF Served, x

LEMMA MergeGood ==
  ASSUME NEW c, NEW B, NEW F, NEW n, Good(c, B, F, n), n + 1 \in Datum,
         NEW req \in Asked, req.tag = n + 1,
         \A e \in Elems(c.arrays[SetOf(req.line)]) : e.line # req.line,
         \A v \in Elems(c.wbq) : v.line # req.line,
         NEW i \in MshrFor(c, req.line)
  PROVE  Served(c, Merge(c, i, req), B, F, n + 1, req)
<1> DEFINE M == [c.mshrs EXCEPT ![i].waiting = Append(@, req)]
<1>1. c \in CacheState /\ Apart(c)
  BY DEF Good, Fits
<1>2. c.mshrs \in [MshrIds -> MissState]
  BY <1>1, StateParts
<1>3. i \in MshrIds /\ i \in Occupied(c) /\ c.mshrs[i].valid /\ c.mshrs[i].line = req.line
  BY DEF MshrFor, Occupied
<1>4. c.mshrs[i] \in MissState /\ c.mshrs[i].waiting \in Seq(Asked)
  BY <1>2, <1>3 DEF MissState
<1>5. Append(c.mshrs[i].waiting, req) \in Seq(Asked)
  BY <1>4
<1>6. /\ M[i] = [c.mshrs[i] EXCEPT !.waiting = Append(@, req)]
      /\ \A k \in MshrIds : k # i => M[k] = c.mshrs[k]
  BY <1>2, <1>3
<1>7. /\ M[i] \in MissState /\ M[i].valid /\ M[i].line = req.line
      /\ M[i].waiting = Append(c.mshrs[i].waiting, req) /\ M[i].sent = c.mshrs[i].sent
  <2> DEFINE o == c.mshrs[i]
             w == Append(o.waiting, req)
  <2>1. o \in MissState /\ o.valid /\ o.line = req.line /\ w \in Seq(Asked)
    BY <1>3, <1>4, <1>5
  <2>2. M[i] = [o EXCEPT !.waiting = w]
    BY <1>6
  <2> HIDE DEF o, w, M
  <2>3. /\ M[i] \in MissState /\ M[i].valid /\ M[i].line = req.line
        /\ M[i].waiting = w /\ M[i].sent = o.sent
    BY <2>1, <2>2 DEF MissState
  <2> QED BY <2>3 DEF o, w
<1>8. M \in [MshrIds -> MissState]
  BY <1>2, <1>3, <1>7
<1>9. \A k \in Occupied(c) : c.mshrs[k].line = req.line => k = i
  BY <1>1, <1>3 DEF Apart
<1>10. Merge(c, i, req) = [c EXCEPT !.mshrs = M]
  BY DEF Merge
<1> HIDE DEF M
<1>11. /\ i \in MshrIds /\ M \in [MshrIds -> MissState]
       /\ \A k \in MshrIds : k # i => M[k] = c.mshrs[k]
       /\ \A k \in Occupied(c) : c.mshrs[k].line = req.line => k = i
       /\ M[i].valid /\ M[i].line = req.line
       /\ M[i].waiting = Append(c.mshrs[i].waiting, req)
       /\ c.mshrs[i].valid => c.mshrs[i].line = req.line /\ M[i].sent = c.mshrs[i].sent
  BY <1>3, <1>6, <1>7, <1>8, <1>9
<1>12. Served(c, [c EXCEPT !.mshrs = M], B, F, n + 1, req)
  BY <1>11, JoinMiss
<1> QED BY <1>10, <1>12

LEMMA StartMissGood ==
  ASSUME NEW c, NEW B, NEW F, NEW n, Good(c, B, F, n), n + 1 \in Datum, CanAccept(c),
         NEW req \in Asked, req.tag = n + 1, NoHome(c, req.line)
  PROVE  Served(c, StartMiss(c, req), B, F, n + 1, req)
<1> DEFINE i == First(MshrIds \ Occupied(c))
           m == [valid |-> TRUE, line |-> req.line, sent |-> FALSE, waiting |-> <<req>>]
           M == [c.mshrs EXCEPT ![i] = m]
<1>1. c \in CacheState /\ Awaited(c, B, F)
  BY DEF Good, Fits
<1>2. c.mshrs \in [MshrIds -> MissState]
  BY <1>1, StateParts
<1>3. i \in MshrIds \ Occupied(c)
  <2>1. Cardinality(MshrIds) = Mshrs
    BY FS_Interval, CacheAssumption DEF MshrIds
  <2>2. Occupied(c) # MshrIds
    BY <2>1, CacheAssumption DEF CanAccept
  <2>3. MshrIds \ Occupied(c) # {}
    BY <2>2 DEF Occupied
  <2>4. MshrIds \ Occupied(c) \subseteq Nat
    BY DEF MshrIds
  <2> QED BY <2>3, <2>4, FirstIn
<1>4. ~c.mshrs[i].valid /\ c.mshrs[i].waiting = <<>>
  BY <1>1, <1>3 DEF Occupied, Awaited
<1>5. req.line \in LineSet
  BY DEF Asked, AnyAsked
<1>6. <<req>> \in Seq(Asked) /\ <<req>> = Append(<<>>, req)
  OBVIOUS
<1>7. m \in MissState
  BY <1>5, <1>6 DEF MissState
<1>8. StartMiss(c, req) = [c EXCEPT !.mshrs = M]
  BY DEF StartMiss
<1> HIDE DEF i
<1>9. M[i] = m /\ \A k \in MshrIds : k # i => M[k] = c.mshrs[k]
  BY <1>2, <1>3
<1>10. M \in [MshrIds -> MissState]
  BY <1>2, <1>3, <1>7
<1>11. /\ M[i].valid /\ M[i].line = req.line
       /\ M[i].waiting = Append(c.mshrs[i].waiting, req)
  BY <1>4, <1>6, <1>9
<1>12. /\ \A e \in Elems(c.arrays[SetOf(req.line)]) : e.line # req.line
       /\ \A v \in Elems(c.wbq) : v.line # req.line
       /\ \A k \in Occupied(c) : c.mshrs[k].line # req.line
  BY DEF NoHome
<1> HIDE DEF M, m
<1>13. /\ i \in MshrIds /\ M \in [MshrIds -> MissState]
       /\ \A e \in Elems(c.arrays[SetOf(req.line)]) : e.line # req.line
       /\ \A v \in Elems(c.wbq) : v.line # req.line
       /\ \A k \in MshrIds : k # i => M[k] = c.mshrs[k]
       /\ \A k \in Occupied(c) : c.mshrs[k].line = req.line => k = i
       /\ M[i].valid /\ M[i].line = req.line
       /\ M[i].waiting = Append(c.mshrs[i].waiting, req)
       /\ c.mshrs[i].valid => c.mshrs[i].line = req.line /\ M[i].sent = c.mshrs[i].sent
  BY <1>3, <1>4, <1>9, <1>10, <1>11, <1>12
<1>14. Served(c, [c EXCEPT !.mshrs = M], B, F, n + 1, req)
  BY <1>13, JoinMiss
<1> QED BY <1>8, <1>14

LEMMA AccessGood ==
  ASSUME NEW c, NEW B, NEW F, NEW n, Good(c, B, F, n), n + 1 \in Datum, CanAccept(c),
         NEW req \in Asked, req.tag = n + 1
  PROVE  Served(c, Access(c, req), B, F, n + 1, req)
<1> DEFINE l == req.line
           s == SetOf(l)
           q == c.arrays[s]
           A == InArrays(c, l)
           V == InWbq(c, l)
<1>1. c \in CacheState /\ n \in Nat
  BY PortAssumption DEF Good, Fits, Datum
<1>2. l \in LineSet /\ s \in SetIds
  BY SetOfRange DEF Asked, AnyAsked
<1>3. q \in Seq(Stored) /\ c.wbq \in Seq(Victim)
  BY <1>1, <1>2, StateParts
<1>4. Good(c, B, F, n + 1) /\ Fresh(c, req.tag) /\ req.tag <= n + 1
  BY <1>1, NextNumber
<1>5. A = {k \in 1 .. Len(q) : q[k].line = l}
  BY <1>3 DEF InArrays
<1>6. V = {k \in 1 .. Len(c.wbq) : c.wbq[k].line = l}
  BY <1>3 DEF InWbq
<1>7. CASE A # {}
  <2>1. A \subseteq Nat
    BY <1>5
  <2>2. First(A) \in A
    BY <1>7, <2>1, FirstIn
  <2>3. First(A) \in 1 .. Len(c.arrays[s]) /\ req.line = c.arrays[s][First(A)].line
    BY <1>5, <2>2
  <2>4. Access(c, req) = ServeHit(c, s, First(A), req)
    BY <1>7 DEF Access
  <2> HIDE DEF A, s
  <2> QED BY <1>2, <1>4, <2>3, <2>4, ServeHitGood
<1>8. CASE A = {} /\ V # {}
  <2>1. V \subseteq Nat
    BY <1>6
  <2>2. First(V) \in V
    BY <1>8, <2>1, FirstIn
  <2>3. First(V) \in 1 .. Len(c.wbq) /\ req.line = c.wbq[First(V)].line
    BY <1>6, <2>2
  <2>4. Access(c, req) = Restore(c, First(V), req)
    BY <1>8 DEF Access
  <2> HIDE DEF A, V
  <2> QED BY <1>4, <2>3, <2>4, RestoreGood
<1>9. CASE A = {} /\ V = {}
  <2>1. /\ \A e \in Elems(c.arrays[SetOf(l)]) : e.line # l
        /\ \A v \in Elems(c.wbq) : v.line # l
    BY <1>5, <1>6, <1>9 DEF Elems
  <2>2. Access(c, req) = Miss(c, req)
    BY <1>9 DEF Access
  <2>3. CASE MshrFor(c, l) # {}
    <3>1. MshrFor(c, l) \subseteq Nat
      BY DEF MshrFor, Occupied, MshrIds
    <3>2. First(MshrFor(c, l)) \in MshrFor(c, l)
      BY <2>3, <3>1, FirstIn
    <3>3. Access(c, req) = Merge(c, First(MshrFor(c, l)), req)
      BY <2>2, <2>3 DEF Miss
    <3> QED BY <2>1, <3>2, <3>3, MergeGood
  <2>4. CASE MshrFor(c, l) = {}
    <3>1. NoHome(c, l)
      BY <2>1, <2>4 DEF NoHome, MshrFor
    <3>2. CASE req.write /\ WholeLine(req)
      <4>1. Access(c, req) = InstallWhole(c, req)
        BY <2>2, <2>4, <3>2 DEF Miss
      <4> QED BY <1>4, <3>1, <3>2, <4>1, InstallWholeGood
    <3>3. CASE ~(req.write /\ WholeLine(req))
      <4>1. Access(c, req) = StartMiss(c, req)
        BY <2>2, <2>4, <3>3 DEF Miss
      <4> QED BY <3>1, <4>1, StartMissGood
    <3> QED BY <3>2, <3>3
  <2> QED BY <2>3, <2>4
<1> QED BY <1>7, <1>8, <1>9

-----------------------------------------------------------------------------
(* A refill is installed.  The MSHR is given back at the end; the proof    *)
(* gives it back first, which comes to the same, so that every cache in    *)
(* between is a good one.                                                  *)

(* c is a record of the right fields, whatever they hold.                  *)
Shaped(c) ==
  c = [arrays |-> c.arrays, mshrs |-> c.mshrs, wbq |-> c.wbq,
       installs |-> c.installs, hits |-> c.hits, resp |-> c.resp]

Freed(c, i, x) == [c EXCEPT !.mshrs = [@ EXCEPT ![i] = FreeMshr], !.installs = x]

LEMMA FreedIs ==
  ASSUME NEW c, Shaped(c), NEW i, NEW x
  PROVE  Freed(c, i, x) = [arrays |-> c.arrays, mshrs |-> [c.mshrs EXCEPT ![i] = FreeMshr],
                           wbq |-> c.wbq, installs |-> x, hits |-> c.hits, resp |-> c.resp]
<1> DEFINE A == c.arrays
           K == c.mshrs
           W == c.wbq
           I == c.installs
           H == c.hits
           R == c.resp
<1>1. c = [arrays |-> A, mshrs |-> K, wbq |-> W, installs |-> I, hits |-> H, resp |-> R]
  BY DEF Shaped
<1> DEFINE G == [c.mshrs EXCEPT ![i] = FreeMshr]
<1>2. Freed(c, i, x) = [[c EXCEPT !.mshrs = G] EXCEPT !.installs = x]
  BY DEF Freed
<1> HIDE DEF A, K, W, I, H, R, G
<1>3. [c EXCEPT !.mshrs = G] =
        [arrays |-> A, mshrs |-> G, wbq |-> W, installs |-> I, hits |-> H, resp |-> R]
  BY <1>1
<1>4. Freed(c, i, x) =
        [arrays |-> A, mshrs |-> G, wbq |-> W, installs |-> x, hits |-> H, resp |-> R]
  BY <1>2, <1>3
<1> QED BY <1>4 DEF A, W, H, R, G

ReplayRecord(c, s, k, req) ==
  LET e == c.arrays[s][k] IN
  [arrays |-> [c.arrays EXCEPT ![s] = Append(RemoveAt(@, k),
     [e EXCEPT !.data = Written(req, @), !.dirty = @ \/ req.write])],
   mshrs |-> c.mshrs, wbq |-> c.wbq, installs |-> c.installs, hits |-> c.hits,
   resp |-> Append(c.resp, Answer(req, e.data))]

LEMMA ReplayIs ==
  ASSUME NEW c, Shaped(c), NEW s, NEW k, NEW req
  PROVE  Replay(c, s, k, req) = ReplayRecord(c, s, k, req)
<1> DEFINE A == c.arrays
           K == c.mshrs
           W == c.wbq
           I == c.installs
           H == c.hits
           R == c.resp
           e == A[s][k]
           next == [A EXCEPT ![s] = Append(RemoveAt(@, k),
                      [e EXCEPT !.data = Written(req, @), !.dirty = @ \/ req.write])]
           a == Answer(req, e.data)
           list == Append(R, a)
           p == Perform(c, s, k, req)
<1>1. c = [arrays |-> A, mshrs |-> K, wbq |-> W, installs |-> I, hits |-> H, resp |-> R]
  BY DEF Shaped
<1>2. p.answer = a /\ p.cache = [c EXCEPT !.arrays = next]
  BY DEF Perform
<1> HIDE DEF A, K, W, I, H, R, next, a, list, p
<1>3. p.cache = [arrays |-> next, mshrs |-> K, wbq |-> W, installs |-> I, hits |-> H,
                 resp |-> R]
  BY <1>1, <1>2
<1>4. p.cache.resp = R
  BY <1>3
<1>5. [p.cache EXCEPT !.resp = list] =
        [arrays |-> next, mshrs |-> K, wbq |-> W, installs |-> I, hits |-> H, resp |-> list]
  BY <1>3
<1>6. Replay(c, s, k, req) = [p.cache EXCEPT !.resp = list]
  BY <1>2, <1>4 DEF Replay, p, list
<1> QED BY <1>5, <1>6 DEF ReplayRecord, A, K, W, I, H, R, next, a, list

LEMMA ReplayFreed ==
  ASSUME NEW c, Shaped(c), NEW s, NEW k, NEW req, NEW i, NEW x
  PROVE  /\ Shaped(Replay(c, s, k, req)) /\ Replay(c, s, k, req).installs = c.installs
         /\ Freed(Replay(c, s, k, req), i, x) = Replay(Freed(c, i, x), s, k, req)
<1> DEFINE r == Replay(c, s, k, req)
           f == Freed(c, i, x)
           e == c.arrays[s][k]
           A == [c.arrays EXCEPT ![s] = Append(RemoveAt(@, k),
                   [e EXCEPT !.data = Written(req, @), !.dirty = @ \/ req.write])]
           R == Append(c.resp, Answer(req, e.data))
<1>1. r = [arrays |-> A, mshrs |-> c.mshrs, wbq |-> c.wbq, installs |-> c.installs,
           hits |-> c.hits, resp |-> R]
  BY ReplayIs DEF ReplayRecord
<1>2. f = [arrays |-> c.arrays, mshrs |-> [c.mshrs EXCEPT ![i] = FreeMshr],
           wbq |-> c.wbq, installs |-> x, hits |-> c.hits, resp |-> c.resp]
  BY FreedIs
<1> HIDE DEF f
<1>3. Shaped(f) /\ f.arrays = c.arrays /\ f.mshrs = [c.mshrs EXCEPT ![i] = FreeMshr]
      /\ f.wbq = c.wbq /\ f.installs = x /\ f.hits = c.hits /\ f.resp = c.resp
  BY <1>2 DEF Shaped
<1>4. Replay(f, s, k, req) = ReplayRecord(f, s, k, req)
  BY <1>3, ReplayIs
<1>5. Replay(f, s, k, req) =
        [arrays |-> A, mshrs |-> [c.mshrs EXCEPT ![i] = FreeMshr],
         wbq |-> c.wbq, installs |-> x, hits |-> c.hits, resp |-> R]
  BY <1>3, <1>4 DEF ReplayRecord
<1> HIDE DEF A, R, r
<1>6. Shaped(r) /\ r.arrays = A /\ r.mshrs = c.mshrs
      /\ r.wbq = c.wbq /\ r.installs = c.installs /\ r.hits = c.hits /\ r.resp = R
  BY <1>1 DEF Shaped
<1>7. Freed(r, i, x) =
        [arrays |-> A, mshrs |-> [c.mshrs EXCEPT ![i] = FreeMshr],
         wbq |-> c.wbq, installs |-> x, hits |-> c.hits, resp |-> R]
  BY <1>6, FreedIs
<1> QED BY <1>5, <1>6, <1>7 DEF r, f

InstalledFreed(c, l, d, y, i, x) ==
  LET p == InstallLine(c, l, d, y)
      r == InstallLine(Freed(c, i, x), l, d, y)
  IN  /\ r.ok = p.ok /\ r.way = p.way
      /\ p.ok => /\ r.cache = Freed(p.cache, i, x)
                 /\ Shaped(p.cache) /\ p.cache.installs = c.installs

LEMMA InstallFreed ==
  ASSUME NEW c, Shaped(c), NEW l, NEW d, NEW y, NEW i, NEW x
  PROVE  InstalledFreed(c, l, d, y, i, x)
<1> DEFINE A == c.arrays
           K == c.mshrs
           W == c.wbq
           I == c.installs
           H == c.hits
           R == c.resp
           G == [K EXCEPT ![i] = FreeMshr]
           s == SetOf(l)
           q == A[s]
           full == Len(q) = Ways
           evict == full /\ Head(q).dirty
           new == [line |-> l, data |-> d, dirty |-> y]
           kept == IF full THEN Tail(q) ELSE q
           queue == IF evict
                    THEN Append(W, [line |-> Head(q).line, data |-> Head(q).data])
                    ELSE W
           next == [A EXCEPT ![s] = Append(kept, new)]
           u == Freed(c, i, x)
           p == InstallLine(c, l, d, y)
           r == InstallLine(u, l, d, y)
<1>1. c = [arrays |-> A, mshrs |-> K, wbq |-> W, installs |-> I, hits |-> H, resp |-> R]
  BY DEF Shaped
<1>2. u = [arrays |-> A, mshrs |-> G, wbq |-> W, installs |-> x, hits |-> H, resp |-> R]
  BY FreedIs
<1> HIDE DEF A, K, W, I, H, R, u, G
<1>3. c.arrays = A /\ c.wbq = W /\ c.mshrs = K /\ c.installs = I /\ c.hits = H /\ c.resp = R
  BY DEF A, K, W, I, H, R
<1>4. u.arrays = A /\ u.wbq = W /\ u.mshrs = G /\ u.installs = x /\ u.hits = H /\ u.resp = R
  BY <1>2
<1>5. CASE evict /\ Len(W) >= WbCap
  <2>1. p.ok = FALSE /\ p.way = 1
    BY <1>3, <1>5 DEF InstallLine
  <2>2. r.ok = FALSE /\ r.way = 1
    BY <1>4, <1>5 DEF InstallLine
  <2> QED BY <2>1, <2>2 DEF u, InstalledFreed
<1>6. CASE ~(evict /\ Len(W) >= WbCap)
  <2>1. /\ p.ok = TRUE /\ p.way = Len(kept) + 1
        /\ p.cache = [c EXCEPT !.wbq = queue, !.arrays = next]
    BY <1>3, <1>6 DEF InstallLine
  <2>2. /\ r.ok = TRUE /\ r.way = Len(kept) + 1
        /\ r.cache = [u EXCEPT !.wbq = queue, !.arrays = next]
    BY <1>4, <1>6 DEF InstallLine
  <2> HIDE DEF queue, next, p, r, kept
  <2>3. p.cache = [arrays |-> next, mshrs |-> K, wbq |-> queue, installs |-> I, hits |-> H,
                   resp |-> R]
    BY <1>1, <2>1
  <2>4. r.cache = [arrays |-> next, mshrs |-> G, wbq |-> queue, installs |-> x, hits |-> H,
                   resp |-> R]
    BY <1>2, <2>2
  <2>5. Shaped(p.cache) /\ p.cache.installs = I
    BY <2>3 DEF Shaped
  <2>6. Freed(p.cache, i, x) =
          [arrays |-> next, mshrs |-> G, wbq |-> queue, installs |-> x, hits |-> H, resp |-> R]
    BY <2>3, <2>5, FreedIs DEF G
  <2> QED BY <1>3, <2>1, <2>2, <2>4, <2>5, <2>6 DEF p, r, u, InstalledFreed
<1> QED BY <1>5, <1>6

(* The caches a refill's waiting requests lead through.                    *)
LEMMA ReplayedIs ==
  ASSUME NEW c, NEW s, NEW way, NEW waiting, Len(waiting) \in Nat
  PROVE  \E after : /\ after[0] = c
                    /\ \A j \in 1 .. Len(waiting) :
                         after[j] = Replay(after[j - 1], s, way, waiting[j])
                    /\ Replayed(c, s, way, waiting) = after[Len(waiting)]
<1> DEFINE Step(g, k) == IF k = 0 THEN c ELSE Replay(g[k - 1], s, way, waiting[k])
           Upto(n, g) == g = [k \in 0 .. n |-> Step(g, k)]
           Missing == {n \in Nat : ~\E g : Upto(n, g)}
<1>1. Missing = {}
  <2> SUFFICES ASSUME Missing # {} PROVE FALSE
    OBVIOUS
  <2>1. PICK n \in Missing : \A m \in Missing : n <= m
    BY MinExists
  <2>2. CASE n = 0
    <3>1. Upto(0, [k \in 0 .. 0 |-> c])
      OBVIOUS
    <3> QED BY <2>1, <2>2, <3>1
  <2>3. CASE n # 0
    <3>1. n - 1 \in Nat /\ n - 1 \notin Missing
      <4>1. n \in Nat /\ n - 1 \in Nat
        BY <2>1, <2>3
      <4> HIDE DEF Missing
      <4> QED BY <2>1, <4>1
    <3>2. PICK g : Upto(n - 1, g)
      BY <3>1
    <3> DEFINE h == [k \in 0 .. n |-> Step(g, k)]
    <3>3. \A k \in 0 .. n - 1 : h[k] = g[k]
      BY <2>1, <2>3, <3>2
    <3>4. \A k \in 0 .. n : Step(g, k) = Step(h, k)
      <4> SUFFICES ASSUME NEW k \in 0 .. n PROVE Step(g, k) = Step(h, k)
        OBVIOUS
      <4>1. CASE k = 0
        BY <4>1
      <4>2. CASE k # 0
        <5>1. k - 1 \in 0 .. n - 1
          BY <2>1, <4>2
        <5>2. h[k - 1] = g[k - 1]
          BY <3>3, <5>1
        <5> HIDE DEF h
        <5> QED BY <5>2
      <4> QED BY <4>1, <4>2
    <3>5. Upto(n, h)
      BY <3>4
    <3> QED BY <2>1, <3>5
  <2> QED BY <2>2, <2>3
<1>2. \E g : g = [k \in 0 .. Len(waiting) |-> Step(g, k)]
  BY <1>1
<1> DEFINE f == CHOOSE g : g = [k \in 0 .. Len(waiting) |-> Step(g, k)]
<1>3. f = [k \in 0 .. Len(waiting) |-> Step(f, k)]
  BY <1>2
<1>4. Replayed(c, s, way, waiting) = f[Len(waiting)]
  BY DEF Replayed
<1> HIDE DEF f
<1>5. f[0] = c
  BY <1>3
<1>6. \A j \in 1 .. Len(waiting) : f[j] = Replay(f[j - 1], s, way, waiting[j])
  BY <1>3
<1> QED BY <1>4, <1>5, <1>6

(* x lists delayed refills of c, none twice and not that of MSHR i.        *)
Others(c, i, x) ==
  /\ x \in Seq(Delayed)
  /\ \A k \in 1 .. Len(x) :
       /\ x[k].mshr # i
       /\ \E m \in 1 .. Len(c.installs) : x[k] = c.installs[m]
       /\ \A m \in 1 .. Len(x) : x[m].mshr = x[k].mshr => m = k

(* From c to f MSHR i was given back, and its requests are still to be     *)
(* performed.                                                              *)
GivenBack(c, f, B, F, n, i) ==
  LET l == c.mshrs[i].line
      w == c.mshrs[i].waiting
  IN  /\ Good(f, B, F, n) /\ NoHome(f, l)
      /\ l \in LineSet /\ w \in Seq(Asked)
      /\ Contents(c, B)[l] = Overlaid(w, B[l])
      /\ \A m \in LineSet : m # l => Contents(f, B)[m] = Contents(c, B)[m]
      /\ Due(c, B) = Due(f, B) \cup Promises(c, B, i)
      /\ \A j \in 1 .. Len(w) : w[j].line = l /\ w[j].tag <= n /\ Fresh(f, w[j].tag)
      /\ \A j, k \in 1 .. Len(w) : w[j].tag = w[k].tag => j = k

LEMMA GiveBack ==
  ASSUME NEW c, NEW B, NEW F, NEW n, Good(c, B, F, n),
         NEW i \in MshrIds, c.mshrs[i].valid,
         NEW x, Others(c, i, x), NEW E, E \subseteq F, \A r \in E : r.tag # i
  PROVE  GivenBack(c, Freed(c, i, x), B, E, n, i)
<1> DEFINE f == Freed(c, i, x)
           l == c.mshrs[i].line
           w == c.mshrs[i].waiting
           G == [c.mshrs EXCEPT ![i] = FreeMshr]
<1>1. c \in CacheState /\ Fits(c) /\ Apart(c) /\ Awaited(c, B, F) /\ Numbered(c, n)
      /\ B \in [LineSet -> LineData] /\ n \in Datum
  BY DEF Good, Fits
<1>2. /\ c.arrays \in [SetIds -> Seq(Stored)] /\ c.mshrs \in [MshrIds -> MissState]
      /\ c.wbq \in Seq(Victim) /\ c.installs \in Seq(Delayed)
      /\ c.hits \in Seq(Reply) /\ c.resp \in Seq(Reply) /\ Shaped(c)
  BY <1>1, StateParts DEF Shaped
<1>3. f = [arrays |-> c.arrays, mshrs |-> G, wbq |-> c.wbq, installs |-> x,
           hits |-> c.hits, resp |-> c.resp]
  BY <1>2, FreedIs
<1>4. c.mshrs[i] \in MissState /\ l \in LineSet /\ w \in Seq(Asked) /\ SetOf(l) \in SetIds
  BY <1>2, SetOfRange DEF MissState
<1>5. FreeMshr \in MissState /\ FreeMshr.valid = FALSE /\ FreeMshr.waiting = <<>>
  <2>1. 0 \in LineSet
    BY CacheAssumption DEF LineSet
  <2> QED BY <2>1 DEF FreeMshr, MissState
<1>6. G[i] = FreeMshr /\ \A k \in MshrIds : k # i => G[k] = c.mshrs[k]
  BY <1>2
<1>7. G \in [MshrIds -> MissState]
  BY <1>2, <1>5
<1> HIDE DEF f, G
<1>8. /\ f.arrays = c.arrays /\ f.mshrs = G /\ f.wbq = c.wbq /\ f.installs = x
      /\ f.hits = c.hits /\ f.resp = c.resp
  BY <1>3
<1>9. /\ Occupied(f) = Occupied(c) \ {i} /\ i \in Occupied(c)
      /\ \A k \in Occupied(f) : k \in MshrIds /\ G[k] = c.mshrs[k]
  BY <1>5, <1>6, <1>8 DEF Occupied
<1>10. Fits(f)
  <2>1. f \in CacheState
    BY <1>2, <1>3, <1>7 DEF CacheState, Others
  <2> QED BY <1>1, <1>8, <2>1 DEF Fits
<1>11. Apart(f)
  BY <1>1, <1>8, <1>9 DEF Apart
<1>12. Awaited(f, B, E)
  <2>1. ASSUME NEW k \in MshrIds
        PROVE  /\ G[k].valid <=> G[k].waiting # <<>>
               /\ \A j \in 1 .. Len(G[k].waiting) : G[k].waiting[j].line = G[k].line
    <3>1. CASE k = i
      BY <1>5, <1>6, <3>1
    <3>2. CASE k # i
      BY <1>1, <1>6, <3>2 DEF Awaited
    <3> QED BY <3>1, <3>2
  <2>2. ASSUME NEW r \in E
        PROVE  /\ r \in [tag : MshrIds, data : LineData]
               /\ G[r.tag].valid /\ G[r.tag].sent /\ r.data = B[G[r.tag].line]
    <3>1. /\ r \in [tag : MshrIds, data : LineData]
          /\ c.mshrs[r.tag].valid /\ c.mshrs[r.tag].sent /\ r.data = B[c.mshrs[r.tag].line]
      BY <1>1 DEF Awaited
    <3>2. r.tag \in MshrIds /\ r.tag # i
      BY <3>1
    <3> QED BY <1>6, <3>1, <3>2
  <2>3. ASSUME NEW k \in 1 .. Len(x)
        PROVE  LET j == x[k].mshr IN
               /\ G[j].valid /\ G[j].sent /\ x[k].data = B[G[j].line]
               /\ \A r \in E : r.tag # j
               /\ \A m \in 1 .. Len(x) : x[m].mshr = j => m = k
    <3>1. PICK m \in 1 .. Len(c.installs) : x[k] = c.installs[m]
      BY DEF Others
    <3>2. x[k].mshr # i /\ \A y \in 1 .. Len(x) : x[y].mshr = x[k].mshr => y = k
      BY DEF Others
    <3>3. x[k] \in Delayed
      BY <1>2, <3>1
    <3>4. x[k].mshr \in MshrIds
      BY <3>3 DEF Delayed
    <3>5. G[x[k].mshr] = c.mshrs[x[k].mshr]
      BY <1>6, <3>2, <3>4
    <3> QED BY <1>1, <3>1, <3>2, <3>5 DEF Awaited
  <2>4. \A s \in SetIds : \A e \in Elems(c.arrays[s]) : e.dirty \/ e.data = B[e.line]
    BY <1>1 DEF Awaited
  <2> QED BY <1>8, <2>1, <2>2, <2>3, <2>4 DEF Awaited
<1>13. \A k \in MshrIds : \A j \in 1 .. Len(G[k].waiting) : k # i /\ G[k] = c.mshrs[k]
  BY <1>5, <1>6
<1>14. Numbered(f, n)
  <2>1. /\ TagsDiffer(c.resp) /\ TagsDiffer(c.hits)
        /\ \A a \in Elems(c.resp), b \in Elems(c.hits) : a.tag # b.tag
        /\ \A a \in Elems(c.resp) \cup Elems(c.hits) : a.tag <= n
    BY <1>1 DEF Numbered
  <2>2. ASSUME NEW k \in MshrIds, NEW j \in 1 .. Len(G[k].waiting)
        PROVE  LET t == G[k].waiting[j].tag IN
               /\ t <= n
               /\ \A a \in Elems(c.resp) \cup Elems(c.hits) : a.tag # t
               /\ \A y \in MshrIds : \A z \in 1 .. Len(G[y].waiting) :
                    G[y].waiting[z].tag = t => y = k /\ z = j
    <3>1. G[k] = c.mshrs[k] /\ j \in 1 .. Len(c.mshrs[k].waiting)
      BY <1>13
    <3> DEFINE t == c.mshrs[k].waiting[j].tag
    <3>2. /\ t <= n /\ \A a \in Elems(c.resp) \cup Elems(c.hits) : a.tag # t
          /\ \A y \in MshrIds : \A z \in 1 .. Len(c.mshrs[y].waiting) :
               c.mshrs[y].waiting[z].tag = t => y = k /\ z = j
      BY <1>1, <3>1 DEF Numbered
    <3> HIDE DEF t
    <3>3. \A y \in MshrIds : \A z \in 1 .. Len(G[y].waiting) :
            G[y].waiting[z].tag = t => y = k /\ z = j
      BY <1>13, <3>2
    <3> QED BY <3>1, <3>2, <3>3 DEF t
  <2> QED BY <1>8, <2>1, <2>2 DEF Numbered
<1>15. Good(f, B, E, n)
  BY <1>1, <1>10, <1>11, <1>12, <1>14 DEF Good
<1>16. NoHome(f, l)
  <2>1. \A e \in Elems(c.arrays[SetOf(l)]) : e.line # l
    BY <1>1, <1>4, <1>9 DEF Apart
  <2>2. \A v \in Elems(c.wbq) : v.line # l
    BY <1>1, <1>9 DEF Apart
  <2>3. \A k \in Occupied(f) : f.mshrs[k].line # l
    BY <1>1, <1>8, <1>9 DEF Apart
  <2> QED BY <1>8, <2>1, <2>2, <2>3 DEF NoHome
<1>17. Contents(c, B)[l] = Overlaid(w, B[l])
  BY <1>1, <1>4, <1>9, PeekIs DEF Contents
<1>18. ASSUME NEW m \in LineSet, m # l
       PROVE  Peek(f, m, B[m]) = Peek(c, m, B[m])
  <2>1. CASE \E a \in Elems(c.arrays[SetOf(m)]) : a.line = m
    BY <1>1, <1>8, <1>10, <1>11, <2>1, PeekIs
  <2>2. CASE \E v \in Elems(c.wbq) : v.line = m
    BY <1>1, <1>8, <1>10, <1>11, <2>2, PeekIs
  <2>3. CASE \E k \in Occupied(c) : c.mshrs[k].line = m
    <3>1. PICK k \in Occupied(c) : c.mshrs[k].line = m
      BY <2>3
    <3>2. k \in Occupied(f) /\ f.mshrs[k] = c.mshrs[k]
      BY <1>8, <1>9, <1>18, <3>1
    <3>3. Peek(c, m, B[m]) = Overlaid(c.mshrs[k].waiting, B[m])
      BY <1>1, <3>1, PeekIs
    <3>4. Peek(f, m, B[m]) = Overlaid(c.mshrs[k].waiting, B[m])
      BY <1>10, <1>11, <3>1, <3>2, PeekIs
    <3> QED BY <3>3, <3>4
  <2>4. CASE NoHome(c, m)
    <3>1. NoHome(f, m)
      BY <1>8, <1>9, <2>4 DEF NoHome
    <3> QED BY <1>1, <1>10, <1>11, <2>4, <3>1, PeekIs
  <2> QED BY <2>1, <2>2, <2>3, <2>4 DEF NoHome
<1>19. \A m \in LineSet : m # l => Contents(f, B)[m] = Contents(c, B)[m]
  BY <1>18 DEF Contents
<1>20. Due(c, B) = Due(f, B) \cup Promises(c, B, i)
  <2>1. Promises(f, B, i) = {}
    BY <1>5, <1>6, <1>8 DEF Promises
  <2>2. \A k \in MshrIds : k # i => Promises(f, B, k) = Promises(c, B, k)
    BY <1>6, <1>8 DEF Promises, Promise
  <2> QED BY <1>8, <2>1, <2>2 DEF Due
<1>21. \A j \in 1 .. Len(w) : w[j].line = l /\ w[j].tag <= n /\ Fresh(f, w[j].tag)
  <2> SUFFICES ASSUME NEW j \in 1 .. Len(w)
               PROVE  w[j].line = l /\ w[j].tag <= n /\ Fresh(f, w[j].tag)
    OBVIOUS
  <2>1. w[j].line = l
    BY <1>1 DEF Awaited
  <2>2. w[j].tag <= n /\ \A a \in Elems(c.resp) \cup Elems(c.hits) : a.tag # w[j].tag
    BY <1>1 DEF Numbered
  <2>3. \A k \in MshrIds : \A y \in 1 .. Len(c.mshrs[k].waiting) :
          c.mshrs[k].waiting[y].tag = w[j].tag => k = i /\ y = j
    BY <1>1 DEF Numbered
  <2>4. \A k \in MshrIds : \A y \in 1 .. Len(G[k].waiting) : G[k].waiting[y].tag # w[j].tag
    BY <1>13, <2>3
  <2> QED BY <1>8, <2>1, <2>2, <2>4 DEF Fresh
<1>22. \A j, k \in 1 .. Len(w) : w[j].tag = w[k].tag => j = k
  BY <1>1 DEF Numbered
<1> QED BY <1>4, <1>15, <1>16, <1>17, <1>19, <1>20, <1>21, <1>22 DEF GivenBack, f

LEMMA FreshAppend ==
  ASSUME NEW c, c \in CacheState, NEW t, Fresh(c, t), NEW a \in Reply, a.tag # t
  PROVE  Fresh([c EXCEPT !.resp = Append(@, a)], t)
<1> DEFINE x == [c EXCEPT !.resp = Append(c.resp, a)]
           R == Append(c.resp, a)
<1>1. c.resp \in Seq(Reply)
  BY StateParts
<1>2. Elems(R) = Elems(c.resp) \cup {a}
  BY <1>1, AppendSeq
<1>3. x = [arrays |-> c.arrays, mshrs |-> c.mshrs, wbq |-> c.wbq,
           installs |-> c.installs, hits |-> c.hits, resp |-> R]
  BY Updated
<1> HIDE DEF x, R
<1>4. x.resp = R /\ x.mshrs = c.mshrs /\ x.hits = c.hits
  BY <1>3
<1>5. Fresh(x, t)
  BY <1>2, <1>4 DEF Fresh
<1> QED BY <1>5 DEF x

(* a is the cache after j of the requests that waited in MSHR i of c, f is *)
(* c without that MSHR, and the line is at position k.                     *)
Replaying(c, a, f, B, E, n, i, x, k, j) ==
  LET l == c.mshrs[i].line
      w == c.mshrs[i].waiting
      s == SetOf(l)
      z == Freed(a, i, x)
  IN  /\ Shaped(a) /\ a.installs = c.installs
      /\ Good(z, B, E, n)
      /\ Len(z.arrays[s]) = k /\ k \in 1 .. k /\ z.arrays[s][k].line = l
      /\ Contents(z, B) = [Contents(c, B) EXCEPT ![l] = Overlaid(SubSeq(w, 1, j), B[l])]
      /\ Due(z, B) = Due(f, B) \cup {Note(Promise(c, B, i, m)) : m \in 1 .. j}
      /\ \A m \in 1 .. Len(w) : m > j => Fresh(z, w[m].tag)

LEMMA ReplayStep ==
  ASSUME NEW c, NEW f, NEW B, NEW E, NEW n, NEW i, GivenBack(c, f, B, E, n, i),
         NEW a, NEW x, NEW k, NEW j \in Nat, j + 1 <= Len(c.mshrs[i].waiting),
         Replaying(c, a, f, B, E, n, i, x, k, j)
  PROVE  Replaying(c, Replay(a, SetOf(c.mshrs[i].line), k, c.mshrs[i].waiting[j + 1]),
                   f, B, E, n, i, x, k, j + 1)
<1> DEFINE l == c.mshrs[i].line
           w == c.mshrs[i].waiting
           s == SetOf(l)
           z == Freed(a, i, x)
           req == w[j + 1]
           b == Replay(a, s, k, req)
           p == Perform(z, s, k, req)
           y == p.cache
           e == p.answer
           v == [y EXCEPT !.resp = Append(y.resp, e)]
           old == Overlaid(SubSeq(w, 1, j), B[l])
           new == Overlaid(SubSeq(w, 1, j + 1), B[l])
<1>1. /\ l \in LineSet /\ w \in Seq(Asked) /\ s \in SetIds
      /\ \A m \in 1 .. Len(w) : w[m].line = l /\ w[m].tag <= n
      /\ \A m, o \in 1 .. Len(w) : w[m].tag = w[o].tag => m = o
  BY SetOfRange DEF GivenBack
<1>2. /\ Shaped(a) /\ a.installs = c.installs /\ Good(z, B, E, n)
      /\ Len(z.arrays[s]) = k /\ k \in 1 .. k /\ z.arrays[s][k].line = l
      /\ Contents(z, B) = [Contents(c, B) EXCEPT ![l] = old]
      /\ Due(z, B) = Due(f, B) \cup {Note(Promise(c, B, i, m)) : m \in 1 .. j}
      /\ \A m \in 1 .. Len(w) : m > j => Fresh(z, w[m].tag)
  BY DEF Replaying
<1>3. j + 1 \in 1 .. Len(w) /\ j + 1 > j
  BY <1>1
<1>4. /\ req \in Asked /\ req.line = l /\ req.tag <= n /\ Fresh(z, req.tag)
  BY <1>1, <1>2, <1>3
<1>5. Shaped(b) /\ b.installs = c.installs /\ Freed(b, i, x) = Replay(z, s, k, req)
  <2> HIDE DEF s, req
  <2> QED BY <1>2, ReplayFreed
<1>6. Replay(z, s, k, req) = v
  BY DEF Replay
<1>7. /\ Good(y, B, E, n) /\ e = Answer(req, Contents(z, B)[l])
      /\ Len(y.arrays[s]) = Len(z.arrays[s]) /\ y.arrays[s][Len(y.arrays[s])].line = l
      /\ y.mshrs = z.mshrs /\ y.hits = z.hits /\ y.resp = z.resp
      /\ Contents(y, B) = [Contents(z, B) EXCEPT ![l] = Written(req, @)]
  <2>1. k \in 1 .. Len(z.arrays[s]) /\ req.line = z.arrays[s][k].line
    BY <1>2, <1>4
  <2> HIDE DEF z, s, req, l
  <2>2. Performed(z, B, E, n, s, k, req)
    BY <1>1, <1>2, <1>4, <2>1, PerformGood
  <2> QED BY <1>4, <2>2 DEF Performed
<1>8. Contents(z, B)[l] \in LineData /\ DOMAIN Contents(c, B) = LineSet
  <2> DEFINE h == z.arrays[s][k]
  <2>1. h \in Elems(z.arrays[s]) /\ Good(z, B, E, n) /\ s \in SetIds
    BY <1>1, <1>2 DEF Elems
  <2>2. h.line = l
    BY <1>2
  <2> HIDE DEF h, s, z, l
  <2>3. h.data \in LineData /\ Contents(z, B)[h.line] = h.data
    BY <2>1, ContentsAt
  <2> QED BY <2>2, <2>3 DEF Contents
<1> HIDE DEF z, p, y, e, v, b
<1>9. Contents(z, B)[l] = old /\ old \in LineData
  BY <1>1, <1>2, <1>8
<1>10. e = Promise(c, B, i, j + 1)
  <2>1. (j + 1) - 1 = j
    OBVIOUS
  <2> QED BY <1>7, <1>9, <2>1 DEF Promise
<1>11. e \in Reply /\ e.tag = req.tag
  BY <1>4, <1>7, <1>9, AnswerType
<1>12. Fresh(y, e.tag) /\ Due(y, B) = Due(z, B)
  BY <1>4, <1>7, <1>11, FreshSame, DueSame
<1>13. /\ Good(v, B, E, n) /\ v.arrays = y.arrays /\ Contents(v, B) = Contents(y, B)
       /\ Due(v, B) = Due(y, B) \cup {Note(e)}
  <2>1. v = [y EXCEPT !.resp = Append(@, e)] /\ e.tag <= n
    BY <1>4, <1>11 DEF v
  <2>2. Listed(y, v, B, E, n, e)
    BY <1>7, <1>11, <1>12, <2>1, AnswerListed
  <2> QED BY <2>2 DEF Listed
<1>14. new = Written(req, old)
  <2>1. SubSeq(w, 1, j) \in Seq(Asked) /\ SubSeq(w, 1, j + 1) = Append(SubSeq(w, 1, j), req)
    BY <1>1, <1>3
  <2> HIDE DEF req
  <2> QED BY <1>4, <2>1, OverlaidAppend
<1>15. Contents(v, B) = [Contents(c, B) EXCEPT ![l] = new]
  BY <1>1, <1>2, <1>7, <1>8, <1>9, <1>13, <1>14
<1>16. Due(v, B) = Due(f, B) \cup {Note(Promise(c, B, i, m)) : m \in 1 .. j + 1}
  <2>1. \A m : m \in 1 .. j + 1 <=> m \in 1 .. j \/ m = j + 1
    OBVIOUS
  <2> QED BY <1>2, <1>10, <1>12, <1>13, <2>1
<1>17. ASSUME NEW m \in 1 .. Len(w), m > j + 1
       PROVE  Fresh(v, w[m].tag)
  <2>1. m > j /\ m # j + 1
    BY <1>17
  <2>2. Fresh(z, w[m].tag) /\ w[m].tag # e.tag
    BY <1>1, <1>2, <1>3, <1>11, <2>1
  <2>3. Fresh(y, w[m].tag) /\ y \in CacheState
    BY <1>7, <2>2, FreshSame DEF Good, Fits
  <2> QED BY <1>11, <2>2, <2>3, FreshAppend DEF v
<1>18. Freed(b, i, x) = v
  BY <1>5, <1>6
<1> QED BY <1>2, <1>5, <1>7, <1>13, <1>15, <1>16, <1>17, <1>18 DEF Replaying, b

(* From c to t the refill of a line was installed and its requests were    *)
(* answered; x is what is then left of the delayed refills.                *)
Settled(c, t, B, E, n, x) ==
  LET y == [t EXCEPT !.installs = x]
  IN  /\ Good(y, B, E, n) /\ y.installs = x
      /\ Contents(y, B) = Contents(c, B) /\ Due(y, B) = Due(c, B)
      /\ t.installs = c.installs /\ [t EXCEPT !.installs = c.installs] = t

LEMMA TryInstallGood ==
  ASSUME NEW c, NEW B, NEW F, NEW n, Good(c, B, F, n),
         NEW i \in MshrIds, c.mshrs[i].valid,
         NEW x, Others(c, i, x), NEW E, E \subseteq F, \A r \in E : r.tag # i,
         NEW d, d = B[c.mshrs[i].line], TryInstall(c, i, d).ok
  PROVE  Settled(c, TryInstall(c, i, d).cache, B, E, n, x)
<1> DEFINE l == c.mshrs[i].line
           w == c.mshrs[i].waiting
           s == SetOf(l)
           no == FALSE
           p == InstallLine(c, l, d, no)
           k == p.way
           f == Freed(c, i, x)
           q == InstallLine(f, l, d, no)
           r == Replayed(p.cache, s, k, w)
           t == TryInstall(c, i, d).cache
<1>1. p.ok /\ t = [r EXCEPT !.mshrs[i] = FreeMshr]
  BY DEF TryInstall
<1>2. GivenBack(c, f, B, E, n, i)
  BY GiveBack
<1>3. /\ Good(f, B, E, n) /\ NoHome(f, l) /\ l \in LineSet /\ w \in Seq(Asked)
      /\ Contents(c, B)[l] = Overlaid(w, B[l])
      /\ \A m \in LineSet : m # l => Contents(f, B)[m] = Contents(c, B)[m]
      /\ Due(c, B) = Due(f, B) \cup Promises(c, B, i)
      /\ \A j \in 1 .. Len(w) : Fresh(f, w[j].tag)
  BY <1>2 DEF GivenBack
<1>4. d \in LineData /\ no \in BOOLEAN /\ Shaped(c) /\ B \in [LineSet -> LineData]
      /\ s \in SetIds
  <2>1. c \in CacheState /\ B \in [LineSet -> LineData]
    BY DEF Good, Fits
  <2>2. d = B[l]
    OBVIOUS
  <2> QED BY <1>3, <2>1, <2>2, StateParts, SetOfRange DEF Shaped
<1>5. /\ q.ok = p.ok /\ q.way = k /\ q.cache = Freed(p.cache, i, x)
      /\ Shaped(p.cache) /\ p.cache.installs = c.installs
  <2>1. InstalledFreed(c, l, d, no, i, x)
    <3> HIDE DEF l, no
    <3> QED BY <1>4, InstallFreed
  <2> QED BY <1>1, <2>1 DEF InstalledFreed
<1> HIDE DEF f
<1>6. Installed(f, B, E, n, l, d, no)
  <2>1. q.ok /\ (no = FALSE => d = B[l])
    BY <1>1, <1>5
  <2> HIDE DEF l, no, p
  <2> QED BY <1>3, <1>4, <2>1, InstallGood
<1> DEFINE z == q.cache
<1>7. /\ Good(z, B, E, n) /\ k = Len(z.arrays[s]) /\ k \in 1 .. k
      /\ z.arrays[s][k].line = l
      /\ z.mshrs = f.mshrs /\ z.hits = f.hits /\ z.resp = f.resp
      /\ Contents(z, B) = [Contents(f, B) EXCEPT ![l] = d]
  <2>1. /\ Good(z, B, E, n) /\ q.way = Len(z.arrays[s]) /\ q.way \in 1 .. Len(z.arrays[s])
        /\ z.arrays[s][q.way] = [line |-> l, data |-> d, dirty |-> no]
        /\ z.mshrs = f.mshrs /\ z.hits = f.hits /\ z.resp = f.resp
        /\ Contents(z, B) = [Contents(f, B) EXCEPT ![l] = d]
    BY <1>6 DEF Installed
  <2>2. q.way = k
    BY <1>5
  <2> HIDE DEF z, q, p, k, l, s, no
  <2> QED BY <2>1, <2>2
<1>8. z = Freed(p.cache, i, x)
  BY <1>5
<1> HIDE DEF p, q, z, k, no, r, t
<1>9. Len(w) \in Nat
  BY <1>3
<1>10. PICK after :
         /\ after[0] = p.cache
         /\ \A j \in 1 .. Len(w) : after[j] = Replay(after[j - 1], s, k, w[j])
         /\ r = after[Len(w)]
  <2> HIDE DEF w, s
  <2> QED BY <1>9, ReplayedIs DEF r
<1> DEFINE Holds(j) == Replaying(c, after[j], f, B, E, n, i, x, k, j)
           Wrong == {j \in Nat : j <= Len(w) /\ ~Holds(j)}
<1>11. Holds(0)
  <2>1. SubSeq(w, 1, 0) = <<>> /\ Overlaid(<<>>, B[l]) = B[l]
    <3>1. B[l] \in LineData
      BY <1>3, <1>4
    <3> QED BY <1>3, <3>1, OverlaidEmpty
  <2>2. Contents(z, B) = [Contents(c, B) EXCEPT ![l] = B[l]]
    BY <1>3, <1>7 DEF Contents
  <2>3. Due(z, B) = Due(f, B)
    BY <1>7, DueSame
  <2>4. \A m \in 1 .. Len(w) : Fresh(z, w[m].tag)
    BY <1>3, <1>7, FreshSame
  <2>5. {Note(Promise(c, B, i, m)) : m \in 1 .. 0} = {}
    OBVIOUS
  <2>6. /\ Good(Freed(p.cache, i, x), B, E, n)
        /\ Len(Freed(p.cache, i, x).arrays[s]) = k /\ k \in 1 .. k
        /\ Freed(p.cache, i, x).arrays[s][k].line = l
    BY <1>7, <1>8
  <2>7. /\ Contents(Freed(p.cache, i, x), B) =
             [Contents(c, B) EXCEPT ![l] = Overlaid(SubSeq(w, 1, 0), B[l])]
        /\ Due(Freed(p.cache, i, x), B) =
             Due(f, B) \cup {Note(Promise(c, B, i, m)) : m \in 1 .. 0}
        /\ \A m \in 1 .. Len(w) : m > 0 => Fresh(Freed(p.cache, i, x), w[m].tag)
    BY <1>8, <2>1, <2>2, <2>3, <2>4, <2>5
  <2>8. Replaying(c, p.cache, f, B, E, n, i, x, k, 0)
    BY <1>5, <2>6, <2>7 DEF Replaying
  <2> QED BY <1>10, <2>8
<1>12. ASSUME NEW j \in Nat, j + 1 <= Len(w), Holds(j)
       PROVE  Holds(j + 1)
  <2>1. j + 1 \in 1 .. Len(w) /\ (j + 1) - 1 = j
    BY <1>9, <1>12
  <2>2. after[j + 1] = Replay(after[j], s, k, w[j + 1])
    BY <1>10, <2>1
  <2> QED BY <1>2, <1>12, <2>2, ReplayStep
<1>13. Wrong = {}
  <2> HIDE DEF Holds
  <2> SUFFICES ASSUME Wrong # {} PROVE FALSE
    OBVIOUS
  <2>1. PICK j \in Wrong : \A m \in Wrong : j <= m
    BY MinExists
  <2>2. j \in Nat /\ j <= Len(w) /\ ~Holds(j)
    BY <2>1
  <2>3. j # 0
    BY <1>11, <2>2
  <2>4. j - 1 \in Nat /\ (j - 1) + 1 = j
    BY <2>2, <2>3
  <2>5. Holds(j - 1)
    BY <1>9, <2>1, <2>2, <2>4
  <2> QED BY <1>12, <2>2, <2>4, <2>5
<1>14. Holds(Len(w))
  BY <1>9, <1>13
<1> DEFINE y == Freed(r, i, x)
<1>15. /\ Shaped(r) /\ r.installs = c.installs /\ Good(y, B, E, n)
       /\ Contents(y, B) = [Contents(c, B) EXCEPT ![l] = Overlaid(SubSeq(w, 1, Len(w)), B[l])]
       /\ Due(y, B) = Due(f, B) \cup {Note(Promise(c, B, i, m)) : m \in 1 .. Len(w)}
  BY <1>10, <1>14 DEF Replaying
<1>16. Contents(y, B) = Contents(c, B)
  <2>1. SubSeq(w, 1, Len(w)) = w
    BY <1>3
  <2> QED BY <1>3, <1>15, <2>1 DEF Contents
<1>17. Due(y, B) = Due(c, B)
  BY <1>3, <1>15 DEF Promises
<1>18. /\ y = [arrays |-> r.arrays, mshrs |-> [r.mshrs EXCEPT ![i] = FreeMshr],
               wbq |-> r.wbq, installs |-> x, hits |-> r.hits, resp |-> r.resp]
       /\ Freed(r, i, c.installs) =
              [arrays |-> r.arrays, mshrs |-> [r.mshrs EXCEPT ![i] = FreeMshr],
               wbq |-> r.wbq, installs |-> c.installs, hits |-> r.hits, resp |-> r.resp]
  BY <1>15, FreedIs
<1> QED
  <2> DEFINE G == [r.mshrs EXCEPT ![i] = FreeMshr]
  <2> HIDE DEF y
  <2>1. t = Freed(r, i, c.installs)
    <3>1. t = [r EXCEPT !.mshrs = G]
      BY <1>1
    <3> DEFINE A == r.arrays
               K == r.mshrs
               W == r.wbq
               H == r.hits
               R == r.resp
               I == c.installs
    <3>2. r = [arrays |-> A, mshrs |-> K, wbq |-> W, installs |-> I, hits |-> H, resp |-> R]
      BY <1>15 DEF Shaped
    <3> HIDE DEF G, A, K, W, H, R, I
    <3>3. t = [arrays |-> A, mshrs |-> G, wbq |-> W, installs |-> I, hits |-> H, resp |-> R]
      BY <3>1, <3>2
    <3> QED BY <1>18, <3>3 DEF G, A, W, H, R, I
  <2>2. t = [arrays |-> r.arrays, mshrs |-> G, wbq |-> r.wbq, installs |-> c.installs,
             hits |-> r.hits, resp |-> r.resp]
    BY <1>18, <2>1
  <2>3. y = [arrays |-> r.arrays, mshrs |-> G, wbq |-> r.wbq, installs |-> x,
             hits |-> r.hits, resp |-> r.resp]
    BY <1>18
  <2> HIDE DEF G
  <2>4. [t EXCEPT !.installs = x] = y
    BY <2>2, <2>3
  <2>5. t.installs = c.installs /\ [t EXCEPT !.installs = c.installs] = t
    BY <2>2
  <2>6. y.installs = x
    BY <2>3
  <2> QED BY <1>15, <1>16, <1>17, <2>4, <2>5, <2>6 DEF Settled, t

-----------------------------------------------------------------------------
(* What a requester does not notice.                                       *)

Unnoticed(c, x, B, E, n) ==
  /\ Good(x, B, E, n)
  /\ Contents(x, B) = Contents(c, B)
  /\ Due(x, B) = Due(c, B)

(* A refill that cannot be installed yet is remembered.                    *)
LEMMA DelayGood ==
  ASSUME NEW c, NEW B, NEW F, NEW n, Good(c, B, F, n), NEW r \in F,
         NEW w, w = [mshr |-> r.tag, data |-> r.data],
         NEW E, E \subseteq F, \A q \in E : q.tag # r.tag
  PROVE  Unnoticed(c, [c EXCEPT !.installs = Append(@, w)], B, E, n)
<1> DEFINE I == Append(c.installs, w)
           x == [c EXCEPT !.installs = Append(c.installs, w)]
           A == c.arrays
           K == c.mshrs
           W == c.wbq
           J == c.installs
           H == c.hits
           R == c.resp
<1>1. c \in CacheState /\ Fits(c) /\ Apart(c) /\ Awaited(c, B, F) /\ Numbered(c, n)
      /\ B \in [LineSet -> LineData] /\ n \in Datum
  BY DEF Good, Fits
<1>2. /\ A \in [SetIds -> Seq(Stored)] /\ K \in [MshrIds -> MissState]
      /\ W \in Seq(Victim) /\ J \in Seq(Delayed) /\ H \in Seq(Reply) /\ R \in Seq(Reply)
      /\ c = [arrays |-> A, mshrs |-> K, wbq |-> W, installs |-> J, hits |-> H, resp |-> R]
  BY <1>1, StateParts
<1>3. /\ r \in [tag : MshrIds, data : LineData]
      /\ c.mshrs[r.tag].valid /\ c.mshrs[r.tag].sent /\ r.data = B[c.mshrs[r.tag].line]
      /\ \A k \in 1 .. Len(J) : J[k].mshr # r.tag
  BY <1>1 DEF Awaited
<1>4. w \in Delayed /\ w.mshr = r.tag /\ w.data = r.data
  BY <1>3 DEF Delayed
<1>5. /\ I \in Seq(Delayed) /\ Len(J) \in Nat /\ Len(I) = Len(J) + 1
      /\ I[Len(J) + 1] = w /\ \A k \in 1 .. Len(J) : I[k] = J[k]
  BY <1>2, <1>4, AppendSeq
<1>6. x = [arrays |-> A, mshrs |-> K, wbq |-> W, installs |-> I, hits |-> H, resp |-> R]
  <2>1. x = [c EXCEPT !.installs = I]
    OBVIOUS
  <2> HIDE DEF x, A, K, W, J, H, R, I
  <2> QED BY <1>2, <2>1
<1> HIDE DEF A, K, W, J, H, R, I, x
<1>7. x.arrays = c.arrays /\ x.mshrs = c.mshrs /\ x.wbq = c.wbq /\ x.installs = I
      /\ x.hits = c.hits /\ x.resp = c.resp
  BY <1>6 DEF A, K, W, H, R
<1>8. Occupied(x) = Occupied(c)
  BY <1>7 DEF Occupied
<1>9. Fits(x)
  <2>1. x \in CacheState
    BY <1>2, <1>5, <1>6 DEF CacheState
  <2> QED BY <1>1, <1>7, <2>1 DEF Fits
<1>10. Apart(x)
  BY <1>1, <1>7, <1>8 DEF Apart
<1>11. Awaited(x, B, E)
  <2>1. \A i \in MshrIds :
          /\ c.mshrs[i].valid <=> c.mshrs[i].waiting # <<>>
          /\ \A j \in 1 .. Len(c.mshrs[i].waiting) :
               c.mshrs[i].waiting[j].line = c.mshrs[i].line
    BY <1>1 DEF Awaited
  <2>2. \A q \in E :
          /\ q \in [tag : MshrIds, data : LineData]
          /\ c.mshrs[q.tag].valid /\ c.mshrs[q.tag].sent
          /\ q.data = B[c.mshrs[q.tag].line]
    BY <1>1 DEF Awaited
  <2>3. ASSUME NEW k \in 1 .. Len(I)
        PROVE  LET i == I[k].mshr IN
               /\ c.mshrs[i].valid /\ c.mshrs[i].sent
               /\ I[k].data = B[c.mshrs[i].line]
               /\ \A q \in E : q.tag # i
               /\ \A m \in 1 .. Len(I) : I[m].mshr = i => m = k
    <3>1. \A m \in 1 .. Len(I) : m \in 1 .. Len(J) \/ m = Len(J) + 1
      BY <1>5
    <3>2. CASE k \in 1 .. Len(J)
      <4>1. /\ I[k] = J[k] /\ I[k].mshr # r.tag
            /\ c.mshrs[J[k].mshr].valid /\ c.mshrs[J[k].mshr].sent
            /\ J[k].data = B[c.mshrs[J[k].mshr].line]
            /\ \A q \in E : q.tag # J[k].mshr
            /\ \A m \in 1 .. Len(J) : J[m].mshr = J[k].mshr => m = k
        BY <1>1, <1>3, <1>5, <3>2 DEF Awaited, J
      <4>2. \A m \in 1 .. Len(I) : I[m].mshr = I[k].mshr => m = k
        BY <1>4, <1>5, <3>1, <4>1
      <4> QED BY <4>1, <4>2
    <3>3. CASE k = Len(J) + 1
      <4>1. I[k] = w
        BY <1>5, <3>3
      <4>2. \A m \in 1 .. Len(I) : I[m].mshr = r.tag => m = k
        BY <1>3, <1>5, <3>1, <3>3
      <4> QED BY <1>3, <1>4, <4>1, <4>2
    <3> QED BY <3>1, <3>2, <3>3
  <2>4. \A s \in SetIds : \A e \in Elems(c.arrays[s]) : e.dirty \/ e.data = B[e.line]
    BY <1>1 DEF Awaited
  <2> QED BY <1>7, <2>1, <2>2, <2>3, <2>4 DEF Awaited
<1>12. Numbered(x, n)
  BY <1>1, <1>7, NumberedSame
<1>13. Good(x, B, E, n)
  BY <1>1, <1>9, <1>10, <1>11, <1>12 DEF Good
<1>14. Contents(x, B) = Contents(c, B) /\ Due(x, B) = Due(c, B)
  BY <1>7, ContentsSame, DueSame
<1> QED BY <1>13, <1>14 DEF Unnoticed, x

LEMMA DeliverGood ==
  ASSUME NEW c, NEW B, NEW F, NEW n, Good(c, B, F, n), NEW r \in F
  PROVE  Unnoticed(c, DeliverBelowResponse(c, r.tag, r.data), B, F \ {r}, n)
<1> DEFINE t == TryInstall(c, r.tag, r.data)
           E == F \ {r}
<1>1. c \in CacheState /\ Awaited(c, B, F)
  BY DEF Good, Fits
<1>2. c.installs \in Seq(Delayed)
  BY <1>1, StateParts
<1>3. \A q \in F :
        /\ q \in [tag : MshrIds, data : LineData]
        /\ c.mshrs[q.tag].valid /\ q.data = B[c.mshrs[q.tag].line]
  BY <1>1 DEF Awaited
<1>4. r.tag \in MshrIds /\ r.tag # WbTag
  BY <1>3 DEF MshrIds, WbTag
<1>5. E \subseteq F /\ \A q \in E : q.tag # r.tag
  <2> SUFFICES ASSUME NEW q \in F, q.tag = r.tag PROVE q = r
    OBVIOUS
  <2>1. q.data = r.data
    BY <1>3
  <2> QED BY <1>3, <2>1
<1>6. CASE t.ok
  <2>1. Others(c, r.tag, c.installs)
    BY <1>1, <1>2 DEF Awaited, Others
  <2>2. Settled(c, t.cache, B, E, n, c.installs)
    <3>1. c.mshrs[r.tag].valid /\ r.data = B[c.mshrs[r.tag].line]
      BY <1>3
    <3> HIDE DEF E
    <3> QED BY <1>4, <1>5, <1>6, <2>1, <3>1, TryInstallGood
  <2>3. DeliverBelowResponse(c, r.tag, r.data) = t.cache
    BY <1>4, <1>6 DEF DeliverBelowResponse
  <2> HIDE DEF t, E
  <2>4. Unnoticed(c, t.cache, B, E, n)
    BY <2>2 DEF Settled, Unnoticed
  <2> QED BY <2>3, <2>4 DEF E
<1>7. CASE ~t.ok
  <2> DEFINE w == [mshr |-> r.tag, data |-> r.data]
  <2>1. DeliverBelowResponse(c, r.tag, r.data) = [c EXCEPT !.installs = Append(@, w)]
    BY <1>4, <1>7 DEF DeliverBelowResponse
  <2>2. w = [mshr |-> r.tag, data |-> r.data]
    OBVIOUS
  <2> HIDE DEF w, E
  <2>3. Unnoticed(c, [c EXCEPT !.installs = Append(@, w)], B, E, n)
    BY <1>5, <2>2, DelayGood
  <2> QED BY <2>1, <2>3 DEF E
<1> QED BY <1>6, <1>7

LEMMA RipenSeq ==
  ASSUME NEW S, NEW s \in Seq(S), NEW t \in Seq(S), NEW m \in 0 .. Len(t),
         TagsDiffer(s), TagsDiffer(t), \A a \in Elems(s), b \in Elems(t) : a.tag # b.tag
  PROVE  LET u == s \o SubSeq(t, 1, m)
             v == SubSeq(t, m + 1, Len(t))
         IN  /\ u \in Seq(S) /\ v \in Seq(S) /\ TagsDiffer(u) /\ TagsDiffer(v)
             /\ \A a \in Elems(u), b \in Elems(v) : a.tag # b.tag
             /\ Elems(u) \cup Elems(v) = Elems(s) \cup Elems(t)
<1> DEFINE u == s \o SubSeq(t, 1, m)
           v == SubSeq(t, m + 1, Len(t))
           h == SubSeq(t, 1, m)
           n == Len(s)
           k == Len(t)
<1>1. n \in Nat /\ k \in Nat /\ m \in Nat /\ m <= k
  OBVIOUS
<1>2. h \in Seq(S) /\ Len(h) = m /\ \A j \in 1 .. m : h[j] = t[j]
  BY <1>1
<1>3. v \in Seq(S) /\ Len(v) = k - m /\ \A j \in 1 .. k - m : v[j] = t[m + j]
  BY <1>1
<1> HIDE DEF h, v
<1>4. /\ u \in Seq(S) /\ Len(u) = n + m /\ \A j \in 1 .. n : u[j] = s[j]
      /\ \A j \in n + 1 .. n + m : u[j] = h[j - n]
  BY <1>1, <1>2 DEF h
<1> HIDE DEF u, n, k
<1>5. \A j \in 1 .. n + m :
        \/ j \in 1 .. n /\ u[j] = s[j]
        \/ j \notin 1 .. n /\ j - n \in 1 .. k /\ j - n <= m /\ u[j] = t[j - n]
  BY <1>1, <1>2, <1>4
<1>6. \A j \in 1 .. k - m : m + j \in 1 .. k /\ m + j > m /\ v[j] = t[m + j]
  BY <1>1, <1>3
<1>7. /\ \A x, y \in 1 .. n : s[x].tag = s[y].tag => x = y
      /\ \A x, y \in 1 .. k : t[x].tag = t[y].tag => x = y
      /\ \A x \in 1 .. n, y \in 1 .. k : s[x].tag # t[y].tag
  BY DEF TagsDiffer, Elems, n, k
<1>8. TagsDiffer(u)
  <2> SUFFICES ASSUME NEW x \in 1 .. n + m, NEW y \in 1 .. n + m, u[x].tag = u[y].tag
               PROVE  x = y
    BY <1>4 DEF TagsDiffer
  <2>1. CASE x \in 1 .. n /\ y \in 1 .. n
    BY <1>5, <1>7, <2>1
  <2>2. CASE x \notin 1 .. n /\ y \notin 1 .. n
    <3>1. x - n = y - n
      BY <1>5, <1>7, <2>2
    <3> QED BY <1>1, <3>1
  <2>3. CASE (x \in 1 .. n) # (y \in 1 .. n)
    BY <1>5, <1>7, <2>3
  <2> QED BY <2>1, <2>2, <2>3
<1>9. TagsDiffer(v)
  <2> SUFFICES ASSUME NEW x \in 1 .. k - m, NEW y \in 1 .. k - m, v[x].tag = v[y].tag
               PROVE  x = y
    BY <1>3 DEF TagsDiffer
  <2>1. m + x = m + y
    BY <1>6, <1>7
  <2> QED BY <1>1, <2>1
<1>10. ASSUME NEW x \in 1 .. n + m, NEW y \in 1 .. k - m
       PROVE  u[x].tag # v[y].tag
  <2>1. m + y \in 1 .. k /\ m + y > m /\ v[y] = t[m + y]
    BY <1>6
  <2>2. CASE x \in 1 .. n /\ u[x] = s[x]
    BY <1>7, <2>1, <2>2
  <2>3. CASE x - n \in 1 .. k /\ x - n <= m /\ u[x] = t[x - n]
    <3>1. x - n # m + y
      BY <1>1, <2>1, <2>3
    <3> QED BY <1>7, <2>1, <2>3, <3>1
  <2> QED BY <1>5, <2>2, <2>3
<1>11. \A a \in Elems(u), b \in Elems(v) : a.tag # b.tag
  <2> SUFFICES ASSUME NEW a \in Elems(u), NEW b \in Elems(v) PROVE a.tag # b.tag
    OBVIOUS
  <2>1. PICK x \in 1 .. n + m : a = u[x]
    BY <1>4 DEF Elems
  <2>2. PICK y \in 1 .. k - m : b = v[y]
    BY <1>3 DEF Elems
  <2> QED BY <1>10, <2>1, <2>2
<1>12. Elems(u) \cup Elems(v) \subseteq Elems(s) \cup Elems(t)
  <2>1. \A x \in 1 .. n + m : u[x] \in Elems(s) \cup Elems(t)
    BY <1>5 DEF Elems, n, k
  <2>2. \A y \in 1 .. k - m : v[y] \in Elems(t)
    BY <1>6 DEF Elems, k
  <2>3. Elems(u) = {u[x] : x \in 1 .. n + m} /\ Elems(v) = {v[y] : y \in 1 .. k - m}
    BY <1>3, <1>4 DEF Elems
  <2> QED BY <2>1, <2>2, <2>3
<1>13. Elems(s) \cup Elems(t) \subseteq Elems(u) \cup Elems(v)
  <2>1. ASSUME NEW x \in 1 .. n PROVE s[x] \in Elems(u)
    <3>1. x \in 1 .. n + m /\ u[x] = s[x]
      BY <1>1, <1>4
    <3> QED BY <1>4, <3>1 DEF Elems
  <2>2. ASSUME NEW y \in 1 .. k PROVE t[y] \in Elems(u) \cup Elems(v)
    <3>1. CASE y <= m
      <4>1. n + y \in 1 .. n + m /\ n + y \in n + 1 .. n + m /\ (n + y) - n = y /\ y \in 1 .. m
        BY <1>1, <3>1
      <4>2. u[n + y] = t[y]
        BY <1>2, <1>4, <4>1
      <4> QED BY <1>4, <4>1, <4>2 DEF Elems
    <3>2. CASE ~(y <= m)
      <4>1. y - m \in 1 .. k - m /\ m + (y - m) = y
        BY <1>1, <3>2
      <4>2. v[y - m] = t[y]
        BY <1>3, <4>1
      <4> QED BY <1>3, <4>1, <4>2 DEF Elems
    <3> QED BY <3>1, <3>2
  <2> QED BY <2>1, <2>2 DEF Elems, n, k
<1> QED BY <1>3, <1>4, <1>8, <1>9, <1>11, <1>12, <1>13 DEF u, v, h, k

(* Hits become answers in order.                                           *)
LEMMA RipenGood ==
  ASSUME NEW c, NEW B, NEW F, NEW n, Good(c, B, F, n), NEW m \in 0 .. Len(c.hits)
  PROVE  Unnoticed(c, Ripen(c, m), B, F, n)
<1> DEFINE u == c.resp \o SubSeq(c.hits, 1, m)
           v == SubSeq(c.hits, m + 1, Len(c.hits))
           x == Ripen(c, m)
           A == c.arrays
           K == c.mshrs
           W == c.wbq
           I == c.installs
           H == c.hits
           R == c.resp
<1>1. c \in CacheState /\ Fits(c) /\ Apart(c) /\ Awaited(c, B, F) /\ Numbered(c, n)
      /\ B \in [LineSet -> LineData] /\ n \in Datum
  BY DEF Good, Fits
<1>2. /\ A \in [SetIds -> Seq(Stored)] /\ K \in [MshrIds -> MissState]
      /\ W \in Seq(Victim) /\ I \in Seq(Delayed) /\ H \in Seq(Reply) /\ R \in Seq(Reply)
      /\ c = [arrays |-> A, mshrs |-> K, wbq |-> W, installs |-> I, hits |-> H, resp |-> R]
  BY <1>1, StateParts
<1>3. /\ u \in Seq(Reply) /\ v \in Seq(Reply) /\ TagsDiffer(u) /\ TagsDiffer(v)
      /\ \A a \in Elems(u), b \in Elems(v) : a.tag # b.tag
      /\ Elems(u) \cup Elems(v) = Elems(c.resp) \cup Elems(c.hits)
  <2>1. /\ R \in Seq(Reply) /\ H \in Seq(Reply) /\ m \in 0 .. Len(H)
        /\ TagsDiffer(R) /\ TagsDiffer(H) /\ \A a \in Elems(R), b \in Elems(H) : a.tag # b.tag
    BY <1>1, <1>2 DEF Numbered
  <2> HIDE DEF R, H
  <2>2. LET g == R \o SubSeq(H, 1, m)
            h == SubSeq(H, m + 1, Len(H))
        IN  /\ g \in Seq(Reply) /\ h \in Seq(Reply) /\ TagsDiffer(g) /\ TagsDiffer(h)
            /\ \A a \in Elems(g), b \in Elems(h) : a.tag # b.tag
            /\ Elems(g) \cup Elems(h) = Elems(R) \cup Elems(H)
    BY <2>1, RipenSeq
  <2> QED BY <2>2 DEF R, H
<1>4. x = [[c EXCEPT !.resp = u] EXCEPT !.hits = v]
  <2>1. [c EXCEPT !.resp = u].hits = c.hits
    BY <1>2
  <2> QED BY <2>1 DEF Ripen
<1> HIDE DEF x, u, v, A, K, W, I, H, R
<1>5. x = [arrays |-> A, mshrs |-> K, wbq |-> W, installs |-> I, hits |-> v, resp |-> u]
  <2>1. [c EXCEPT !.resp = u] =
          [arrays |-> A, mshrs |-> K, wbq |-> W, installs |-> I, hits |-> H, resp |-> u]
    BY <1>1, Updated DEF A, K, W, I, H
  <2> QED BY <1>4, <2>1
<1>6. x.arrays = c.arrays /\ x.mshrs = c.mshrs /\ x.wbq = c.wbq
      /\ x.installs = c.installs /\ x.hits = v /\ x.resp = u
  BY <1>5 DEF A, K, W, I
<1>7. Occupied(x) = Occupied(c)
  BY <1>6 DEF Occupied
<1>8. Fits(x)
  <2>1. x \in CacheState
    BY <1>2, <1>3, <1>5 DEF CacheState
  <2> QED BY <1>1, <1>6, <2>1 DEF Fits
<1>9. Apart(x)
  BY <1>1, <1>6, <1>7 DEF Apart
<1>10. Awaited(x, B, F)
  BY <1>1, <1>6 DEF Awaited
<1>11. Numbered(x, n)
  <2>1. \A a \in Elems(u) \cup Elems(v) : a.tag <= n
    BY <1>1, <1>3 DEF Numbered
  <2>2. ASSUME NEW i \in MshrIds, NEW j \in 1 .. Len(c.mshrs[i].waiting)
        PROVE  LET t == c.mshrs[i].waiting[j].tag IN
               /\ t <= n
               /\ \A a \in Elems(u) \cup Elems(v) : a.tag # t
               /\ \A k \in MshrIds : \A y \in 1 .. Len(c.mshrs[k].waiting) :
                    c.mshrs[k].waiting[y].tag = t => k = i /\ y = j
    BY <1>1, <1>3 DEF Numbered
  <2> QED BY <1>3, <1>6, <2>1, <2>2 DEF Numbered
<1>12. Good(x, B, F, n)
  BY <1>1, <1>8, <1>9, <1>10, <1>11 DEF Good
<1>13. Contents(x, B) = Contents(c, B)
  BY <1>6, ContentsSame
<1>14. Due(x, B) = Due(c, B)
  <2>1. \A i : Promises(x, B, i) = Promises(c, B, i)
    BY <1>6, PromisesSame
  <2> QED BY <1>3, <1>6, <2>1 DEF Due
<1> QED BY <1>12, <1>13, <1>14 DEF Unnoticed, x

-----------------------------------------------------------------------------
(* Delayed installs are retried.                                           *)

LEMMA RetryInstallsIs ==
  ASSUME NEW c, Len(c.installs) \in Nat
  PROVE  \E after : /\ after[0] = [stuck |-> FALSE, cache |-> c]
                    /\ \A j \in 1 .. Len(c.installs) :
                         after[j] = Retry(after[j - 1], c.installs[j])
                    /\ RetryInstalls(c) = after[Len(c.installs)].cache
<1> DEFINE start == [stuck |-> FALSE, cache |-> c]
           Step(g, k) == IF k = 0 THEN start ELSE Retry(g[k - 1], c.installs[k])
           Upto(n, g) == g = [k \in 0 .. n |-> Step(g, k)]
           Missing == {n \in Nat : ~\E g : Upto(n, g)}
<1> HIDE DEF start
<1>1. Missing = {}
  <2> SUFFICES ASSUME Missing # {} PROVE FALSE
    OBVIOUS
  <2>1. PICK n \in Missing : \A m \in Missing : n <= m
    BY MinExists
  <2>2. CASE n = 0
    <3>1. Upto(0, [k \in 0 .. 0 |-> start])
      OBVIOUS
    <3> QED BY <2>1, <2>2, <3>1
  <2>3. CASE n # 0
    <3>1. n - 1 \in Nat /\ n - 1 \notin Missing
      <4>1. n \in Nat /\ n - 1 \in Nat
        BY <2>1, <2>3
      <4> HIDE DEF Missing
      <4> QED BY <2>1, <4>1
    <3>2. PICK g : Upto(n - 1, g)
      BY <3>1
    <3> DEFINE h == [k \in 0 .. n |-> Step(g, k)]
    <3>3. \A k \in 0 .. n - 1 : h[k] = g[k]
      BY <2>1, <2>3, <3>2
    <3>4. \A k \in 0 .. n : Step(g, k) = Step(h, k)
      <4> SUFFICES ASSUME NEW k \in 0 .. n PROVE Step(g, k) = Step(h, k)
        OBVIOUS
      <4>1. CASE k = 0
        BY <4>1
      <4>2. CASE k # 0
        <5>1. k - 1 \in 0 .. n - 1
          BY <2>1, <4>2
        <5>2. h[k - 1] = g[k - 1]
          BY <3>3, <5>1
        <5> HIDE DEF h
        <5> QED BY <5>2
      <4> QED BY <4>1, <4>2
    <3>5. Upto(n, h)
      BY <3>4
    <3> QED BY <2>1, <3>5
  <2> QED BY <2>2, <2>3
<1>2. \E g : g = [k \in 0 .. Len(c.installs) |-> Step(g, k)]
  BY <1>1
<1> DEFINE f == CHOOSE g : g = [k \in 0 .. Len(c.installs) |-> Step(g, k)]
<1>3. f = [k \in 0 .. Len(c.installs) |-> Step(f, k)]
  BY <1>2
<1>4. RetryInstalls(c) = f[Len(c.installs)].cache
  BY DEF RetryInstalls, start
<1> HIDE DEF f
<1>5. f[0] = start
  BY <1>3
<1>6. \A j \in 1 .. Len(c.installs) : f[j] = Retry(f[j - 1], c.installs[j])
  BY <1>3
<1> QED BY <1>4, <1>5, <1>6 DEF start

(* a is what becomes of c when j of its delayed refills have been retried. *)
Retried(c, a, B, F, n, j) ==
  /\ a = [stuck |-> a.stuck, cache |-> a.cache]
  /\ Unnoticed(c, a.cache, B, F, n)
  /\ ~a.stuck => a.cache.installs = SubSeq(c.installs, j + 1, Len(c.installs))

LEMMA RetryStep ==
  ASSUME NEW c, NEW a, NEW B, NEW F, NEW n, NEW j \in Nat,
         c.installs \in Seq(Delayed), j + 1 <= Len(c.installs), Retried(c, a, B, F, n, j)
  PROVE  Retried(c, Retry(a, c.installs[j + 1]), B, F, n, j + 1)
<1> DEFINE L == Len(c.installs)
           w == c.installs[j + 1]
           z == a.cache
           t == TryInstall(z, w.mshr, w.data)
           b == Retry(a, w)
<1>1. /\ a = [stuck |-> a.stuck, cache |-> z] /\ Good(z, B, F, n)
      /\ Contents(z, B) = Contents(c, B) /\ Due(z, B) = Due(c, B)
      /\ ~a.stuck => z.installs = SubSeq(c.installs, j + 1, L)
  BY DEF Retried, Unnoticed
<1>2. CASE a.stuck \/ ~t.ok
  <2>1. b = [a EXCEPT !.stuck = TRUE]
    BY <1>2 DEF Retry
  <2> DEFINE st == a.stuck
  <2>2. a = [stuck |-> st, cache |-> z]
    BY <1>1
  <2> HIDE DEF z, b, st
  <2>3. b = [stuck |-> TRUE, cache |-> z]
    BY <2>1, <2>2
  <2> QED BY <1>1, <2>3 DEF Retried, Unnoticed, b
<1>3. CASE ~a.stuck /\ t.ok
  <2> DEFINE x == Tail(z.installs)
             y == [t.cache EXCEPT !.installs = x]
  <2>1. /\ z.installs \in Seq(Delayed) /\ z.installs # <<>> /\ Head(z.installs) = w
        /\ x = SubSeq(c.installs, j + 2, L) /\ x \in Seq(Delayed)
        /\ Len(z.installs) \in Nat /\ Len(x) = Len(z.installs) - 1
        /\ \A k \in 1 .. Len(x) : x[k] = z.installs[k + 1]
        /\ z.installs[1] = w /\ 1 \in 1 .. Len(z.installs)
    <3> DEFINE s == SubSeq(c.installs, j + 1, L)
    <3>1. L \in Nat /\ j + 1 \in 1 .. L
      OBVIOUS
    <3>2. s \in Seq(Delayed) /\ Len(s) = L - j /\ s # <<>> /\ s[1] = w
      <4>1. s \in Seq(Delayed) /\ Len(s) = L - j
        BY <3>1
      <4>2. 1 \in 1 .. Len(s)
        BY <3>1, <4>1
      <4>3. s[1] = w
        BY <3>1, <4>1, <4>2
      <4> HIDE DEF s, L, w
      <4>4. s # <<>>
        BY <4>2
      <4> QED BY <4>1, <4>3, <4>4
    <3>3. Tail(s) = SubSeq(c.installs, j + 2, L)
      BY <3>1
    <3>4. z.installs = s
      BY <1>1, <1>3
    <3> HIDE DEF s, z
    <3> QED BY <3>2, <3>3, <3>4, TailSeq
  <2>2. /\ w.mshr \in MshrIds /\ z.mshrs[w.mshr].valid
        /\ w.data = B[z.mshrs[w.mshr].line]
        /\ \A r \in F : r.tag # w.mshr
        /\ \A m \in 1 .. Len(z.installs) : z.installs[m].mshr = w.mshr => m = 1
    <3>1. w \in Delayed
      OBVIOUS
    <3>2. Awaited(z, B, F)
      BY <1>1 DEF Good
    <3> HIDE DEF w, z
    <3> QED BY <2>1, <3>1, <3>2 DEF Awaited, Delayed
  <2>3. Others(z, w.mshr, x)
    <3> SUFFICES ASSUME NEW k \in 1 .. Len(x)
                 PROVE  /\ x[k].mshr # w.mshr
                        /\ \E m \in 1 .. Len(z.installs) : x[k] = z.installs[m]
                        /\ \A m \in 1 .. Len(x) : x[m].mshr = x[k].mshr => m = k
      BY <2>1 DEF Others
    <3> HIDE DEF x, z, w
    <3>1. k + 1 \in 1 .. Len(z.installs) /\ x[k] = z.installs[k + 1] /\ k + 1 # 1
      BY <2>1
    <3>2. \A m \in 1 .. Len(x) : m + 1 \in 1 .. Len(z.installs) /\ x[m] = z.installs[m + 1]
      BY <2>1
    <3>3. Awaited(z, B, F)
      BY <1>1 DEF Good
    <3>4. \A m \in 1 .. Len(z.installs) :
            z.installs[m].mshr = z.installs[k + 1].mshr => m = k + 1
      BY <3>1, <3>3 DEF Awaited
    <3>5. \A m \in 1 .. Len(x) : x[m].mshr = x[k].mshr => m = k
      <4> SUFFICES ASSUME NEW m \in 1 .. Len(x), x[m].mshr = x[k].mshr PROVE m = k
        OBVIOUS
      <4>1. m + 1 = k + 1
        BY <3>1, <3>2, <3>4
      <4> QED BY <4>1
    <3> QED BY <2>2, <3>1, <3>5
  <2>4. b = [a EXCEPT !.cache = y]
    <3>1. b = [a EXCEPT !.cache = [t.cache EXCEPT !.installs = Tail(t.cache.installs)]]
      BY <1>3 DEF Retry
    <3>2. Settled(z, t.cache, B, F, n, x)
      <4>1. /\ Good(z, B, F, n) /\ w.mshr \in MshrIds /\ z.mshrs[w.mshr].valid
            /\ F \subseteq F /\ w.data = B[z.mshrs[w.mshr].line] /\ t.ok
        BY <1>1, <1>3, <2>2
      <4> HIDE DEF w, x, z
      <4> QED BY <2>2, <2>3, <4>1, TryInstallGood
    <3>3. t.cache.installs = z.installs
      BY <3>2 DEF Settled
    <3> QED BY <3>1, <3>3
  <2>5. Settled(z, t.cache, B, F, n, x)
    <3>1. /\ Good(z, B, F, n) /\ w.mshr \in MshrIds /\ z.mshrs[w.mshr].valid
          /\ F \subseteq F /\ w.data = B[z.mshrs[w.mshr].line] /\ t.ok
      BY <1>1, <1>3, <2>2
    <3> HIDE DEF w, x, z
    <3> QED BY <2>2, <2>3, <3>1, TryInstallGood
  <2>6. Good(y, B, F, n) /\ y.installs = x /\ Contents(y, B) = Contents(z, B)
        /\ Due(y, B) = Due(z, B)
    BY <2>5 DEF Settled
  <2> HIDE DEF x, y, z, b
  <2>7. b = [stuck |-> a.stuck, cache |-> y]
    BY <1>1, <2>4
  <2>8. (j + 1) + 1 = j + 2
    OBVIOUS
  <2> QED BY <1>1, <2>1, <2>6, <2>7, <2>8 DEF Retried, Unnoticed, b
<1> QED BY <1>2, <1>3

LEMMA RetryGood ==
  ASSUME NEW c, NEW B, NEW F, NEW n, Good(c, B, F, n)
  PROVE  Unnoticed(c, RetryInstalls(c), B, F, n)
<1> DEFINE L == Len(c.installs)
<1>1. c.installs \in Seq(Delayed) /\ L \in Nat
  <2>1. c \in CacheState
    BY DEF Good, Fits
  <2> QED BY <2>1, StateParts
<1>2. PICK after : /\ after[0] = [stuck |-> FALSE, cache |-> c]
                   /\ \A j \in 1 .. L : after[j] = Retry(after[j - 1], c.installs[j])
                   /\ RetryInstalls(c) = after[L].cache
  BY <1>1, RetryInstallsIs
<1> DEFINE Holds(j) == Retried(c, after[j], B, F, n, j)
           Wrong == {j \in Nat : j <= L /\ ~Holds(j)}
<1>3. Holds(0)
  <2>1. SubSeq(c.installs, 1, L) = c.installs
    BY <1>1
  <2> QED BY <1>2, <2>1 DEF Retried, Unnoticed
<1>4. ASSUME NEW j \in Nat, j + 1 <= L, Holds(j)
      PROVE  Holds(j + 1)
  <2>1. j + 1 \in 1 .. L /\ (j + 1) - 1 = j
    BY <1>1, <1>4
  <2>2. after[j + 1] = Retry(after[j], c.installs[j + 1])
    BY <1>2, <2>1
  <2> QED BY <1>1, <1>4, <2>2, RetryStep
<1>5. Wrong = {}
  <2> HIDE DEF Holds, L
  <2> SUFFICES ASSUME Wrong # {} PROVE FALSE
    OBVIOUS
  <2>1. PICK j \in Wrong : \A m \in Wrong : j <= m
    BY MinExists
  <2>2. j \in Nat /\ j <= L /\ ~Holds(j)
    BY <2>1
  <2>3. j # 0
    BY <1>3, <2>2
  <2>4. j - 1 \in Nat /\ (j - 1) + 1 = j
    BY <2>2, <2>3
  <2>5. Holds(j - 1)
    BY <1>1, <2>1, <2>2, <2>4
  <2> QED BY <1>4, <2>2, <2>4, <2>5
<1>6. Holds(L)
  BY <1>1, <1>5
<1> QED BY <1>2, <1>6 DEF Retried

LEMMA AdvanceGood ==
  ASSUME NEW c, NEW B, NEW F, NEW n, Good(c, B, F, n), NEW m \in 0 .. Len(c.hits)
  PROVE  Unnoticed(c, Advanced(c, m), B, F, n)
<1>1. Unnoticed(c, Ripen(c, m), B, F, n)
  BY RipenGood
<1>2. Good(Ripen(c, m), B, F, n)
  BY <1>1 DEF Unnoticed
<1>3. Unnoticed(Ripen(c, m), RetryInstalls(Ripen(c, m)), B, F, n)
  BY <1>2, RetryGood
<1> QED BY <1>1, <1>3 DEF Unnoticed, Advanced

-----------------------------------------------------------------------------
(* What goes below, and what the requester takes.                          *)

LEMMA RemoveHead ==
  ASSUME NEW S, NEW s \in Seq(S), s # <<>>
  PROVE  RemoveAt(s, 1) = Tail(s) /\ 1 \in 1 .. Len(s) /\ Head(s) = s[1]
<1> DEFINE t == RemoveAt(s, 1)
           u == Tail(s)
<1>1. u \in Seq(S) /\ Len(u) = Len(s) - 1 /\ (\A j \in 1 .. Len(u) : u[j] = s[j + 1])
      /\ Head(s) = s[1] /\ 1 \in 1 .. Len(s)
  BY TailSeq
<1>2. t \in Seq(S) /\ Len(t) = Len(s) - 1
      /\ \A j \in 1 .. Len(t) : t[j] = s[IF j < 1 THEN j ELSE j + 1]
  BY <1>1, RemoveSeq
<1> HIDE DEF t, u
<1>3. \A j \in 1 .. Len(t) : t[j] = u[j]
  BY <1>1, <1>2
<1>4. t = u
  BY <1>1, <1>2, <1>3
<1> QED BY <1>1, <1>4 DEF t, u

(* A line without a home may change below: the cache stands for the        *)
(* changed memory.                                                         *)
Changed(c, B, D, F, n, l, d) ==
  /\ Good(c, D, F, n)
  /\ Contents(c, D) = [Contents(c, B) EXCEPT ![l] = d]
  /\ Due(c, D) = Due(c, B)

LEMMA ChangeBelow ==
  ASSUME NEW c, NEW B, NEW F, NEW n, Good(c, B, F, n),
         NEW l \in LineSet, NEW d \in LineData, NoHome(c, l),
         NEW D, D = [B EXCEPT ![l] = d]
  PROVE  Changed(c, B, D, F, n, l, d)
<1>1. c \in CacheState /\ Fits(c) /\ Apart(c) /\ Awaited(c, B, F) /\ Numbered(c, n)
      /\ B \in [LineSet -> LineData] /\ n \in Datum
  BY DEF Good, Fits
<1>2. D \in [LineSet -> LineData] /\ D[l] = d /\ \A m \in LineSet : m # l => D[m] = B[m]
  BY <1>1
<1>3. c.mshrs \in [MshrIds -> MissState] /\ c.installs \in Seq(Delayed)
      /\ c.arrays \in [SetIds -> Seq(Stored)]
  BY <1>1, StateParts
<1>4. \A i \in MshrIds : c.mshrs[i].valid => D[c.mshrs[i].line] = B[c.mshrs[i].line]
  <2> SUFFICES ASSUME NEW i \in MshrIds, c.mshrs[i].valid
               PROVE  D[c.mshrs[i].line] = B[c.mshrs[i].line]
    OBVIOUS
  <2>1. c.mshrs[i].line # l
    BY DEF NoHome, Occupied
  <2>2. c.mshrs[i].line \in LineSet
    BY <1>3 DEF MissState
  <2> QED BY <1>2, <2>1, <2>2
<1>5. Awaited(c, D, F)
  <2>1. \A r \in F :
          /\ r \in [tag : MshrIds, data : LineData]
          /\ c.mshrs[r.tag].valid /\ c.mshrs[r.tag].sent
          /\ r.data = D[c.mshrs[r.tag].line]
    <3> SUFFICES ASSUME NEW r \in F
                 PROVE  /\ r \in [tag : MshrIds, data : LineData]
                        /\ c.mshrs[r.tag].valid /\ c.mshrs[r.tag].sent
                        /\ r.data = D[c.mshrs[r.tag].line]
      OBVIOUS
    <3>1. /\ r \in [tag : MshrIds, data : LineData]
          /\ c.mshrs[r.tag].valid /\ c.mshrs[r.tag].sent
          /\ r.data = B[c.mshrs[r.tag].line]
      BY <1>1 DEF Awaited
    <3>2. r.tag \in MshrIds
      BY <3>1
    <3> QED BY <1>4, <3>1, <3>2
  <2>2. ASSUME NEW k \in 1 .. Len(c.installs)
        PROVE  LET i == c.installs[k].mshr IN
               /\ c.mshrs[i].valid /\ c.mshrs[i].sent
               /\ c.installs[k].data = D[c.mshrs[i].line]
               /\ \A r \in F : r.tag # i
               /\ \A m \in 1 .. Len(c.installs) : c.installs[m].mshr = i => m = k
    <3>1. c.installs[k] \in Delayed
      BY <1>3
    <3>2. c.installs[k].mshr \in MshrIds
      BY <3>1 DEF Delayed
    <3> QED BY <1>1, <1>4, <3>2 DEF Awaited
  <2>3. ASSUME NEW s \in SetIds, NEW e \in Elems(c.arrays[s])
        PROVE  e.dirty \/ e.data = D[e.line]
    <3>1. e \in Stored /\ SetOf(e.line) = s
      BY <1>1, <1>3 DEF Elems, Fits
    <3>2. e.line \in LineSet
      BY <3>1 DEF Stored
    <3>3. e.line # l
      BY <3>1 DEF NoHome
    <3>4. D[e.line] = B[e.line]
      BY <1>2, <3>2, <3>3
    <3> QED BY <1>1, <3>4 DEF Awaited
  <2>4. \A i \in MshrIds :
          /\ c.mshrs[i].valid <=> c.mshrs[i].waiting # <<>>
          /\ \A j \in 1 .. Len(c.mshrs[i].waiting) :
               c.mshrs[i].waiting[j].line = c.mshrs[i].line
    BY <1>1 DEF Awaited
  <2> QED BY <2>1, <2>2, <2>3, <2>4 DEF Awaited
<1>6. Good(c, D, F, n)
  BY <1>1, <1>2, <1>5 DEF Good
<1>7. Peek(c, l, D[l]) = d
  BY <1>1, <1>2, PeekIs
<1>8. ASSUME NEW m \in LineSet, m # l PROVE Peek(c, m, D[m]) = Peek(c, m, B[m])
  BY <1>2, <1>8
<1>9. Contents(c, D) = [Contents(c, B) EXCEPT ![l] = d]
  BY <1>7, <1>8 DEF Contents
<1>10. ASSUME NEW i \in MshrIds PROVE Promises(c, D, i) = Promises(c, B, i)
  <2>1. CASE c.mshrs[i].valid
    <3>1. D[c.mshrs[i].line] = B[c.mshrs[i].line]
      BY <1>4, <2>1
    <3> QED BY <3>1 DEF Promises, Promise
  <2>2. CASE ~c.mshrs[i].valid
    <3>1. c.mshrs[i].waiting = <<>>
      BY <1>1, <2>2 DEF Awaited
    <3> QED BY <3>1 DEF Promises
  <2> QED BY <2>1, <2>2
<1>11. Due(c, D) = Due(c, B)
  BY <1>10 DEF Due
<1> QED BY <1>6, <1>9, <1>11 DEF Changed

(* The oldest victim is written back.                                      *)
LEMMA WritebackGood ==
  ASSUME NEW c, NEW B, NEW F, NEW n, Good(c, B, F, n), c.wbq # <<>>,
         NEW D, D = [B EXCEPT ![Head(c.wbq).line] = Head(c.wbq).data]
  PROVE  LET x == [c EXCEPT !.wbq = Tail(@)]
         IN  Good(x, D, F, n) /\ Contents(x, D) = Contents(c, B) /\ Due(x, D) = Due(c, B)
<1> DEFINE i == 1
           l == c.wbq[i].line
           d == c.wbq[i].data
           x == [c EXCEPT !.wbq = RemoveAt(c.wbq, i)]
<1>1. RemoveAt(c.wbq, i) = Tail(c.wbq) /\ i \in 1 .. Len(c.wbq) /\ Head(c.wbq) = c.wbq[i]
  <2>1. c \in CacheState
    BY DEF Good, Fits
  <2> QED BY <2>1, StateParts, RemoveHead
<1> HIDE DEF i
<1>2. /\ Good(x, B, F, n) /\ l \in LineSet /\ d \in LineData
      /\ x.mshrs = c.mshrs /\ x.hits = c.hits /\ x.resp = c.resp
      /\ NoHome(x, l) /\ Contents(c, B)[l] = d
      /\ \A m \in LineSet : m # l => Contents(x, B)[m] = Contents(c, B)[m]
  <2>1. Dropped(c, B, F, n, i)
    BY <1>1, DropVictim
  <2> QED BY <2>1 DEF Dropped
<1>3. D = [B EXCEPT ![l] = d]
  BY <1>1
<1> HIDE DEF x, l, d
<1>4. /\ Good(x, D, F, n)
      /\ Contents(x, D) = [Contents(x, B) EXCEPT ![l] = d]
      /\ Due(x, D) = Due(x, B)
  <2>1. Changed(x, B, D, F, n, l, d)
    BY <1>2, <1>3, ChangeBelow
  <2> QED BY <2>1 DEF Changed
<1>5. Contents(x, D) = Contents(c, B)
  BY <1>2, <1>4 DEF Contents
<1>6. Due(x, B) = Due(c, B)
  BY <1>2, DueSame
<1>7. x = [c EXCEPT !.wbq = Tail(@)]
  BY <1>1 DEF x
<1> QED BY <1>4, <1>5, <1>6, <1>7

(* A refill is asked for: what is below stays, and is on its way.          *)
LEMMA RefillGood ==
  ASSUME NEW c, NEW B, NEW F, NEW n, Good(c, B, F, n),
         NEW i \in Unsent(c),
         NEW E, E = F \cup {[tag |-> i, data |-> B[c.mshrs[i].line]]}
  PROVE  Unnoticed(c, [c EXCEPT !.mshrs[i].sent = TRUE], B, E, n)
<1> DEFINE M == [c.mshrs EXCEPT ![i].sent = TRUE]
           x == [c EXCEPT !.mshrs = M]
           l == c.mshrs[i].line
           new == [tag |-> i, data |-> B[l]]
<1>1. c \in CacheState /\ Fits(c) /\ Apart(c) /\ Awaited(c, B, F) /\ Numbered(c, n)
      /\ B \in [LineSet -> LineData] /\ n \in Datum
  BY DEF Good, Fits
<1>2. /\ c.arrays \in [SetIds -> Seq(Stored)] /\ c.mshrs \in [MshrIds -> MissState]
      /\ c.wbq \in Seq(Victim) /\ c.installs \in Seq(Delayed)
      /\ c.hits \in Seq(Reply) /\ c.resp \in Seq(Reply)
  BY <1>1, StateParts
<1>3. x = [arrays |-> c.arrays, mshrs |-> M, wbq |-> c.wbq, installs |-> c.installs,
           hits |-> c.hits, resp |-> c.resp]
  <2> HIDE DEF M
  <2> QED BY <1>1, Updated
<1>4. i \in MshrIds /\ c.mshrs[i].valid /\ ~c.mshrs[i].sent
  BY DEF Unsent, Occupied
<1>5. c.mshrs[i] \in MissState /\ l \in LineSet
  BY <1>2, <1>4 DEF MissState
<1>6. /\ M[i] = [c.mshrs[i] EXCEPT !.sent = TRUE]
      /\ \A k \in MshrIds : k # i => M[k] = c.mshrs[k]
  BY <1>2, <1>4
<1>7. /\ M[i] \in MissState /\ M[i].sent /\ M[i].valid = c.mshrs[i].valid
      /\ M[i].line = l /\ M[i].waiting = c.mshrs[i].waiting
  <2> DEFINE o == c.mshrs[i]
  <2>1. o = [valid |-> o.valid, line |-> o.line, sent |-> o.sent, waiting |-> o.waiting]
        /\ o.valid \in BOOLEAN /\ o.line \in LineSet /\ o.waiting \in Seq(Asked)
    BY <1>5 DEF MissState
  <2>2. M[i] = [valid |-> o.valid, line |-> o.line, sent |-> TRUE, waiting |-> o.waiting]
    <3> DEFINE v == o.valid
               ln == o.line
               st == o.sent
               w == o.waiting
    <3>1. o = [valid |-> v, line |-> ln, sent |-> st, waiting |-> w]
      BY <2>1
    <3>2. M[i] = [o EXCEPT !.sent = TRUE]
      BY <1>6
    <3> HIDE DEF M, o, v, ln, st, w
    <3>3. M[i] = [valid |-> v, line |-> ln, sent |-> TRUE, waiting |-> w]
      BY <3>1, <3>2
    <3> QED BY <3>3 DEF v, ln, w
  <2> HIDE DEF M
  <2> QED BY <2>1, <2>2 DEF MissState
<1>8. M \in [MshrIds -> MissState]
  BY <1>2, <1>4, <1>6, <1>7
<1>9. x = [c EXCEPT !.mshrs[i].sent = TRUE]
  OBVIOUS
<1> HIDE DEF x, M
<1>10. \A k \in MshrIds :
         /\ M[k].valid = c.mshrs[k].valid /\ M[k].line = c.mshrs[k].line
         /\ M[k].waiting = c.mshrs[k].waiting /\ (c.mshrs[k].sent => M[k].sent)
  BY <1>6, <1>7
<1>11. /\ x.arrays = c.arrays /\ x.mshrs = M /\ x.wbq = c.wbq /\ x.installs = c.installs
       /\ x.hits = c.hits /\ x.resp = c.resp
  BY <1>3
<1>12. Occupied(x) = Occupied(c) /\ Occupied(c) \subseteq MshrIds
  BY <1>10, <1>11 DEF Occupied
<1>13. Fits(x)
  <2>1. x \in CacheState
    BY <1>2, <1>3, <1>8 DEF CacheState
  <2> QED BY <1>1, <1>11, <2>1 DEF Fits
<1>14. Apart(x)
  BY <1>1, <1>10, <1>11, <1>12 DEF Apart
<1>15. Awaited(x, B, E)
  <2>1. \A k \in MshrIds :
          /\ M[k].valid <=> M[k].waiting # <<>>
          /\ \A j \in 1 .. Len(M[k].waiting) : M[k].waiting[j].line = M[k].line
    BY <1>1, <1>10 DEF Awaited
  <2>2. ASSUME NEW r \in F
        PROVE  /\ r \in [tag : MshrIds, data : LineData]
               /\ M[r.tag].valid /\ M[r.tag].sent /\ r.data = B[M[r.tag].line]
    <3>1. /\ r \in [tag : MshrIds, data : LineData]
          /\ c.mshrs[r.tag].valid /\ c.mshrs[r.tag].sent /\ r.data = B[c.mshrs[r.tag].line]
      BY <1>1 DEF Awaited
    <3>2. r.tag \in MshrIds
      BY <3>1
    <3> QED BY <1>10, <3>1, <3>2
  <2>3. /\ new \in [tag : MshrIds, data : LineData] /\ new.tag = i
        /\ M[new.tag].valid /\ M[new.tag].sent /\ new.data = B[M[new.tag].line]
    <3>1. B[l] \in LineData
      BY <1>1, <1>5
    <3>2. new \in [tag : MshrIds, data : LineData] /\ new.tag = i /\ new.data = B[l]
      BY <1>4, <3>1
    <3> HIDE DEF new, l
    <3> QED BY <1>4, <1>7, <3>2
  <2>4. ASSUME NEW k \in 1 .. Len(c.installs)
        PROVE  LET j == c.installs[k].mshr IN
               /\ M[j].valid /\ M[j].sent /\ c.installs[k].data = B[M[j].line]
               /\ \A r \in E : r.tag # j
               /\ \A m \in 1 .. Len(c.installs) : c.installs[m].mshr = j => m = k
    <3>1. c.installs[k] \in Delayed
      BY <1>2
    <3> DEFINE j == c.installs[k].mshr
    <3>2. j \in MshrIds
      BY <3>1 DEF Delayed
    <3>3. /\ c.mshrs[j].valid /\ c.mshrs[j].sent /\ c.installs[k].data = B[c.mshrs[j].line]
          /\ \A r \in F : r.tag # j
          /\ \A m \in 1 .. Len(c.installs) : c.installs[m].mshr = j => m = k
      BY <1>1 DEF Awaited
    <3>4. j # i
      BY <1>4, <3>3
    <3>5. \A r \in E : r \in F \/ r = new
      OBVIOUS
    <3> HIDE DEF j, new
    <3>6. \A r \in E : r.tag # j
      BY <2>3, <3>3, <3>4, <3>5
    <3>7. M[j].valid /\ M[j].sent /\ c.installs[k].data = B[M[j].line]
      BY <1>10, <3>2, <3>3
    <3> QED BY <3>3, <3>6, <3>7 DEF j
  <2>5. \A s \in SetIds : \A e \in Elems(c.arrays[s]) : e.dirty \/ e.data = B[e.line]
    BY <1>1 DEF Awaited
  <2>6. \A r \in E : r \in F \/ r = new
    OBVIOUS
  <2>7. \A r \in E : /\ r \in [tag : MshrIds, data : LineData]
                     /\ M[r.tag].valid /\ M[r.tag].sent /\ r.data = B[M[r.tag].line]
    <3> HIDE DEF new
    <3> QED BY <2>2, <2>3, <2>6
  <2> QED BY <1>11, <2>1, <2>4, <2>5, <2>7 DEF Awaited
<1>16. Numbered(x, n)
  <2>1. /\ TagsDiffer(c.resp) /\ TagsDiffer(c.hits)
        /\ \A a \in Elems(c.resp), b \in Elems(c.hits) : a.tag # b.tag
        /\ \A a \in Elems(c.resp) \cup Elems(c.hits) : a.tag <= n
    BY <1>1 DEF Numbered
  <2>2. \A k \in MshrIds : M[k].waiting = c.mshrs[k].waiting
    BY <1>10
  <2>3. ASSUME NEW k \in MshrIds, NEW j \in 1 .. Len(M[k].waiting)
        PROVE  LET t == M[k].waiting[j].tag IN
               /\ t <= n
               /\ \A a \in Elems(c.resp) \cup Elems(c.hits) : a.tag # t
               /\ \A z \in MshrIds : \A y \in 1 .. Len(M[z].waiting) :
                    M[z].waiting[y].tag = t => z = k /\ y = j
    <3> DEFINE t == c.mshrs[k].waiting[j].tag
    <3>1. j \in 1 .. Len(c.mshrs[k].waiting) /\ M[k].waiting[j].tag = t
      BY <2>2
    <3>2. /\ t <= n /\ \A a \in Elems(c.resp) \cup Elems(c.hits) : a.tag # t
          /\ \A z \in MshrIds : \A y \in 1 .. Len(c.mshrs[z].waiting) :
               c.mshrs[z].waiting[y].tag = t => z = k /\ y = j
      BY <1>1, <3>1 DEF Numbered
    <3> HIDE DEF t
    <3>3. \A z \in MshrIds : \A y \in 1 .. Len(M[z].waiting) :
            M[z].waiting[y].tag = t => z = k /\ y = j
      BY <2>2, <3>2
    <3> QED BY <3>1, <3>2, <3>3
  <2> QED BY <1>11, <2>1, <2>3 DEF Numbered
<1>17. Good(x, B, E, n)
  BY <1>1, <1>13, <1>14, <1>15, <1>16 DEF Good
<1>18. ASSUME NEW m \in LineSet PROVE Peek(x, m, B[m]) = Peek(c, m, B[m])
  <2>1. InArrays(x, m) = InArrays(c, m) /\ InWbq(x, m) = InWbq(c, m)
    BY <1>11 DEF InArrays, InWbq
  <2>2. MshrFor(x, m) = MshrFor(c, m)
    BY <1>10, <1>11, <1>12 DEF MshrFor
  <2>3. CASE MshrFor(c, m) # {}
    <3>1. MshrFor(c, m) \subseteq Nat /\ MshrFor(c, m) \subseteq MshrIds
      BY DEF MshrFor, Occupied, MshrIds
    <3>2. First(MshrFor(c, m)) \in MshrIds
      BY <2>3, <3>1, FirstIn
    <3>3. x.mshrs[First(MshrFor(c, m))].waiting = c.mshrs[First(MshrFor(c, m))].waiting
      BY <1>10, <1>11, <3>2
    <3> QED BY <1>11, <2>1, <2>2, <3>3 DEF Peek
  <2>4. CASE MshrFor(c, m) = {}
    BY <1>11, <2>1, <2>2, <2>4 DEF Peek
  <2> QED BY <2>3, <2>4
<1>19. Contents(x, B) = Contents(c, B)
  BY <1>18 DEF Contents
<1>20. Due(x, B) = Due(c, B)
  <2>1. \A k \in MshrIds : Promises(x, B, k) = Promises(c, B, k)
    BY <1>10, <1>11 DEF Promises, Promise
  <2> QED BY <1>11, <2>1 DEF Due
<1> QED BY <1>9, <1>17, <1>19, <1>20 DEF Unnoticed

(* The requester takes an answer: it is owed no longer.                    *)
LEMMA TakeGood ==
  ASSUME NEW c, NEW B, NEW F, NEW n, Good(c, B, F, n), c.resp # <<>>
  PROVE  LET x == [c EXCEPT !.resp = Tail(@)]
             a == Note(Head(c.resp))
         IN  /\ Good(x, B, F, n) /\ Contents(x, B) = Contents(c, B)
             /\ a \in Due(c, B) /\ Due(x, B) = Due(c, B) \ {a}
<1> DEFINE R == Tail(c.resp)
           h == Head(c.resp)
           x == [c EXCEPT !.resp = R]
<1>1. c \in CacheState /\ Fits(c) /\ Apart(c) /\ Awaited(c, B, F) /\ Numbered(c, n)
      /\ B \in [LineSet -> LineData] /\ n \in Datum
  BY DEF Good, Fits
<1>2. /\ c.arrays \in [SetIds -> Seq(Stored)] /\ c.mshrs \in [MshrIds -> MissState]
      /\ c.wbq \in Seq(Victim) /\ c.installs \in Seq(Delayed)
      /\ c.hits \in Seq(Reply) /\ c.resp \in Seq(Reply)
  BY <1>1, StateParts
<1>3. x = [arrays |-> c.arrays, mshrs |-> c.mshrs, wbq |-> c.wbq, installs |-> c.installs,
           hits |-> c.hits, resp |-> R]
  BY <1>1, Updated
<1>4. TagsDiffer(c.resp)
  BY <1>1 DEF Numbered
<1>5. R \in Seq(Reply) /\ h = c.resp[1] /\ 1 \in 1 .. Len(c.resp) /\ h \in Elems(c.resp)
  BY <1>2, TailSeq DEF Elems
<1>6. /\ TagsDiffer(R) /\ Elems(R) = Elems(c.resp) \ {h}
      /\ \A e \in Elems(R) : e.tag # h.tag
  BY <1>2, <1>4, TailTag
<1> HIDE DEF x, R, h
<1>7. /\ x.arrays = c.arrays /\ x.mshrs = c.mshrs /\ x.wbq = c.wbq
      /\ x.installs = c.installs /\ x.hits = c.hits /\ x.resp = R
  BY <1>3
<1>8. Occupied(x) = Occupied(c)
  BY <1>7 DEF Occupied
<1>9. Fits(x)
  <2>1. x \in CacheState
    BY <1>2, <1>3, <1>5 DEF CacheState
  <2> QED BY <1>1, <1>7, <2>1 DEF Fits
<1>10. Apart(x)
  BY <1>1, <1>7, <1>8 DEF Apart
<1>11. Awaited(x, B, F)
  BY <1>1, <1>7 DEF Awaited
<1>12. Numbered(x, n)
  <2>1. /\ TagsDiffer(c.hits)
        /\ \A a \in Elems(R), b \in Elems(c.hits) : a.tag # b.tag
        /\ \A a \in Elems(R) \cup Elems(c.hits) : a.tag <= n
    BY <1>1, <1>6 DEF Numbered
  <2>2. ASSUME NEW i \in MshrIds, NEW j \in 1 .. Len(c.mshrs[i].waiting)
        PROVE  LET t == c.mshrs[i].waiting[j].tag IN
               /\ t <= n
               /\ \A a \in Elems(R) \cup Elems(c.hits) : a.tag # t
               /\ \A k \in MshrIds : \A y \in 1 .. Len(c.mshrs[k].waiting) :
                    c.mshrs[k].waiting[y].tag = t => k = i /\ y = j
    BY <1>1, <1>6 DEF Numbered
  <2> QED BY <1>6, <1>7, <2>1, <2>2 DEF Numbered
<1>13. Good(x, B, F, n)
  BY <1>1, <1>9, <1>10, <1>11, <1>12 DEF Good
<1>14. Contents(x, B) = Contents(c, B)
  BY <1>7, ContentsSame
<1>15. Note(h) \in Due(c, B)
  BY <1>5 DEF Due
<1>16. /\ \A a \in Elems(c.hits) : Note(a) # Note(h)
       /\ \A a \in Elems(R) : Note(a) # Note(h)
  <2>1. \A a \in Elems(c.hits) : a.tag # h.tag
    BY <1>1, <1>5 DEF Numbered
  <2>2. \A a : Note(a).tag = a.tag
    BY DEF Note
  <2> QED BY <1>6, <2>1, <2>2
<1>17. \A i \in MshrIds : Note(h) \notin Promises(c, B, i)
  <2> SUFFICES ASSUME NEW i \in MshrIds, NEW j \in 1 .. Len(c.mshrs[i].waiting),
                      Note(Promise(c, B, i, j)) = Note(h)
               PROVE  FALSE
    BY DEF Promises
  <2>1. c.mshrs[i].waiting[j].tag # h.tag
    BY <1>1, <1>5 DEF Numbered
  <2>2. Promise(c, B, i, j).tag = c.mshrs[i].waiting[j].tag
    BY DEF Promise, Answer
  <2>3. Note(h).tag = h.tag /\ Note(Promise(c, B, i, j)).tag = Promise(c, B, i, j).tag
    BY DEF Note
  <2> QED BY <2>1, <2>2, <2>3
<1>18. Due(x, B) = Due(c, B) \ {Note(h)}
  <2>1. \A i : Promises(x, B, i) = Promises(c, B, i)
    BY <1>7, PromisesSame
  <2> DEFINE P == UNION {Promises(c, B, i) : i \in MshrIds}
             N == {Note(a) : a \in Elems(c.hits)}
  <2>2. Due(c, B) = N \cup {Note(a) : a \in Elems(c.resp)} \cup P
    BY DEF Due
  <2>3. Due(x, B) = N \cup {Note(a) : a \in Elems(R)} \cup P
    BY <1>7, <2>1 DEF Due
  <2>4. Note(h) \notin P /\ Note(h) \notin N
    BY <1>16, <1>17
  <2>5. {Note(a) : a \in Elems(R)} = {Note(a) : a \in Elems(c.resp)} \ {Note(h)}
    BY <1>6, <1>16
  <2> HIDE DEF P, N
  <2> QED BY <2>2, <2>3, <2>4, <2>5
<1> QED BY <1>13, <1>14, <1>15, <1>18 DEF x, h, R

-----------------------------------------------------------------------------
(* The specification: every step keeps CacheInv, and says what becomes of  *)
(* the memory and of the answers owed.                                     *)

LEMMA OverlaidType ==
  ASSUME NEW w \in Seq(Asked), NEW b \in LineData
  PROVE  Overlaid(w, b) \in LineData
<1>1. Len(w) \in Nat /\ DOMAIN w = 1 .. Len(w)
  OBVIOUS
<1>2. ASSUME NEW o \in Offsets
      PROVE  (LET W == WritesTo(o, w)
              IN  IF W = {} THEN b[o] ELSE w[Final(W)].data[o]) \in Datum
  <2> DEFINE W == WritesTo(o, w)
  <2>1. W = {j \in 1 .. Len(w) : w[j].write /\ o \in w[j].bytes}
    BY <1>1 DEF WritesTo
  <2> HIDE DEF W
  <2>2. CASE W = {}
    BY <2>2 DEF LineData, W
  <2>3. CASE W # {}
    <3> DEFINE k == Final(W)
    <3>1. W \subseteq 1 .. Len(w)
      BY <2>1
    <3>2. k \in W
      BY <1>1, <2>3, <3>1, FinalIn
    <3> HIDE DEF k
    <3>3. k \in 1 .. Len(w) /\ w[k].write /\ o \in w[k].bytes
      BY <2>1, <3>2
    <3>4. w[k] \in Asked
      BY <3>3
    <3>5. w[k].data \in [w[k].bytes -> Datum]
      BY <3>3, <3>4 DEF Asked
    <3>6. w[k].data[o] \in Datum
      BY <3>3, <3>5
    <3> QED BY <2>3, <3>6 DEF W, k
  <2> QED BY <2>2, <2>3
<1> QED BY <1>2 DEF Overlaid, LineData

LEMMA ContentsType ==
  ASSUME NEW c, NEW B, NEW F, NEW n, Good(c, B, F, n)
  PROVE  Contents(c, B) \in [LineSet -> LineData]
<1>1. c \in CacheState /\ Fits(c) /\ Apart(c) /\ B \in [LineSet -> LineData]
  BY DEF Good, Fits
<1>2. /\ c.arrays \in [SetIds -> Seq(Stored)] /\ c.mshrs \in [MshrIds -> MissState]
      /\ c.wbq \in Seq(Victim)
  BY <1>1, StateParts
<1>3. ASSUME NEW l \in LineSet PROVE Peek(c, l, B[l]) \in LineData
  <2>1. SetOf(l) \in SetIds /\ B[l] \in LineData
    BY <1>1, SetOfRange
  <2>2. CASE \E e \in Elems(c.arrays[SetOf(l)]) : e.line = l
    <3>1. PICK e \in Elems(c.arrays[SetOf(l)]) : e.line = l
      BY <2>2
    <3>2. Peek(c, l, B[l]) = e.data
      BY <1>1, <3>1, PeekIs
    <3>3. e \in Stored
      BY <1>2, <2>1 DEF Elems
    <3> QED BY <3>2, <3>3 DEF Stored
  <2>3. CASE \E v \in Elems(c.wbq) : v.line = l
    <3>1. PICK v \in Elems(c.wbq) : v.line = l
      BY <2>3
    <3>2. Peek(c, l, B[l]) = v.data
      BY <1>1, <3>1, PeekIs
    <3>3. v \in Victim
      BY <1>2 DEF Elems
    <3> QED BY <3>2, <3>3 DEF Victim
  <2>4. CASE \E i \in Occupied(c) : c.mshrs[i].line = l
    <3>1. PICK i \in Occupied(c) : c.mshrs[i].line = l
      BY <2>4
    <3>2. Peek(c, l, B[l]) = Overlaid(c.mshrs[i].waiting, B[l])
      BY <1>1, <3>1, PeekIs
    <3>3. i \in MshrIds
      BY DEF Occupied
    <3>4. c.mshrs[i] \in MissState
      BY <1>2, <3>3
    <3>5. c.mshrs[i].waiting \in Seq(Asked)
      BY <3>4 DEF MissState
    <3> QED BY <2>1, <3>2, <3>5, OverlaidType
  <2>5. CASE NoHome(c, l)
    BY <1>1, <2>1, <2>5, PeekIs
  <2> QED BY <2>2, <2>3, <2>4, <2>5 DEF NoHome
<1> QED BY <1>3 DEF Contents

LEMMA InitGood == CInit => CacheInv
<1> SUFFICES ASSUME CInit PROVE CacheInv
  OBVIOUS
<1>1. /\ cache = EmptyCache /\ flight = {} /\ asked = 0
      /\ below = [l \in LineSet |-> [o \in Offsets |-> 0]]
  BY DEF CInit
<1>2. 0 \in Datum /\ 0 \in LineSet
  BY PortAssumption, CacheAssumption DEF Datum, LineSet
<1>3. [o \in Offsets |-> 0] \in LineData
  BY <1>2 DEF LineData
<1>4. below \in [LineSet -> LineData]
  BY <1>1, <1>3
<1>5. /\ cache.arrays = [s \in SetIds |-> <<>>]
      /\ cache.mshrs = [i \in MshrIds |-> FreeMshr]
      /\ cache.wbq = <<>> /\ cache.installs = <<>> /\ cache.hits = <<>> /\ cache.resp = <<>>
      /\ cache = [arrays |-> cache.arrays, mshrs |-> cache.mshrs, wbq |-> cache.wbq,
                  installs |-> cache.installs, hits |-> cache.hits, resp |-> cache.resp]
  BY <1>1 DEF EmptyCache, SetIds
<1>6. FreeMshr \in MissState /\ FreeMshr.valid = FALSE /\ FreeMshr.waiting = <<>>
  BY <1>2 DEF FreeMshr, MissState
<1>7. \A s \in SetIds : cache.arrays[s] = <<>> /\ Elems(cache.arrays[s]) = {}
  BY <1>5 DEF Elems
<1>8. \A i \in MshrIds : cache.mshrs[i] = FreeMshr
  BY <1>5
<1>9. Elems(<<>>) = {} /\ Occupied(cache) = {}
  BY <1>6, <1>8 DEF Elems, Occupied
<1>10. cache \in CacheState
  <2>1. cache.arrays \in [SetIds -> Seq(Stored)] /\ cache.mshrs \in [MshrIds -> MissState]
    BY <1>5, <1>6
  <2>2. <<>> \in Seq(Victim) /\ <<>> \in Seq(Delayed) /\ <<>> \in Seq(Reply)
    OBVIOUS
  <2> QED BY <1>5, <2>1, <2>2 DEF CacheState
<1>11. Fits(cache)
  BY <1>5, <1>7, <1>10, CacheAssumption DEF Fits
<1>12. Apart(cache)
  BY <1>5, <1>7, <1>9 DEF Apart, LinesDiffer
<1>13. Awaited(cache, below, flight)
  BY <1>1, <1>5, <1>6, <1>7, <1>8 DEF Awaited
<1>14. Numbered(cache, asked)
  BY <1>5, <1>6, <1>8, <1>9 DEF Numbered, TagsDiffer
<1> QED BY <1>1, <1>2, <1>4, <1>11, <1>12, <1>13, <1>14 DEF CacheInv, Good

(* The request that CacheOverMemory makes.                                 *)
Ask(write, l, bytes) ==
  [write |-> write, line |-> l, bytes |-> bytes, src |-> 0, tag |-> asked + 1,
   data |-> [o \in IF write THEN bytes ELSE {} |-> asked + 1]]

LEMMA RequestGood ==
  ASSUME CacheInv, NEW write \in BOOLEAN, NEW l \in LineSet, NEW bytes \in Shapes,
         Request(write, l, bytes)
  PROVE  /\ asked' = asked + 1 /\ below' = below /\ flight' = flight
         /\ Served(cache, cache', below, flight, asked + 1, Ask(write, l, bytes))
<1> DEFINE req == Ask(write, l, bytes)
           S == IF write THEN bytes ELSE {}
<1>1. asked < MaxRequests /\ CanAccept(cache) /\ cache' = Access(cache, req)
      /\ asked' = asked + 1 /\ below' = below /\ flight' = flight
  BY DEF Request, Ask
<1>2. Good(cache, below, flight, asked) /\ asked \in Datum
  BY DEF CacheInv, Good
<1>3. asked + 1 \in Datum
  BY <1>1, <1>2, PortAssumption DEF Datum
<1>4. bytes \in SUBSET Offsets /\ S \in SUBSET Offsets
  BY PortAssumption
<1>5. [o \in S |-> asked + 1] \in [S -> Datum] /\ [o \in S |-> asked + 1] \in PartData
  <2> HIDE DEF S
  <2>1. [o \in S |-> asked + 1] \in [S -> Datum]
    BY <1>3
  <2> QED BY <1>4, <2>1 DEF PartData
<1> DEFINE data == [o \in S |-> asked + 1]
<1>6. req = [write |-> write, line |-> l, bytes |-> bytes, src |-> 0, tag |-> asked + 1,
             data |-> data]
  BY DEF Ask
<1>7. write => S = bytes
  OBVIOUS
<1> HIDE DEF req, data, S
<1>8. req \in AnyAsked
  BY <1>3, <1>4, <1>5, <1>6 DEF AnyAsked, data
<1>9. req.write = write /\ req.bytes = bytes /\ req.data = data /\ req.tag = asked + 1
  BY <1>6
<1>10. write => data \in [bytes -> Datum]
  BY <1>5, <1>7 DEF data
<1>11. req \in Asked
  BY <1>8, <1>9, <1>10 DEF Asked
<1>12. Served(cache, Access(cache, req), below, flight, asked + 1, req)
  BY <1>1, <1>2, <1>3, <1>9, <1>11, AccessGood
<1> QED BY <1>1, <1>12 DEF req

LEMMA TickGood ==
  ASSUME CacheInv, NEW m \in 0 .. Len(cache.hits), Tick(m)
  PROVE  /\ Good(cache', below', flight', asked) /\ asked' = asked
         /\ Contents(cache', below') = Contents(cache, below)
         /\ Due(cache', below') = Due(cache, below)
<1> DEFINE c == Advanced(cache, m)
<1>1. Unnoticed(cache, c, below, flight, asked)
  BY AdvanceGood DEF CacheInv
<1>2. /\ Good(c, below, flight, asked) /\ Contents(c, below) = Contents(cache, below)
      /\ Due(c, below) = Due(cache, below)
  BY <1>1 DEF Unnoticed
<1>3. CASE TickRefused(m)
  BY <1>2, <1>3 DEF TickRefused
<1>4. CASE TickWriteback(m)
  <2> DEFINE x == [c EXCEPT !.wbq = Tail(@)]
             D == [below EXCEPT ![Head(c.wbq).line] = Head(c.wbq).data]
  <2>1. SendsWriteback(c) /\ c.wbq # <<>>
    BY <1>4 DEF TickWriteback, SendsWriteback
  <2>2. cache' = x /\ below' = D /\ flight' = flight /\ asked' = asked
    BY <1>4, <2>1 DEF TickWriteback, AfterSending, Outgoing
  <2> HIDE DEF c
  <2>3. Good(x, D, flight, asked) /\ Contents(x, D) = Contents(c, below)
        /\ Due(x, D) = Due(c, below)
    BY <1>2, <2>1, WritebackGood
  <2> HIDE DEF x, D
  <2> QED BY <1>2, <2>2, <2>3
<1>5. CASE TickRefill(m)
  <2> DEFINE i == First(Unsent(c))
             x == [c EXCEPT !.mshrs[i].sent = TRUE]
             E == flight \cup {[tag |-> i, data |-> below[c.mshrs[i].line]]}
  <2>1. ~SendsWriteback(c) /\ Unsent(c) # {}
    BY <1>5 DEF TickRefill, SendsRefill
  <2>2. cache' = x /\ below' = below /\ flight' = E /\ asked' = asked
    BY <1>5, <2>1 DEF TickRefill, AfterSending, Outgoing
  <2>3. i \in Unsent(c)
    <3>1. Unsent(c) \subseteq Nat
      BY DEF Unsent, Occupied, MshrIds
    <3> QED BY <2>1, <3>1, FirstIn
  <2> HIDE DEF c, i
  <2>4. Unnoticed(c, x, below, E, asked)
    BY <1>2, <2>3, RefillGood
  <2> HIDE DEF x, E
  <2> QED BY <1>2, <2>2, <2>4 DEF Unnoticed
<1> QED BY <1>3, <1>4, <1>5 DEF Tick

LEMMA RefilledGood ==
  ASSUME CacheInv, NEW r \in flight, Refilled(r)
  PROVE  /\ Good(cache', below', flight', asked) /\ asked' = asked
         /\ Contents(cache', below') = Contents(cache, below)
         /\ Due(cache', below') = Due(cache, below)
<1>1. cache' = DeliverBelowResponse(cache, r.tag, r.data) /\ flight' = flight \ {r}
      /\ below' = below /\ asked' = asked
  BY DEF Refilled
<1>2. Unnoticed(cache, DeliverBelowResponse(cache, r.tag, r.data), below, flight \ {r}, asked)
  BY DeliverGood DEF CacheInv
<1> QED BY <1>1, <1>2 DEF Unnoticed

LEMMA RangeElems ==
  ASSUME NEW S, NEW s \in Seq(S)
  PROVE  Range(s) = Elems(s)
<1>1. DOMAIN s = 1 .. Len(s)
  OBVIOUS
<1> QED BY <1>1 DEF Range, Elems

LEMMA OneOrNone ==
  ASSUME NEW S, NEW T, NEW U,
         \A x, y \in S : x = y, \A x, y \in T : x = y, \A x, y \in U : x = y,
         S = {} \/ T = {}, S = {} \/ U = {}, T = {} \/ U = {}
  PROVE  Cardinality(S) + Cardinality(T) + Cardinality(U) <= 1
<1>1. ASSUME NEW X, \A x, y \in X : x = y
      PROVE  (X = {} /\ Cardinality(X) = 0) \/ (X # {} /\ Cardinality(X) = 1)
  <2>1. CASE X = {}
    BY <2>1, FS_EmptySet
  <2>2. CASE X # {}
    <3>1. PICK e \in X : TRUE
      BY <2>2
    <3>2. X = {e}
      BY <1>1, <3>1
    <3> QED BY <2>2, <3>2, FS_Singleton
  <2> QED BY <2>1, <2>2
<1>2. (S = {} /\ Cardinality(S) = 0) \/ (S # {} /\ Cardinality(S) = 1)
  BY <1>1
<1>3. (T = {} /\ Cardinality(T) = 0) \/ (T # {} /\ Cardinality(T) = 1)
  BY <1>1
<1>4. (U = {} /\ Cardinality(U) = 0) \/ (U # {} /\ Cardinality(U) = 1)
  BY <1>1
<1> QED BY <1>2, <1>3, <1>4

LEMMA GoodIsSound == CacheInv => CopiesSound
<1> SUFFICES ASSUME CacheInv PROVE CopiesSound
  OBVIOUS
<1>1. /\ Fits(cache) /\ Apart(cache) /\ Awaited(cache, below, flight)
      /\ below \in [LineSet -> LineData] /\ asked \in Datum /\ cache \in CacheState
  BY DEF CacheInv, Good, Fits
<1>2. /\ cache.arrays \in [SetIds -> Seq(Stored)] /\ cache.wbq \in Seq(Victim)
      /\ cache.installs \in Seq(Delayed)
  BY <1>1, StateParts
<1>3. \A s \in SetIds : Range(cache.arrays[s]) = Elems(cache.arrays[s])
  BY <1>2, RangeElems
<1>4. ASSUME NEW s \in SetIds, NEW e \in Elems(cache.arrays[s])
      PROVE  e.data \in LineData /\ e.dirty \in BOOLEAN /\ SetOf(e.line) = s
  <2>1. e \in Stored
    BY <1>2 DEF Elems
  <2>2. SetOf(e.line) = s
    BY <1>1 DEF Fits
  <2> QED BY <2>1, <2>2 DEF Stored
<1>5. CacheTypeOK
  <2>1. \A s \in SetIds :
          /\ Len(cache.arrays[s]) <= Ways
          /\ \A e \in Range(cache.arrays[s]) :
               e.data \in LineData /\ e.dirty \in BOOLEAN /\ SetOf(e.line) = s
    BY <1>1, <1>3, <1>4 DEF Fits
  <2>2. /\ \A i \in MshrIds : cache.mshrs[i].valid <=> cache.mshrs[i].waiting # <<>>
        /\ \A r \in flight : r.data \in LineData
    BY <1>1 DEF Awaited
  <2>3. Len(cache.wbq) <= WbCap
    BY <1>1 DEF Fits
  <2> QED BY <1>1, <2>1, <2>2, <2>3 DEF CacheTypeOK, SetIds, Datum
<1>6. ASSUME NEW l \in LineSet PROVE Homes(cache, l) <= 1
  <2> DEFINE s == SetOf(l)
             q == cache.arrays[s]
             S == InArrays(cache, l)
             T == InWbq(cache, l)
             U == MshrFor(cache, l)
  <2>1. s \in SetIds /\ q \in Seq(Stored)
    BY <1>2, SetOfRange
  <2>2. S = {k \in 1 .. Len(q) : q[k].line = l}
    BY <2>1 DEF InArrays
  <2>3. T = {k \in 1 .. Len(cache.wbq) : cache.wbq[k].line = l}
    BY <1>2 DEF InWbq
  <2>4. U = {i \in Occupied(cache) : cache.mshrs[i].line = l}
    BY DEF MshrFor
  <2>5. /\ \A x, y \in S : x = y
        /\ \A x, y \in T : x = y
        /\ \A x, y \in U : x = y
    BY <1>1, <2>1, <2>2, <2>3, <2>4 DEF Apart, LinesDiffer
  <2>6. /\ \A k \in 1 .. Len(q) : q[k] \in Elems(q)
        /\ \A k \in 1 .. Len(cache.wbq) : cache.wbq[k] \in Elems(cache.wbq)
    BY DEF Elems
  <2>7. /\ \A e \in Elems(q), v \in Elems(cache.wbq) : e.line # v.line
        /\ \A e \in Elems(q), i \in Occupied(cache) : e.line # cache.mshrs[i].line
        /\ \A v \in Elems(cache.wbq), i \in Occupied(cache) : v.line # cache.mshrs[i].line
    BY <1>1, <2>1 DEF Apart
  <2> HIDE DEF q, S, T, U
  <2>8. (S = {} \/ T = {}) /\ (S = {} \/ U = {}) /\ (T = {} \/ U = {})
    BY <2>2, <2>3, <2>4, <2>6, <2>7
  <2>9. Cardinality(S) + Cardinality(T) + Cardinality(U) <= 1
    BY <2>5, <2>8, OneOrNone
  <2> QED BY <2>9 DEF Homes, S, T, U
<1>7. CleanMeansCurrent
  <2>1. \A s \in SetIds : \A e \in Range(cache.arrays[s]) :
          e.dirty \/ e.data = below[e.line]
    BY <1>1, <1>3 DEF Awaited
  <2>2. \A r \in flight : r.data = below[cache.mshrs[r.tag].line]
    BY <1>1 DEF Awaited
  <2>3. \A k \in 1 .. Len(cache.installs) :
          cache.installs[k].data = below[cache.mshrs[cache.installs[k].mshr].line]
    BY <1>1 DEF Awaited
  <2>4. \A w \in Range(cache.installs) : w.data = below[cache.mshrs[w.mshr].line]
    BY <1>2, <2>3, RangeElems DEF Elems
  <2> QED BY <2>1, <2>2, <2>4 DEF CleanMeansCurrent, SetIds
<1> QED BY <1>5, <1>6, <1>7 DEF CopiesSound, OneHome

(* What CacheOverMemory calls the memory and the answers owed.             *)
LEMMA NewestIs == Newest = Contents(cache, below)
BY DEF Newest, Contents

LEMMA OwedIs ==
  ASSUME CacheInv
  PROVE  Owed = Due(cache, below)
<1>1. cache \in CacheState
  BY DEF CacheInv, Good, Fits
<1>2. /\ cache.mshrs \in [MshrIds -> MissState]
      /\ cache.hits \in Seq(Reply) /\ cache.resp \in Seq(Reply)
  BY <1>1, StateParts
<1>3. Range(cache.hits) = Elems(cache.hits) /\ Range(cache.resp) = Elems(cache.resp)
  BY <1>2, RangeElems
<1>4. Range(cache.mshrs) = {cache.mshrs[i] : i \in MshrIds}
  BY <1>2 DEF Range
<1>5. ASSUME NEW i \in MshrIds PROVE DOMAIN cache.mshrs[i].waiting = 1 .. Len(cache.mshrs[i].waiting)
  <2>1. cache.mshrs[i].waiting \in Seq(Asked)
    BY <1>2 DEF MissState
  <2> QED BY <2>1
<1> DEFINE P(i) == {Promise(cache, below, i, j) : j \in 1 .. Len(cache.mshrs[i].waiting)}
<1>6. WaitingAnswers = UNION {P(i) : i \in MshrIds}
  <2> DEFINE Q(m) == {Answer(m.waiting[j], Overlaid(SubSeq(m.waiting, 1, j - 1), below[m.line])) :
                        j \in DOMAIN m.waiting}
  <2>1. WaitingAnswers = UNION {Q(m) : m \in Range(cache.mshrs)}
    BY DEF WaitingAnswers
  <2>2. \A i \in MshrIds : Q(cache.mshrs[i]) = P(i)
    BY <1>5 DEF Promise
  <2> HIDE DEF P, Q
  <2> QED BY <1>4, <2>1, <2>2
<1>7. \A i \in MshrIds : {Note(a) : a \in P(i)} = Promises(cache, below, i)
  BY DEF Promises
<1> HIDE DEF P
<1>8. Owed = {Note(a) : a \in Elems(cache.hits) \cup Elems(cache.resp) \cup WaitingAnswers}
  BY <1>3 DEF Owed, Note
<1>9. Due(cache, below) = {Note(a) : a \in Elems(cache.hits)}
        \cup {Note(a) : a \in Elems(cache.resp)}
        \cup UNION {{Note(a) : a \in P(i)} : i \in MshrIds}
  BY <1>7 DEF Due
<1> QED BY <1>6, <1>8, <1>9
-----------------------------------------------------------------------------
LEMMA StepGood == CacheInv /\ [CNext]_cvars => CacheInv'
<1> SUFFICES ASSUME CacheInv, [CNext]_cvars PROVE CacheInv'
  OBVIOUS
<1>1. ASSUME NEW write \in BOOLEAN, NEW l \in LineSet, NEW bytes \in Shapes,
             Request(write, l, bytes)
      PROVE  CacheInv'
  BY <1>1, RequestGood DEF CacheInv, Served
<1>2. CASE Take
  BY <1>2, TakeGood DEF CacheInv, Take
<1>3. ASSUME NEW r \in flight, Refilled(r) PROVE CacheInv'
  BY <1>3, RefilledGood DEF CacheInv
<1>4. ASSUME NEW m \in 0 .. Len(cache.hits), Tick(m) PROVE CacheInv'
  BY <1>4, TickGood DEF CacheInv
<1>5. CASE UNCHANGED cvars
  BY <1>5 DEF CacheInv, cvars
<1> QED BY <1>1, <1>2, <1>3, <1>4, <1>5 DEF CNext

LEMMA InvHolds == CSpec => []CacheInv
BY InitGood, StepGood, PTL DEF CSpec

(* A line never has two homes, and what may be dropped without a writeback *)
(* is the same below (cache.cpp:141, 293).                                 *)
THEOREM CopiesAlwaysSound == CSpec => []CopiesSound
BY InvHolds, GoodIsSound, PTL

-----------------------------------------------------------------------------
(* The steps of the cache are steps of ArrivalMemory, or stutter.          *)

LEMMA ArrivalInit == CInit => Arrival!AInit
<1> SUFFICES ASSUME CInit PROVE Arrival!AInit
  OBVIOUS
<1> DEFINE zero == [o \in Offsets |-> 0]
<1>1. cache = EmptyCache /\ asked = 0 /\ below = [l \in LineSet |-> zero] /\ CacheInv
  BY InitGood DEF CInit
<1>2. /\ cache.arrays = [s \in SetIds |-> <<>>]
      /\ cache.mshrs = [i \in MshrIds |-> FreeMshr]
      /\ cache.wbq = <<>> /\ cache.hits = <<>> /\ cache.resp = <<>>
  BY <1>1 DEF EmptyCache, SetIds
<1>3. Occupied(cache) = {}
  BY <1>2 DEF Occupied, FreeMshr
<1>4. Elems(<<>>) = {}
  BY DEF Elems
<1>5. ASSUME NEW l \in LineSet PROVE Peek(cache, l, below[l]) = zero
  <2>1. SetOf(l) \in SetIds /\ below[l] = zero
    BY <1>1, SetOfRange
  <2>2. cache.arrays[SetOf(l)] = <<>>
    BY <1>2, <2>1
  <2>3. NoHome(cache, l)
    BY <1>2, <1>3, <1>4, <2>2 DEF NoHome
  <2>4. Fits(cache) /\ Apart(cache)
    BY <1>1 DEF CacheInv, Good
  <2> HIDE DEF zero
  <2> QED BY <2>1, <2>3, <2>4, PeekIs
<1>6. Newest = [l \in LineSet |-> zero]
  BY <1>5 DEF Newest
<1>7. \A i \in MshrIds : Promises(cache, below, i) = {}
  BY <1>2 DEF Promises, FreeMshr
<1>8. Due(cache, below) = {}
  BY <1>2, <1>4, <1>7 DEF Due
<1>9. Owed = {}
  BY <1>1, <1>8, OwedIs
<1> QED BY <1>1, <1>6, <1>9 DEF Arrival!AInit

LEMMA ArrivalRequest ==
  ASSUME CacheInv, CacheInv', NEW write \in BOOLEAN, NEW l \in LineSet, NEW bytes \in Shapes,
         Request(write, l, bytes)
  PROVE  Arrival!Arrive
<1> DEFINE req == Ask(write, l, bytes)
           amem == Newest
           line == amem[l]
<1>1. asked' = asked + 1 /\ below' = below
      /\ Served(cache, cache', below, flight, asked + 1, req)
  BY RequestGood
<1>2. Newest = Contents(cache, below) /\ Newest' = Contents(cache', below')
      /\ Owed = Due(cache, below) /\ Owed' = Due(cache', below')
  <2>1. (CacheInv => Owed = Due(cache, below)) /\ Newest = Contents(cache, below)
    BY OwedIs, NewestIs
  <2>2. (CacheInv => Owed = Due(cache, below))' /\ (Newest = Contents(cache, below))'
    BY OwedIs, NewestIs, PTL
  <2> QED BY <2>1, <2>2
<1>3. Newest \in [LineSet -> LineData] /\ line \in LineData
  BY <1>2, ContentsType DEF CacheInv
<1>4. /\ req.line = l /\ req.write = write /\ req.bytes = bytes /\ req.tag = asked + 1
      /\ write => \A o \in bytes : req.data[o] = asked + 1
  BY DEF Ask
<1> HIDE DEF req
<1>5. Newest' = [amem EXCEPT ![l] = Written(req, @)]
      /\ Owed' = Owed \cup {Note(Answer(req, line))}
  BY <1>1, <1>2, <1>4 DEF Served
<1>6. Note(Answer(req, line)) = [tag |-> asked',
        data |-> [o \in IF write THEN {} ELSE bytes |-> line[o]]]
  BY <1>1, <1>4 DEF Note, Answer
<1>7. <<l, bytes>> \in Arrival!Targets
  BY DEF Arrival!Targets, LineSet
<1>8. CASE write
  <2>1. Written(req, line) = [o \in Offsets |-> IF o \in bytes THEN asked' ELSE line[o]]
    BY <1>1, <1>4, <1>8 DEF Written
  <2>2. Note(Answer(req, line)) = [tag |-> asked', data |-> <<>>]
    BY <1>6, <1>8
  <2>3. Newest' = [amem EXCEPT ![l] =
          [o \in Offsets |-> IF o \in bytes THEN asked' ELSE @[o]]]
    BY <1>3, <1>5, <2>1
  <2> HIDE DEF line, amem
  <2>4. Owed' = Owed \cup {[tag |-> asked', data |-> <<>>]}
    BY <1>5, <2>2
  <2> DEFINE after(z) == [Newest EXCEPT ![z[1]] =
               [o \in Offsets |-> IF o \in z[2] THEN asked' ELSE @[o]]]
             z0 == <<l, bytes>>
  <2>5. z0[1] = l /\ z0[2] = bytes
    OBVIOUS
  <2>6. Newest' = after(z0)
    <3> HIDE DEF z0
    <3> QED BY <2>3, <2>5 DEF amem
  <2>7. Newest' \in {after(z) : z \in Arrival!Targets}
    <3> HIDE DEF after
    <3> QED BY <1>7, <2>6
  <2>8. Newest' \in {[Newest EXCEPT ![z[1]] =
                  [o \in Offsets |-> IF o \in z[2] THEN asked' ELSE @[o]]] : z \in Arrival!Targets}
    BY <2>7
  <2>9. Arrival!Write
    BY <2>4, <2>8 DEF Arrival!Write
  <2> QED BY <1>1, <2>9 DEF Arrival!Arrive
<1>9. CASE ~write
  <2>1. Written(req, line) = line
    BY <1>3, <1>4, <1>9 DEF Written, LineData
  <2>2. Newest' = Newest
    BY <1>3, <1>5, <2>1
  <2>3. Note(Answer(req, line)) = [tag |-> asked', data |-> [o \in bytes |-> amem[l][o]]]
    BY <1>6, <1>9
  <2>4. Arrival!Read
    BY <1>5, <1>7, <2>2, <2>3 DEF Arrival!Read
  <2> QED BY <1>1, <2>4 DEF Arrival!Arrive
<1> QED BY <1>8, <1>9

LEMMA ArrivalStep ==
  CacheInv /\ CacheInv' /\ [CNext]_cvars
    => [Arrival!Arrive \/ Arrival!Give]_(Arrival!avars)
<1> SUFFICES ASSUME CacheInv, CacheInv', [CNext]_cvars
             PROVE  [Arrival!Arrive \/ Arrival!Give]_(Arrival!avars)
  OBVIOUS
<1>1. Newest = Contents(cache, below) /\ Newest' = Contents(cache', below')
      /\ Owed = Due(cache, below) /\ Owed' = Due(cache', below')
  <2>1. (CacheInv => Owed = Due(cache, below)) /\ Newest = Contents(cache, below)
    BY OwedIs, NewestIs
  <2>2. (CacheInv => Owed = Due(cache, below))' /\ (Newest = Contents(cache, below))'
    BY OwedIs, NewestIs, PTL
  <2> QED BY <2>1, <2>2
<1>2. ASSUME NEW write \in BOOLEAN, NEW l \in LineSet, NEW bytes \in Shapes,
             Request(write, l, bytes)
      PROVE  Arrival!Arrive
  BY <1>2, ArrivalRequest
<1>3. ASSUME Take PROVE Arrival!Give
  <2> DEFINE x == [cache EXCEPT !.resp = Tail(@)]
             a == Note(Head(cache.resp))
  <2>1. cache.resp # <<>> /\ cache' = x /\ below' = below /\ asked' = asked
    BY <1>3 DEF Take
  <2>2. Contents(x, below) = Contents(cache, below) /\ a \in Due(cache, below)
        /\ Due(x, below) = Due(cache, below) \ {a}
    BY <2>1, TakeGood DEF CacheInv
  <2> HIDE DEF x, a
  <2> QED BY <1>1, <2>1, <2>2 DEF Arrival!Give
<1>4. ASSUME asked' = asked, Contents(cache', below') = Contents(cache, below),
             Due(cache', below') = Due(cache, below)
      PROVE  UNCHANGED Arrival!avars
  BY <1>1, <1>4 DEF Arrival!avars
<1>5. ASSUME NEW r \in flight, Refilled(r) PROVE UNCHANGED Arrival!avars
  BY <1>4, <1>5, RefilledGood
<1>6. ASSUME NEW m \in 0 .. Len(cache.hits), Tick(m) PROVE UNCHANGED Arrival!avars
  BY <1>4, <1>6, TickGood
<1>7. CASE UNCHANGED cvars
  BY <1>4, <1>7 DEF cvars
<1> QED BY <1>2, <1>3, <1>5, <1>6, <1>7 DEF CNext

(* The cache is one memory on which each request takes effect when it      *)
(* arrives, and every request gets one answer (cache.cpp:24, 77, 289).     *)
THEOREM CacheRefinesArrival == CSpec => RefinesArrival
BY ArrivalInit, ArrivalStep, InvHolds, PTL DEF CSpec, RefinesArrival, Arrival!ASpec
=============================================================================
