--------------------------- MODULE MemOrderProofs ---------------------------
(***************************************************************************)
(* The memory engine behaves as one memory touched in program order.       *)
(*                                                                         *)
(* The argument follows a value: what the port has performed and the store *)
(* buffer still holds make up committed memory; a load in flight overlaps  *)
(* nothing that is known to be older, so what it reads is what was         *)
(* committed; and a store that learns its address either finds no load it  *)
(* should have fed, or throws it away.  All of this needs that a response  *)
(* reaches the load that asked, hence generations that do not come round   *)
(* (MaxOps < GenMod; both may be as large as one likes).                   *)
(*                                                                         *)
(* The second half is about the bitmaps and counters that stand for        *)
(* searches of the queue (LsqSets): each method keeps them Exact.          *)
(***************************************************************************)
EXTENDS LsqSets, RingProofs, SequenceTheorems, FiniteSetTheorems

(* Values a load or a request can carry.                                   *)
Vals == {<<>>} \cup UNION {[BytesOf(acc) -> OpIds] : acc \in Accesses}

LsqEntries == [isStore : BOOLEAN, id : OpIds, gen : 0 .. GenMod - 1,
               acc : Accesses \cup {NoAccess}, dataReady : BOOLEAN,
               issued : BOOLEAN, done : BOOLEAN, reported : BOOLEAN, val : Vals]
SbEntries == [acc : Accesses \cup {NoAccess}, id : OpIds, inflight : BOOLEAN,
              acked : BOOLEAN, txn : Nat]
Requests == [isStore : BOOLEAN, slot : Nat, tag : Nat, acc : Accesses, id : OpIds,
             performed : BOOLEAN, val : Vals]

QueueShape ==
  /\ mode \in Modes /\ ops \in OpIds
  /\ lsq \in [LsqSlots -> LsqEntries] /\ lsqHead \in LsqSlots /\ lsqCount \in 0 .. LsqSize
  /\ genCtr \in [LsqSlots -> 0 .. GenMod - 1]

BufferShape ==
  /\ sb \in [SbSlots -> SbEntries] /\ sbHead \in SbSlots /\ sbCount \in 0 .. SbSize
  /\ sbIssued \in 0 .. sbCount /\ sbTxnCtr \in Nat

PortShape == port \in Seq(Requests) /\ Len(port) <= PortCap

MemShape == mem \in [Bytes -> OpIds] /\ arch \in [Bytes -> OpIds]

(* An entry of the queue, alive or not, tells its own history: only a load *)
(* with an address is issued or done, and a value arrives once.            *)
EntryRight(s) ==
  /\ lsq[s].gen = genCtr[s] /\ genCtr[s] <= ops
  /\ lsq[s].issued \/ lsq[s].done => lsq[s].acc # NoAccess /\ ~lsq[s].isStore
  /\ lsq[s].issued => ~Faulty(lsq[s].acc)
  /\ lsq[s].reported => lsq[s].done
  /\ ~lsq[s].done => lsq[s].val = <<>>
  /\ lsq[s].val # <<>> => lsq[s].val \in [BytesOf(lsq[s].acc) -> OpIds]

EntriesRight ==
  /\ \A s \in LsqSlots : EntryRight(s)
  /\ \A k \in Ages : Nth(k).id \in 1 .. MaxOps

(* A prefix of the store buffer is at the port, with increasing tags.      *)
BufferRight ==
  \A j \in SbAges :
    /\ SbNth(j).acc \in Accesses /\ ~Faulty(SbNth(j).acc)
    /\ SbNth(j).inflight <=> j < sbIssued
    /\ SbNth(j).acked => j < sbIssued
    /\ j < sbIssued => /\ SbNth(j).txn < sbTxnCtr
                       /\ \A i \in 0 .. j - 1 : SbNth(i).txn < SbNth(j).txn

StoreRequests == {i \in 1 .. Len(port) : port[i].isStore}
LoadRequests  == {i \in 1 .. Len(port) : ~port[i].isStore}

(* Request i is the one store buffer entry j is waiting for.               *)
StoreAsks(i, j) ==
  /\ port[i].slot = SbSlot(j) /\ port[i].tag = SbNth(j).txn /\ ~SbNth(j).acked
  /\ port[i].acc = SbNth(j).acc /\ port[i].id = SbNth(j).id

(* Store requests and unacknowledged entries correspond, in age order.     *)
StoresInPort ==
  /\ \A i \in StoreRequests : \E j \in 0 .. sbIssued - 1 : StoreAsks(i, j)
  /\ \A i1, i2 \in StoreRequests : i1 < i2 => port[i1].tag < port[i2].tag
  /\ \A j \in 0 .. sbIssued - 1 : SbNth(j).acked \/ \E i \in StoreRequests : StoreAsks(i, j)

LoadAsks(i, k) == port[i].slot = Slot(k) /\ port[i].tag = Nth(k).gen

(* A load request belongs to the entry in its slot exactly as long as the  *)
(* slot's generation is still its own.                                     *)
LoadRequestRight(i) ==
  /\ port[i].slot \in LsqSlots /\ port[i].tag <= genCtr[port[i].slot]
  /\ ~Faulty(port[i].acc)
  /\ port[i].performed => port[i].val \in [BytesOf(port[i].acc) -> OpIds]
  /\ port[i].tag = genCtr[port[i].slot] =>
       LET q == lsq[port[i].slot]
       IN  q.issued /\ q.id = port[i].id /\ q.acc = port[i].acc

LoadsInPort ==
  /\ \A i \in LoadRequests : LoadRequestRight(i)
  /\ \A k \in Pending : \E i \in LoadRequests : LoadAsks(i, k)

(* The write of store buffer entry j has reached memory.                   *)
Performed(j) ==
  \/ SbNth(j).acked
  \/ \E i \in StoreRequests : port[i].slot = SbSlot(j) /\ port[i].performed

Writers(b) == {j \in SbAges : b \in BytesOf(SbNth(j).acc)}

(* To each byte, writes reach memory in age order; memory holds the last   *)
(* of them, and committed memory what the youngest entry will write.       *)
ByteRight(b) ==
  /\ Writers(b) = {} => arch[b] = mem[b]
  /\ \A j \in Writers(b) :
       /\ (\A i \in Writers(b) : i <= j) => arch[b] = SbNth(j).id
       /\ Performed(j) => \A i \in Writers(b) : i < j => Performed(i)
       /\ (Performed(j) /\ \A i \in Writers(b) : j < i => ~Performed(i)) => mem[b] = SbNth(j).id

MemoryRight == \A b \in Bytes : ByteRight(b)

Clean(k) == \A j \in KnownStores : j < k => ~Fault(j)

Writes(j, b) == j \in KnownStores /\ b \in BytesOf(Nth(j).acc)

(* v is what program order gives load k, as far as the addresses of older  *)
(* stores are known.                                                       *)
OrderedValue(k, v) ==
  /\ v \in [BytesOf(Nth(k).acc) -> OpIds]
  /\ \A b \in BytesOf(Nth(k).acc) :
       /\ (\A j \in 0 .. k - 1 : ~Writes(j, b)) => v[b] = arch[b]
       /\ \A m \in 0 .. k - 1 :
            (Writes(m, b) /\ \A j \in m + 1 .. k - 1 : ~Writes(j, b)) => v[b] = Nth(m).id

ValueRight(k) == OrderedValue(k, Nth(k).val)

LoadRight(k) ==
  /\ Nth(k).issued => \A j \in 0 .. k - 1 : \A b \in BytesOf(Nth(k).acc) : ~Writes(j, b)
  /\ Nth(k).done => ValueRight(k)
  /\ ~Nth(k).done =>
       /\ \A b \in BytesOf(Nth(k).acc) : Writers(b) = {}
       /\ \A i \in LoadRequests : LoadAsks(i, k) /\ port[i].performed =>
            port[i].val = [b \in BytesOf(Nth(k).acc) |-> arch[b]]

LoadsRight == \A k \in AccessedLoads : ~Fault(k) /\ Clean(k) => LoadRight(k)

MemInv ==
  /\ QueueShape /\ BufferShape /\ PortShape /\ MemShape
  /\ EntriesRight /\ BufferRight /\ StoresInPort /\ LoadsInPort /\ MemoryRight
  /\ NeverPassesUnknownStore /\ LoadsRight
-----------------------------------------------------------------------------
(* Slots, bytes and the port as a sequence *)

LEMMA QueueTypes ==
  ASSUME QueueShape
  PROVE  /\ LsqSize \in Nat /\ lsqCount \in Nat /\ lsqCount <= LsqSize
         /\ lsqHead \in 0 .. LsqSize - 1 /\ LsqSlots = 0 .. LsqSize - 1
         /\ \A k \in 0 .. LsqSize : Slot(k) \in LsqSlots
         /\ \A j, k \in 0 .. LsqSize - 1 : Slot(j) = Slot(k) => j = k
         /\ \A k \in Ages : k \in 0 .. LsqSize - 1 /\ Slot(k) \in LsqSlots
                            /\ Nth(k) \in LsqEntries /\ Nth(k) = lsq[Slot(k)]
<1>1. /\ LsqSize \in Nat /\ lsqCount \in Nat /\ lsqCount <= LsqSize
      /\ lsqHead \in 0 .. LsqSize - 1 /\ LsqSlots = 0 .. LsqSize - 1
  BY MemOrderAssumption DEF QueueShape, LsqSlots
<1>2. \A k \in 0 .. LsqSize : Slot(k) \in LsqSlots
  BY <1>1, IndexInRange DEF Slot
<1>3. \A j, k \in 0 .. LsqSize - 1 : Slot(j) = Slot(k) => j = k
  BY <1>1, IndexInjective DEF Slot
<1>4. ASSUME NEW k \in Ages
      PROVE  k \in 0 .. LsqSize - 1 /\ Slot(k) \in LsqSlots
             /\ Nth(k) \in LsqEntries /\ Nth(k) = lsq[Slot(k)]
  <2>1. k \in 0 .. LsqSize - 1 /\ k \in 0 .. LsqSize
    BY <1>1 DEF Ages
  <2>2. Slot(k) \in LsqSlots /\ Nth(k) = lsq[Slot(k)]
    BY <1>2, <2>1 DEF Nth
  <2> QED BY <2>1, <2>2 DEF QueueShape
<1> QED BY <1>1, <1>2, <1>3, <1>4

LEMMA BufferTypes ==
  ASSUME BufferShape
  PROVE  /\ SbSize \in Nat /\ sbCount \in Nat /\ sbCount <= SbSize
         /\ sbIssued \in Nat /\ sbIssued <= sbCount
         /\ sbHead \in 0 .. SbSize - 1 /\ SbSlots = 0 .. SbSize - 1
         /\ \A k \in 0 .. SbSize : SbSlot(k) \in SbSlots
         /\ \A j, k \in 0 .. SbSize - 1 : SbSlot(j) = SbSlot(k) => j = k
         /\ \A j \in SbAges : j \in 0 .. SbSize - 1 /\ SbSlot(j) \in SbSlots
                              /\ SbNth(j) \in SbEntries /\ SbNth(j) = sb[SbSlot(j)]
<1>1. /\ SbSize \in Nat /\ sbCount \in Nat /\ sbCount <= SbSize
      /\ sbIssued \in Nat /\ sbIssued <= sbCount
      /\ sbHead \in 0 .. SbSize - 1 /\ SbSlots = 0 .. SbSize - 1
  BY MemOrderAssumption DEF BufferShape, SbSlots
<1>2. \A k \in 0 .. SbSize : SbSlot(k) \in SbSlots
  BY <1>1, IndexInRange DEF SbSlot
<1>3. \A j, k \in 0 .. SbSize - 1 : SbSlot(j) = SbSlot(k) => j = k
  BY <1>1, IndexInjective DEF SbSlot
<1>4. ASSUME NEW j \in SbAges
      PROVE  j \in 0 .. SbSize - 1 /\ SbSlot(j) \in SbSlots
             /\ SbNth(j) \in SbEntries /\ SbNth(j) = sb[SbSlot(j)]
  <2>1. j \in 0 .. SbSize - 1 /\ j \in 0 .. SbSize
    BY <1>1 DEF SbAges
  <2>2. SbSlot(j) \in SbSlots /\ SbNth(j) = sb[SbSlot(j)]
    BY <1>2, <2>1 DEF SbNth
  <2> QED BY <2>1, <2>2 DEF BufferShape
<1> QED BY <1>1, <1>2, <1>3, <1>4

LEMMA AccessBytes ==
  ASSUME NEW acc \in Accesses
  PROVE  /\ acc # NoAccess /\ acc[1] \in Nat /\ acc[2] \in {1, 2, 4}
         /\ acc = <<acc[1], acc[2]>>
         /\ BytesOf(acc) = acc[1] .. acc[1] + acc[2] - 1
         /\ ~Faulty(acc) => BytesOf(acc) \subseteq Bytes /\ acc[1] \in Bytes
                            /\ acc[1] + acc[2] <= MemBytes
<1>1. /\ acc[1] \in Nat /\ acc[2] \in {1, 2, 4} /\ MemBytes \in Nat
      /\ acc = <<acc[1], acc[2]>>
  BY MemOrderAssumption
<1> QED BY <1>1 DEF NoAccess, BytesOf, Faulty, Bytes

(* Accesses that share a byte overlap.                                     *)
LEMMA SharedByte ==
  ASSUME NEW a \in Accesses, NEW c \in Accesses, NEW b, b \in BytesOf(a), b \in BytesOf(c)
  PROVE  Overlaps(a, c) /\ Overlaps(c, a)
<1>1. a[1] \in Nat /\ a[2] \in {1, 2, 4} /\ c[1] \in Nat /\ c[2] \in {1, 2, 4}
  BY AccessBytes
<1> QED BY <1>1 DEF Overlaps, BytesOf

LEMMA PortTypes ==
  ASSUME PortShape
  PROVE  /\ Len(port) \in Nat /\ Len(port) <= PortCap
         /\ \A i \in 1 .. Len(port) : port[i] \in Requests
BY ElementOfSeq DEF PortShape

(* A response leaves the other requests in their order.                    *)
LEMMA PortRemoved ==
  ASSUME NEW q \in Seq(Requests), NEW i \in 1 .. Len(q), NEW r, r = RemoveAt(q, i)
  PROVE  /\ r \in Seq(Requests) /\ Len(r) = Len(q) - 1
         /\ \A j \in 1 .. Len(r) : r[j] = IF j < i THEN q[j] ELSE q[j + 1]
<1>0. Len(q) \in Nat /\ \A j \in 1 .. Len(q) : q[j] \in Requests
  BY ElementOfSeq
<1> DEFINE a == SubSeq(q, 1, i - 1)
           c == SubSeq(q, i + 1, Len(q))
<1>1. /\ a \in Seq(Requests) /\ Len(a) = i - 1
      /\ \A j \in 1 .. i - 1 : a[j] = q[j]
  <2>1. \A j \in 1 .. i - 1 : q[j] \in Requests
    BY <1>0
  <2>2. /\ a \in Seq(Requests) /\ Len(a) = IF 1 <= i - 1 THEN (i - 1) - 1 + 1 ELSE 0
        /\ \A j \in 1 .. (i - 1) - 1 + 1 : a[j] = q[1 + j - 1]
    BY <2>1, SubSeqProperties
  <2> QED BY <2>2
<1>2. /\ c \in Seq(Requests) /\ Len(c) = Len(q) - i
      /\ \A j \in 1 .. Len(q) - i : c[j] = q[i + j]
  <2>1. \A j \in i + 1 .. Len(q) : q[j] \in Requests
    BY <1>0
  <2>2. /\ c \in Seq(Requests)
        /\ Len(c) = IF i + 1 <= Len(q) THEN Len(q) - (i + 1) + 1 ELSE 0
        /\ \A j \in 1 .. Len(q) - (i + 1) + 1 : c[j] = q[(i + 1) + j - 1]
    BY <1>0, <2>1, SubSeqProperties
  <2> QED BY <1>0, <2>2
<1>3. r = a \o c
  BY DEF RemoveAt
<1> HIDE DEF a, c
<1>4. /\ r \in Seq(Requests) /\ Len(r) = Len(a) + Len(c)
      /\ \A j \in 1 .. Len(a) + Len(c) : r[j] = IF j <= Len(a) THEN a[j] ELSE c[j - Len(a)]
  <2>1. /\ a \o c \in Seq(Requests) /\ Len(a \o c) = Len(a) + Len(c)
        /\ \A j \in 1 .. Len(a) + Len(c) :
             (a \o c)[j] = IF j <= Len(a) THEN a[j] ELSE c[j - Len(a)]
    <3>1. a \in Seq(Requests) /\ c \in Seq(Requests)
      BY <1>1, <1>2
    <3> QED BY <3>1, ConcatProperties, Zenon
  <2> QED BY <1>3, <2>1, Zenon
<1>5. ASSUME NEW j \in 1 .. Len(q) - 1 PROVE r[j] = IF j < i THEN q[j] ELSE q[j + 1]
  <2>1. r[j] = IF j <= i - 1 THEN a[j] ELSE c[j - (i - 1)]
    BY <1>0, <1>1, <1>2, <1>4
  <2>2. CASE j < i
    BY <1>1, <2>1, <2>2
  <2>3. CASE ~(j < i)
    <3>1. j - (i - 1) \in 1 .. Len(q) - i /\ i + (j - (i - 1)) = j + 1
      BY <1>0, <2>3
    <3> QED BY <1>2, <2>1, <2>3, <3>1
  <2> QED BY <2>2, <2>3
<1> QED BY <1>0, <1>1, <1>2, <1>4, <1>5

(* What a request does not say about others stays true of the remaining.   *)
LEMMA PortAfterResponse ==
  ASSUME PortShape, NEW i \in 1 .. Len(port), port' = RemoveAt(port, i)
  PROVE  /\ PortShape' /\ Len(port') = Len(port) - 1
         /\ \A j \in 1 .. Len(port') : \E m \in 1 .. Len(port) : m # i /\ port'[j] = port[m]
         /\ \A m \in 1 .. Len(port) : m # i => \E j \in 1 .. Len(port') : port'[j] = port[m]
         /\ \A j1, j2 \in 1 .. Len(port') : j1 < j2 =>
              \E m1, m2 \in 1 .. Len(port) :
                m1 # i /\ m2 # i /\ m1 < m2 /\ port'[j1] = port[m1] /\ port'[j2] = port[m2]
<1>1. /\ port' \in Seq(Requests) /\ Len(port') = Len(port) - 1
      /\ \A j \in 1 .. Len(port') : port'[j] = IF j < i THEN port[j] ELSE port[j + 1]
  BY PortRemoved DEF PortShape
<1>2. Len(port) \in Nat /\ Len(port) <= PortCap /\ PortCap \in Nat
  BY MemOrderAssumption DEF PortShape
<1> DEFINE old(j) == IF j < i THEN j ELSE j + 1
<1>3. \A j \in 1 .. Len(port') : old(j) \in 1 .. Len(port) /\ old(j) # i /\ port'[j] = port[old(j)]
  BY <1>1, <1>2
<1>4. ASSUME NEW m \in 1 .. Len(port), m # i PROVE \E j \in 1 .. Len(port') : port'[j] = port[m]
  <2>1. PICK j : j = IF m < i THEN m ELSE m - 1
    OBVIOUS
  <2>2. j \in 1 .. Len(port') /\ old(j) = m
    BY <1>1, <1>2, <1>4, <2>1
  <2> QED BY <1>3, <2>2
<1>5. \A j1, j2 \in 1 .. Len(port') : j1 < j2 => old(j1) < old(j2)
  BY <1>1, <1>2
<1>6. PortShape'
  BY <1>1, <1>2 DEF PortShape
<1> HIDE DEF old
<1>7. \A j1, j2 \in 1 .. Len(port') : j1 < j2 =>
              \E m1, m2 \in 1 .. Len(port) :
                m1 # i /\ m2 # i /\ m1 < m2 /\ port'[j1] = port[m1] /\ port'[j2] = port[m2]
  BY <1>3, <1>5
<1> QED BY <1>1, <1>3, <1>4, <1>6, <1>7
-----------------------------------------------------------------------------
(* What the walk over the candidates does to the queue *)

LEMMA AgesRange ==
  ASSUME QueueShape
  PROVE  Ages = 0 .. lsqCount - 1 /\ lsqCount \in Nat
BY QueueTypes DEF Ages

(* A live entry with an address has one that programs use.                 *)
LEMMA AddressTypes ==
  ASSUME QueueShape, NEW k \in Ages, AddrValid(k)
  PROVE  Nth(k).acc \in Accesses
<1>1. Nth(k) \in LsqEntries
  BY QueueTypes
<1>2. Nth(k).acc \in Accesses \cup {NoAccess}
  BY <1>1 DEF LsqEntries
<1> QED BY <1>2 DEF AddrValid

LEMMA NewestIs ==
  ASSUME NEW n \in Nat, NEW S, S \subseteq 0 .. n, S # {}
  PROVE  Newest(S) \in S /\ \A x \in S : x <= Newest(S)
<1>1. \E m \in S : \A x \in S : x <= m
  BY MaxExists
<1> QED BY <1>1 DEF Newest

(* A forwarded value is the one program order gives the load: its supplier *)
(* is the nearest older store to each of its bytes.                        *)
LEMMA ForwardedValue ==
  ASSUME QueueShape, BufferShape, MemShape, BufferRight, MemoryRight,
         NEW k \in Candidates, HasSupplier(k), Supplier(k).acc = Nth(k).acc,
         ~Fault(k), NEW v, v = Ids(Supplier(k).acc, Supplier(k).id)
  PROVE  OrderedValue(k, v)
<1>1. k \in Ages /\ AddrValid(k)
  BY DEF Candidates
<1>2. Nth(k).acc \in Accesses /\ ~Faulty(Nth(k).acc) /\ BytesOf(Nth(k).acc) \subseteq Bytes
  BY <1>1, AddressTypes, AccessBytes DEF Fault
<1>3. v = [b \in BytesOf(Nth(k).acc) |-> Supplier(k).id]
  BY DEF Ids
<1>4. Ages = 0 .. lsqCount - 1 /\ lsqCount \in Nat /\ k \in Nat
  BY <1>1, AgesRange
<1>5. \A j \in 0 .. k - 1, b \in BytesOf(Nth(k).acc) : Writes(j, b) => j \in OlderStores(k)
  <2> TAKE j \in 0 .. k - 1, b \in BytesOf(Nth(k).acc)
  <2> HAVE Writes(j, b)
  <2>1. j \in KnownStores /\ b \in BytesOf(Nth(j).acc) /\ j \in Ages /\ AddrValid(j)
    BY DEF Writes, KnownStores
  <2>2. Nth(j).acc \in Accesses
    BY <2>1, AddressTypes
  <2>3. Overlaps(Nth(j).acc, Nth(k).acc)
    BY <1>2, <2>1, <2>2, SharedByte
  <2> QED BY <1>4, <2>1, <2>3 DEF OlderStores
<1>6. CASE OlderStores(k) # {}
  <2>1. PICK m : m = Newest(OlderStores(k))
    OBVIOUS
  <2>2. OlderStores(k) \subseteq 0 .. lsqCount
    BY <1>4 DEF OlderStores, KnownStores
  <2>3. m \in OlderStores(k) /\ \A x \in OlderStores(k) : x <= m
    BY <1>4, <1>6, <2>1, <2>2, NewestIs
  <2>4. m \in KnownStores /\ m \in Ages /\ m < k /\ m \in 0 .. k - 1
    BY <1>4, <2>3 DEF OlderStores, KnownStores
  <2>5. Supplier(k).acc = Nth(m).acc /\ Supplier(k).id = Nth(m).id
    BY <1>6, <2>1 DEF Supplier
  <2>6. Nth(m).id \in OpIds
    BY <2>4, QueueTypes DEF LsqEntries
  <2>7. \A b \in BytesOf(Nth(k).acc) : Writes(m, b)
    BY <2>4, <2>5 DEF Writes
  <2>8. ASSUME NEW b \in BytesOf(Nth(k).acc), NEW n \in 0 .. k - 1, Writes(n, b),
               \A j \in n + 1 .. k - 1 : ~Writes(j, b)
        PROVE  n = m
    <3>1. n <= m
      BY <1>5, <2>3, <2>8
    <3>2. ~(m \in n + 1 .. k - 1)
      BY <2>7, <2>8
    <3> QED BY <1>4, <2>4, <3>1, <3>2
  <2> QED BY <1>3, <2>4, <2>5, <2>6, <2>7, <2>8 DEF OrderedValue
<1>7. CASE OlderStores(k) = {}
  <2>1. Buffered(k) # {}
    BY <1>7 DEF HasSupplier
  <2>2. PICK m : m = Newest(Buffered(k))
    OBVIOUS
  <2>3. SbAges = 0 .. sbCount - 1 /\ sbCount \in Nat
    BY BufferTypes DEF SbAges
  <2>4. Buffered(k) \subseteq 0 .. sbCount
    BY <2>3 DEF Buffered
  <2>5. m \in Buffered(k) /\ \A x \in Buffered(k) : x <= m
    BY <2>1, <2>2, <2>3, <2>4, NewestIs
  <2>6. m \in SbAges
    BY <2>5 DEF Buffered
  <2>7. Supplier(k).acc = SbNth(m).acc /\ Supplier(k).id = SbNth(m).id
    BY <1>7, <2>2 DEF Supplier
  <2>8. SbNth(m).id \in OpIds
    BY <2>6, BufferTypes DEF SbEntries
  <2>9. ASSUME NEW b \in BytesOf(Nth(k).acc) PROVE arch[b] = SbNth(m).id
    <3>1. m \in Writers(b)
      BY <2>6, <2>7 DEF Writers
    <3>2. ASSUME NEW i \in Writers(b) PROVE i \in Buffered(k)
      <4>1. i \in SbAges /\ b \in BytesOf(SbNth(i).acc) /\ SbNth(i).acc \in Accesses
        BY DEF Writers, BufferRight
      <4>2. Overlaps(SbNth(i).acc, Nth(k).acc)
        BY <1>2, <4>1, SharedByte
      <4> QED BY <4>1, <4>2 DEF Buffered
    <3> QED BY <1>2, <2>5, <3>1, <3>2 DEF MemoryRight, ByteRight
  <2>10. \A j \in 0 .. k - 1, b \in BytesOf(Nth(k).acc) : ~Writes(j, b)
    BY <1>5, <1>7
  <2> QED BY <1>3, <2>7, <2>8, <2>9, <2>10 DEF OrderedValue
<1> QED BY <1>6, <1>7

(* An entry after the walk: as it was, a faulting load that is done, or a  *)
(* load that took a store's datum.                                         *)
WalkedTo(k, flagged, x) ==
  \/ x = lsq[Slot(k)]
  \/ /\ k \in Visited(flagged) /\ Fault(k)
     /\ x = [lsq[Slot(k)] EXCEPT !.done = TRUE]
  \/ /\ k \in Visited(flagged) /\ Forwards(k, flagged)
     /\ x = [lsq[Slot(k)] EXCEPT
               !.done = TRUE, !.val = Ids(Supplier(k).acc, Supplier(k).id)]

LEMMA WalkIs ==
  ASSUME QueueShape, BufferShape, MemShape, BufferRight, MemoryRight,
         NEW flagged, NEW c, c = Completed(flagged)
  PROVE  /\ c \in [LsqSlots -> LsqEntries]
         /\ \A s \in LsqSlots : (\A k \in Ages : s # Slot(k)) => c[s] = lsq[s]
         /\ \A k \in Ages : WalkedTo(k, flagged, c[Slot(k)])
<1>1. \A k \in Visited(flagged) : k \in Ages /\ k \in Candidates
  BY DEF Visited, Candidates
<1>2. \A j, k \in Ages : Slot(j) = Slot(k) => j = k
  BY QueueTypes
<1>3. \A s \in LsqSlots : (\A k \in Ages : s # Slot(k)) => c[s] = lsq[s]
  BY <1>1 DEF Completed
<1>4. ASSUME NEW k \in Ages
      PROVE  WalkedTo(k, flagged, c[Slot(k)])
  <2>0. Slot(k) \in LsqSlots
    BY QueueTypes
  <2>1. CASE k \notin Visited(flagged)
    <3>1. \A j \in Visited(flagged) : Slot(k) # Slot(j)
      BY <1>1, <1>2, <2>1
    <3> QED BY <2>0, <3>1 DEF Completed, WalkedTo
  <2>2. CASE k \in Visited(flagged) /\ Fault(k)
    BY <2>0, <2>2 DEF Completed, WalkedTo
  <2>3. CASE k \in Visited(flagged) /\ ~Fault(k) /\ Forwards(k, flagged)
    <3>1. \A j \in Visited(flagged) : Slot(k) = Slot(j) <=> j = k
      BY <1>1, <1>2, <2>3
    <3>2. (CHOOSE j \in Visited(flagged) : Slot(k) = Slot(j)) = k
      BY <2>3, <3>1
    <3> QED BY <2>0, <2>3, <3>1, <3>2 DEF Completed, WalkedTo
  <2>4. CASE k \in Visited(flagged) /\ ~Fault(k) /\ ~Forwards(k, flagged)
    <3>1. \A j \in Visited(flagged) : Slot(k) = Slot(j) <=> j = k
      BY <1>1, <1>2, <2>4
    <3> QED BY <2>0, <2>4, <3>1 DEF Completed, WalkedTo
  <2> QED BY <2>1, <2>2, <2>3, <2>4
<1>5. ASSUME NEW s \in LsqSlots PROVE c[s] \in LsqEntries
  <2>1. lsq[s] \in LsqEntries
    BY DEF QueueShape
  <2>2. CASE \A k \in Ages : s # Slot(k)
    BY <1>3, <2>1, <2>2
  <2>3. CASE \E k \in Ages : s = Slot(k)
    <3>1. PICK k \in Ages : s = Slot(k)
      BY <2>3
    <3>2. CASE c[s] = lsq[s]
      BY <2>1, <3>2
    <3>3. CASE c[s] = [lsq[s] EXCEPT !.done = TRUE]
      BY <2>1, <3>3 DEF LsqEntries
    <3>4. CASE /\ k \in Visited(flagged) /\ Forwards(k, flagged)
               /\ c[s] = [lsq[s] EXCEPT
                            !.done = TRUE, !.val = Ids(Supplier(k).acc, Supplier(k).id)]
      <4>1. PICK v : v = Ids(Supplier(k).acc, Supplier(k).id)
        OBVIOUS
      <4>2. k \in Candidates /\ ~Fault(k) /\ HasSupplier(k) /\ Supplier(k).acc = Nth(k).acc
        BY <1>1, <3>4 DEF Forwards, Searches
      <4>3. v \in [BytesOf(Nth(k).acc) -> OpIds]
        BY <4>1, <4>2, ForwardedValue DEF OrderedValue
      <4>4. Nth(k).acc \in Accesses
        BY <4>2, AddressTypes DEF Candidates
      <4>5. v \in Vals
        BY <4>3, <4>4 DEF Vals
      <4> QED BY <2>1, <3>4, <4>1, <4>5 DEF LsqEntries
    <3> QED BY <1>4, <3>1, <3>2, <3>3, <3>4 DEF WalkedTo
  <2> QED BY <2>2, <2>3
<1>6. c \in [LsqSlots -> LsqEntries]
  BY <1>5 DEF Completed
<1> QED BY <1>3, <1>4, <1>6
-----------------------------------------------------------------------------
(* What a step leaves alone *)

(* A step of the queue that touches neither the store buffer nor the port. *)
LEMMA EngineStill ==
  ASSUME BufferShape, PortShape, MemShape, BufferRight, StoresInPort, MemoryRight,
         UNCHANGED <<sbVars, port, mem, arch>>
  PROVE  /\ BufferShape' /\ PortShape' /\ MemShape' /\ BufferRight' /\ StoresInPort'
         /\ MemoryRight'
         /\ StoreRequests' = StoreRequests /\ LoadRequests' = LoadRequests
         /\ \A b : Writers(b)' = Writers(b)
<1>1. UNCHANGED <<sb, sbHead, sbCount, sbIssued, sbTxnCtr, port, mem, arch>>
  BY DEF sbVars
<1>2. SbAges' = SbAges /\ \A j : SbSlot(j)' = SbSlot(j) /\ SbNth(j)' = SbNth(j)
  BY <1>1 DEF SbAges, SbSlot, SbNth
<1>3. StoreRequests' = StoreRequests /\ LoadRequests' = LoadRequests
  BY <1>1 DEF StoreRequests, LoadRequests
<1>4. \A b : Writers(b)' = Writers(b)
  BY <1>2 DEF Writers
<1>5. \A j : Performed(j)' <=> Performed(j)
  BY <1>1, <1>2, <1>3 DEF Performed
<1>6. \A i, j : StoreAsks(i, j)' <=> StoreAsks(i, j)
  BY <1>1, <1>2 DEF StoreAsks
<1>7. BufferShape' /\ PortShape' /\ MemShape'
  BY <1>1 DEF BufferShape, PortShape, MemShape
<1>8. BufferRight'
  BY <1>1, <1>2 DEF BufferRight
<1>9. StoresInPort'
  BY <1>1, <1>2, <1>3, <1>6 DEF StoresInPort
<1>10. MemoryRight'
  BY <1>1, <1>2, <1>4, <1>5 DEF MemoryRight, ByteRight
<1> QED BY <1>3, <1>4, <1>7, <1>8, <1>9, <1>10

LEMMA QueueStill ==
  ASSUME QueueShape, EntriesRight, UNCHANGED <<lsqVars, ops, mode>>
  PROVE  /\ QueueShape' /\ EntriesRight' /\ Ages' = Ages
         /\ \A k : Slot(k)' = Slot(k) /\ Nth(k)' = Nth(k)
         /\ AccessedLoads' = AccessedLoads /\ Pending' = Pending
         /\ UnknownStores' = UnknownStores /\ KnownStores' = KnownStores
         /\ (NeverPassesUnknownStore => NeverPassesUnknownStore')
<1>1. UNCHANGED <<lsq, lsqHead, lsqCount, genCtr, ops, mode>>
  BY DEF lsqVars
<1>2. Ages' = Ages /\ \A k : Slot(k)' = Slot(k) /\ Nth(k)' = Nth(k)
  BY <1>1 DEF Ages, Slot, Nth
<1>3. \A k : (AddrValid(k)' <=> AddrValid(k)) /\ (Fault(k)' <=> Fault(k))
  BY <1>2 DEF AddrValid, Fault
<1>4. /\ AccessedLoads' = AccessedLoads /\ Pending' = Pending
      /\ UnknownStores' = UnknownStores /\ KnownStores' = KnownStores
  BY <1>2, <1>3 DEF AccessedLoads, Pending, UnknownStores, KnownStores
<1>5. QueueShape'
  BY <1>1 DEF QueueShape
<1>6. \A s : EntryRight(s)' <=> EntryRight(s)
  BY <1>1 DEF EntryRight
<1>7. LsqSlots' = LsqSlots
  BY DEF LsqSlots
<1>8. EntriesRight'
  BY <1>2, <1>6, <1>7 DEF EntriesRight
<1>9. NeverPassesUnknownStore => NeverPassesUnknownStore'
  BY <1>1, <1>3, <1>4 DEF NeverPassesUnknownStore
<1> QED BY <1>2, <1>4, <1>5, <1>8, <1>9

(* The load requests in the port, when entries that are issued stay so.    *)
LEMMA RequestsCarry ==
  ASSUME LoadsInPort, UNCHANGED <<genCtr, port>>,
         \A s \in LsqSlots : lsq[s].issued =>
           lsq'[s].issued /\ lsq'[s].id = lsq[s].id /\ lsq'[s].acc = lsq[s].acc
  PROVE  LoadRequests' = LoadRequests /\ \A i \in LoadRequests' : LoadRequestRight(i)'
<1>1. LoadRequests' = LoadRequests
  BY DEF LoadRequests
<1>2. ASSUME NEW i \in LoadRequests PROVE LoadRequestRight(i)'
  <2>1. LoadRequestRight(i)
    BY DEF LoadsInPort
  <2> QED BY <2>1 DEF LoadRequestRight
<1> QED BY <1>1, <1>2

(* Load k keeps the value of program order when neither its entry nor the  *)
(* stores before it change, and no new request or buffered store concerns  *)
(* it.                                                                     *)
LEMMA LoadCarries ==
  ASSUME QueueShape, QueueShape', LoadsRight, NEW k \in Ages, k \in Ages',
         Slot(k)' = Slot(k),
         \A j \in 0 .. k : Nth(j)'.isStore = Nth(j).isStore /\ Nth(j)'.acc = Nth(j).acc
                           /\ Nth(j)'.id = Nth(j).id,
         Nth(k)'.issued = Nth(k).issued, Nth(k)'.done = Nth(k).done,
         Nth(k)'.val = Nth(k).val, Nth(k)'.gen = Nth(k).gen,
         arch' = arch,
         \A b : Writers(b) = {} => Writers(b)' = {},
         \A i \in LoadRequests' : port'[i].performed => \E m \in LoadRequests : port[m] = port'[i]
  PROVE  k \in AccessedLoads' /\ ~Fault(k)' /\ Clean(k)' => LoadRight(k)'
<1> SUFFICES ASSUME k \in AccessedLoads', ~Fault(k)', Clean(k)' PROVE LoadRight(k)'
  OBVIOUS
<1>1. /\ k \in Nat /\ k \in 0 .. k
      /\ \A j \in 0 .. k : j \in Ages /\ j \in Ages'
  BY AgesRange DEF Ages, QueueShape
<1>2. \A j \in 0 .. k : /\ AddrValid(j)' <=> AddrValid(j)
                        /\ Fault(j)' <=> Fault(j)
                        /\ j \in KnownStores' <=> j \in KnownStores
  BY <1>1 DEF AddrValid, Fault, KnownStores
<1>3. \A b : \A j \in 0 .. k : Writes(j, b)' <=> Writes(j, b)
  BY <1>2 DEF Writes
<1>4. k \in AccessedLoads /\ ~Fault(k)
  BY <1>1, <1>2 DEF AccessedLoads
<1>5. Clean(k)
  <2> SUFFICES ASSUME NEW j \in KnownStores, j < k PROVE ~Fault(j)
    BY DEF Clean
  <2>1. j \in 0 .. k
    BY <1>1, AgesRange DEF KnownStores
  <2> QED BY <1>2, <2>1 DEF Clean
<1>6. LoadRight(k)
  BY <1>4, <1>5 DEF LoadsRight
<1>7. \A i \in LoadRequests' : LoadAsks(i, k)' /\ port'[i].performed =>
        \E m \in LoadRequests : LoadAsks(m, k) /\ port[m] = port'[i]
  BY DEF LoadAsks
<1>8. \A j \in 0 .. k - 1 : j \in 0 .. k
  BY <1>1
<1>9. \A m \in 0 .. k - 1 : \A j \in m + 1 .. k - 1 : j \in 0 .. k
  BY <1>1
<1>10. Nth(k)'.acc = Nth(k).acc
  BY <1>1
<1>11. Nth(k)'.issued => \A j \in 0 .. k - 1 : \A b \in BytesOf(Nth(k)'.acc) : ~Writes(j, b)'
  BY <1>3, <1>6, <1>8, <1>10 DEF LoadRight
<1>12. Nth(k)'.done => ValueRight(k)'
  <2> SUFFICES ASSUME Nth(k).done PROVE ValueRight(k)'
    OBVIOUS
  <2>1. ValueRight(k)
    BY <1>6 DEF LoadRight
  <2>2. Nth(k)'.val \in [BytesOf(Nth(k)'.acc) -> OpIds]
    BY <1>10, <2>1 DEF ValueRight, OrderedValue
  <2>3. ASSUME NEW b \in BytesOf(Nth(k).acc), \A j \in 0 .. k - 1 : ~Writes(j, b)'
        PROVE  Nth(k)'.val[b] = arch'[b]
    BY <1>3, <1>8, <2>1, <2>3 DEF ValueRight, OrderedValue
  <2>4. ASSUME NEW b \in BytesOf(Nth(k).acc), NEW m \in 0 .. k - 1, Writes(m, b)',
               \A j \in m + 1 .. k - 1 : ~Writes(j, b)'
        PROVE  Nth(k)'.val[b] = Nth(m)'.id
    <3>1. Writes(m, b) /\ \A j \in m + 1 .. k - 1 : ~Writes(j, b)
      BY <1>3, <1>8, <1>9, <2>4
    <3> QED BY <1>8, <2>1, <3>1 DEF ValueRight, OrderedValue
  <2> QED BY <1>10, <2>2, <2>3, <2>4 DEF ValueRight, OrderedValue
<1>13. ~Nth(k)'.done =>
         /\ \A b \in BytesOf(Nth(k)'.acc) : Writers(b)' = {}
         /\ \A i \in LoadRequests' : LoadAsks(i, k)' /\ port'[i].performed =>
              port'[i].val = [b \in BytesOf(Nth(k)'.acc) |-> arch'[b]]
  BY <1>6, <1>7, <1>10 DEF LoadRight
<1> QED BY <1>11, <1>12, <1>13 DEF LoadRight
-----------------------------------------------------------------------------
(* Dispatch, squash and the steps that only touch flags *)

LEMMA DispatchKeeps ==
  ASSUME MemInv, MaxOps < GenMod, NEW isStore \in BOOLEAN, NEW ready \in BOOLEAN,
         Dispatch(isStore, ready)
  PROVE  MemInv'
<1> USE DEF MemInv
<1>0. PICK new, n, g, q :
        /\ n = lsqCount /\ new = Slot(n) /\ g = (genCtr[new] + 1) % GenMod
        /\ q = [NoLsqEntry EXCEPT !.isStore = isStore, !.id = ops + 1, !.gen = g,
                                  !.dataReady = ready]
  OBVIOUS
<1>1. /\ ops < MaxOps /\ lsqCount < LsqSize
      /\ genCtr' = [genCtr EXCEPT ![new] = g] /\ lsq' = [lsq EXCEPT ![new] = q]
      /\ lsqCount' = lsqCount + 1 /\ ops' = ops + 1 /\ lsqHead' = lsqHead /\ mode' = mode
      /\ UNCHANGED <<sbVars, port, mem, arch>>
  BY <1>0 DEF Dispatch, archVars
<1>2. /\ LsqSize \in Nat /\ n \in Nat /\ n \in 0 .. LsqSize - 1
      /\ new \in LsqSlots /\ Ages = 0 .. n - 1 /\ Ages' = 0 .. n
  <2>1. LsqSize \in Nat /\ n \in Nat /\ n \in 0 .. LsqSize - 1
    BY <1>0, <1>1, QueueTypes
  <2>2. new \in LsqSlots
    BY <1>0, <2>1, QueueTypes
  <2>3. lsqCount' - 1 = n
    BY <1>0, <1>1, <2>1
  <2> QED BY <1>0, <2>1, <2>2, <2>3 DEF Ages
<1>3. g = genCtr[new] + 1 /\ g \in 0 .. GenMod - 1 /\ g <= ops + 1 /\ ops + 1 \in 1 .. MaxOps
  <2>1. genCtr[new] \in Nat /\ genCtr[new] <= ops
    BY <1>2, MemOrderAssumption DEF EntriesRight, EntryRight, QueueShape
  <2>2. ops \in Nat /\ MaxOps \in Nat /\ GenMod \in Nat
    BY MemOrderAssumption DEF QueueShape, OpIds
  <2> QED BY <1>0, <1>1, <2>1, <2>2
<1>4. /\ q = [isStore |-> isStore, id |-> ops + 1, gen |-> g, acc |-> NoAccess,
              dataReady |-> ready, issued |-> FALSE, done |-> FALSE,
              reported |-> FALSE, val |-> <<>>]
  BY <1>0 DEF NoLsqEntry
<1>5. q \in LsqEntries
  <2>1. ops + 1 \in OpIds /\ NoAccess \in Accesses \cup {NoAccess} /\ <<>> \in Vals
    BY <1>3 DEF OpIds, Vals
  <2> QED BY <1>3, <1>4, <2>1 DEF LsqEntries
<1>6. /\ lsq' \in [LsqSlots -> LsqEntries] /\ lsq'[new] = q
      /\ genCtr' \in [LsqSlots -> 0 .. GenMod - 1] /\ genCtr'[new] = g
      /\ \A s \in LsqSlots : s # new => lsq'[s] = lsq[s] /\ genCtr'[s] = genCtr[s]
  BY <1>1, <1>2, <1>3, <1>5 DEF QueueShape
<1>7. QueueShape'
  BY <1>1, <1>2, <1>3, <1>6 DEF QueueShape, OpIds, LsqSlots
<1>8. /\ BufferShape' /\ PortShape' /\ MemShape' /\ BufferRight' /\ StoresInPort' /\ MemoryRight'
      /\ LoadRequests' = LoadRequests /\ \A b : Writers(b)' = Writers(b)
  BY <1>1, EngineStill
<1>9. /\ \A k \in Ages' : Slot(k)' = Slot(k)
      /\ \A k \in Ages : Slot(k) \in LsqSlots /\ Slot(k) # new /\ Nth(k)' = Nth(k)
      /\ Nth(n)' = q
  <2>1. \A k : Slot(k)' = Slot(k)
    BY <1>1 DEF Slot
  <2>2. \A k \in Ages : Slot(k) \in LsqSlots /\ Slot(k) # new
    BY <1>0, <1>2, QueueTypes
  <2>3. \A k \in Ages : Nth(k)' = Nth(k)
    BY <1>6, <2>1, <2>2 DEF Nth
  <2>4. Nth(n)' = q
    BY <1>0, <1>6, <2>1 DEF Nth
  <2> QED BY <2>1, <2>2, <2>3, <2>4
<1>10. EntriesRight'
  <2>1. ASSUME NEW s \in LsqSlots PROVE EntryRight(s)'
    <3>1. CASE s = new
      BY <1>1, <1>3, <1>4, <1>6, <3>1 DEF EntryRight
    <3>2. CASE s # new
      <4>1. EntryRight(s) /\ lsq'[s] = lsq[s] /\ genCtr'[s] = genCtr[s]
        BY <1>6, <3>2 DEF EntriesRight
      <4>2. genCtr[s] \in Int /\ ops \in Int
        BY MemOrderAssumption DEF QueueShape, OpIds
      <4> QED BY <1>1, <4>1, <4>2 DEF EntryRight
    <3> QED BY <3>1, <3>2
  <2>2. ASSUME NEW k \in Ages' PROVE Nth(k)'.id \in 1 .. MaxOps
    <3>1. CASE k = n
      BY <1>3, <1>4, <1>9, <3>1
    <3>2. CASE k # n
      <4>1. k \in Ages
        BY <1>2, <3>2
      <4> QED BY <1>9, <4>1 DEF EntriesRight
    <3> QED BY <3>1, <3>2
  <2>3. LsqSlots' = LsqSlots
    BY DEF LsqSlots
  <2> QED BY <2>1, <2>2, <2>3 DEF EntriesRight
<1>11. /\ \A k \in Ages' : k = n \/ k \in Ages
       /\ \A k \in Pending' : k \in Pending
       /\ \A k \in AccessedLoads' : k \in AccessedLoads
       /\ \A k \in UnknownStores' : k = n \/ k \in UnknownStores
  <2>1. \A k \in Ages' : k = n \/ k \in Ages
    BY <1>2
  <2>2. ~q.issued /\ ~q.done
    BY <1>4
  <2>3. \A k \in Pending' : k \in Pending
    BY <1>9, <2>1, <2>2 DEF Pending
  <2>4. \A k \in AccessedLoads' : k \in AccessedLoads
    BY <1>9, <2>1, <2>2 DEF AccessedLoads
  <2>5. \A k \in UnknownStores' : k = n \/ k \in UnknownStores
    BY <1>9, <2>1 DEF UnknownStores, AddrValid
  <2> QED BY <2>1, <2>3, <2>4, <2>5
<1>12. LoadsInPort'
  <2>1. ASSUME NEW i \in LoadRequests PROVE LoadRequestRight(i)'
    <3>0. LoadRequestRight(i) /\ port' = port
      BY <1>1 DEF LoadsInPort
    <3>1. CASE port[i].slot = new
      <4>1. port[i].tag \in Int /\ genCtr[new] \in Int
        BY <1>2, PortTypes DEF LoadRequests, Requests, QueueShape
      <4>2. port[i].tag < g
        BY <1>3, <3>0, <3>1, <4>1 DEF LoadRequestRight
      <4> QED BY <1>3, <1>6, <3>0, <3>1, <4>1, <4>2 DEF LoadRequestRight, LsqSlots
    <3>2. CASE port[i].slot # new
      BY <1>6, <3>0, <3>2 DEF LoadRequestRight, LsqSlots
    <3> QED BY <3>1, <3>2
  <2>2. ASSUME NEW k \in Pending' PROVE \E i \in LoadRequests : LoadAsks(i, k)'
    <3>1. k \in Pending /\ k \in Ages /\ port' = port
      BY <1>1, <1>11 DEF Pending
    <3>2. PICK i \in LoadRequests : LoadAsks(i, k)
      BY <3>1 DEF LoadsInPort
    <3>3. Slot(k)' = Slot(k) /\ Nth(k)' = Nth(k)
      BY <1>2, <1>9, <3>1
    <3> QED BY <3>1, <3>2, <3>3 DEF LoadAsks
  <2> QED BY <1>8, <2>1, <2>2 DEF LoadsInPort
<1>13. NeverPassesUnknownStore'
  <2> SUFFICES ASSUME mode' # "Speculative", NEW k \in AccessedLoads', NEW j \in UnknownStores'
               PROVE  Fault(k)' \/ j > k
    BY DEF NeverPassesUnknownStore
  <2>1. k \in AccessedLoads /\ k \in Ages /\ mode # "Speculative"
    BY <1>1, <1>11 DEF AccessedLoads
  <2>2. Fault(k)' <=> Fault(k)
    BY <1>9, <2>1 DEF Fault, AddrValid
  <2>3. j \in UnknownStores \/ j > k
    BY <1>2, <1>11, <2>1
  <2> QED BY <2>1, <2>2, <2>3 DEF NeverPassesUnknownStore
<1>14. LoadsRight'
  <2> SUFFICES ASSUME NEW k \in AccessedLoads'
               PROVE  ~Fault(k)' /\ Clean(k)' => LoadRight(k)'
    BY DEF LoadsRight
  <2>1. k \in AccessedLoads /\ k \in Ages /\ k \in Ages'
    BY <1>11 DEF AccessedLoads
  <2>2. \A j \in 0 .. k : j \in Ages
    BY <1>2, <2>1
  <2>3. \A i \in LoadRequests' : port'[i].performed => \E m \in LoadRequests : port[m] = port'[i]
    BY <1>1, <1>8
  <2>4. Slot(k)' = Slot(k) /\ Nth(k)' = Nth(k)
    BY <1>9, <2>1
  <2>5. \A j \in 0 .. k : Nth(j)'.isStore = Nth(j).isStore /\ Nth(j)'.acc = Nth(j).acc
                          /\ Nth(j)'.id = Nth(j).id
    BY <1>9, <2>2
  <2> QED BY <1>1, <1>7, <1>8, <2>1, <2>3, <2>4, <2>5, LoadCarries
<1> QED BY <1>7, <1>8, <1>10, <1>12, <1>13, <1>14

LEMMA FewerAges ==
  ASSUME QueueShape, QueueShape', lsqCount' <= lsqCount
  PROVE  \A k \in Ages' : k \in Ages /\ \A j \in 0 .. k : j \in Ages'
<1>1. lsqCount \in Nat /\ lsqCount' \in Nat
  BY MemOrderAssumption DEF QueueShape
<1>2. PICK m, n : m = lsqCount /\ n = lsqCount'
  OBVIOUS
<1>3. Ages = 0 .. m - 1 /\ Ages' = 0 .. n - 1
  BY <1>2 DEF Ages
<1>4. m \in Nat /\ n \in Nat /\ n <= m
  BY <1>1, <1>2
<1> QED BY <1>3, <1>4

(* A step that keeps the identity, address and progress of every entry.    *)
LEMMA QueueCarries ==
  ASSUME MemInv, QueueShape', UNCHANGED <<lsqHead, genCtr, ops, mode>>,
         UNCHANGED <<sbVars, port, mem, arch>>, lsqCount' <= lsqCount,
         \A s \in LsqSlots :
           /\ lsq'[s].isStore = lsq[s].isStore /\ lsq'[s].id = lsq[s].id
           /\ lsq'[s].gen = lsq[s].gen /\ lsq'[s].acc = lsq[s].acc
           /\ lsq'[s].issued = lsq[s].issued /\ lsq'[s].done = lsq[s].done
           /\ lsq'[s].val = lsq[s].val
           /\ lsq'[s].reported => lsq[s].done
  PROVE  MemInv'
<1> USE DEF MemInv
<1>1. /\ BufferShape' /\ PortShape' /\ MemShape' /\ BufferRight' /\ StoresInPort' /\ MemoryRight'
      /\ \A b : Writers(b)' = Writers(b)
  BY EngineStill
<1>2. \A k \in Ages' : k \in Ages /\ Slot(k) \in LsqSlots /\ Slot(k)' = Slot(k)
  <2>1. \A k \in Ages' : k \in Ages
    BY FewerAges
  <2>2. \A k \in Ages : Slot(k) \in LsqSlots
    BY QueueTypes
  <2>3. \A k : Slot(k)' = Slot(k)
    BY DEF Slot
  <2> QED BY <2>1, <2>2, <2>3
<1>3. \A k \in Ages' :
        /\ Nth(k)'.isStore = Nth(k).isStore /\ Nth(k)'.id = Nth(k).id
        /\ Nth(k)'.gen = Nth(k).gen /\ Nth(k)'.acc = Nth(k).acc
        /\ Nth(k)'.issued = Nth(k).issued /\ Nth(k)'.done = Nth(k).done
        /\ Nth(k)'.val = Nth(k).val
  BY <1>2 DEF Nth
<1>4. EntriesRight'
  <2>1. \A s \in LsqSlots : EntryRight(s)'
    BY DEF EntriesRight, EntryRight
  <2>2. \A k \in Ages' : Nth(k)'.id \in 1 .. MaxOps
    BY <1>2, <1>3 DEF EntriesRight
  <2>3. LsqSlots' = LsqSlots
    BY DEF LsqSlots
  <2> QED BY <2>1, <2>2, <2>3 DEF EntriesRight
<1>5. /\ \A k \in Pending' : k \in Pending
      /\ \A k \in AccessedLoads' : k \in AccessedLoads
      /\ \A k \in UnknownStores' : k \in UnknownStores
  BY <1>2, <1>3 DEF Pending, AccessedLoads, UnknownStores, AddrValid
<1>6. LoadsInPort'
  <2>1. LoadRequests' = LoadRequests /\ \A i \in LoadRequests' : LoadRequestRight(i)'
    BY RequestsCarry
  <2>2. ASSUME NEW k \in Pending' PROVE \E i \in LoadRequests : LoadAsks(i, k)'
    <3>1. PICK i \in LoadRequests : LoadAsks(i, k)
      BY <1>5 DEF LoadsInPort
    <3>2. k \in Ages'
      BY DEF Pending
    <3> QED BY <1>2, <1>3, <3>1, <3>2 DEF LoadAsks
  <2> QED BY <2>1, <2>2 DEF LoadsInPort
<1>7. NeverPassesUnknownStore'
  <2> SUFFICES ASSUME mode' # "Speculative", NEW k \in AccessedLoads', NEW j \in UnknownStores'
               PROVE  Fault(k)' \/ j > k
    BY DEF NeverPassesUnknownStore
  <2>1. k \in Ages'
    BY DEF AccessedLoads
  <2>2. Fault(k)' <=> Fault(k)
    BY <1>3, <2>1 DEF Fault, AddrValid
  <2> QED BY <1>5, <2>2 DEF NeverPassesUnknownStore
<1>8. LoadsRight'
  <2> SUFFICES ASSUME NEW k \in AccessedLoads'
               PROVE  ~Fault(k)' /\ Clean(k)' => LoadRight(k)'
    BY DEF LoadsRight
  <2>1. k \in Ages /\ k \in Ages' /\ Slot(k)' = Slot(k)
    BY <1>2 DEF AccessedLoads
  <2>2. \A j \in 0 .. k : j \in Ages'
    BY <2>1, FewerAges
  <2>3. \A i \in LoadRequests' : port'[i].performed => \E m \in LoadRequests : port[m] = port'[i]
    BY DEF LoadRequests
  <2>4. \A j \in 0 .. k : Nth(j)'.isStore = Nth(j).isStore /\ Nth(j)'.acc = Nth(j).acc
                          /\ Nth(j)'.id = Nth(j).id
    BY <1>3, <2>2
  <2>5. /\ Nth(k)'.issued = Nth(k).issued /\ Nth(k)'.done = Nth(k).done
        /\ Nth(k)'.val = Nth(k).val /\ Nth(k)'.gen = Nth(k).gen
    BY <1>3, <2>1
  <2> QED BY <1>1, <2>1, <2>3, <2>4, <2>5, LoadCarries
<1> QED BY <1>1, <1>4, <1>6, <1>7, <1>8

LEMMA SquashKeeps ==
  ASSUME MemInv, NEW k \in Ages, Squash(k)
  PROVE  MemInv'
<1>1. k \in 0 .. lsqCount - 1 /\ lsqCount \in 0 .. LsqSize /\ LsqSize \in Nat
  BY AgesRange, MemOrderAssumption DEF MemInv, QueueShape
<1>2. /\ lsqCount' = k /\ UNCHANGED <<lsq, lsqHead, genCtr, ops, mode>>
      /\ UNCHANGED <<sbVars, port, mem, arch>>
  BY DEF Squash, archVars
<1>3. QueueShape'
  BY <1>1, <1>2 DEF MemInv, QueueShape
<1>4. \A s \in LsqSlots : lsq[s].reported => lsq[s].done
  BY DEF MemInv, EntriesRight, EntryRight
<1> QED BY <1>1, <1>2, <1>3, <1>4, QueueCarries

LEMMA CaptureKeeps ==
  ASSUME MemInv, NEW k \in Ages, CaptureData(k)
  PROVE  MemInv'
<1>1. PICK s \in LsqSlots : s = Slot(k)
  BY QueueTypes DEF MemInv
<1>2. /\ lsq' = [lsq EXCEPT ![s].dataReady = TRUE]
      /\ UNCHANGED <<lsqHead, lsqCount, genCtr, ops, mode>>
      /\ UNCHANGED <<sbVars, port, mem, arch>>
  BY <1>1 DEF CaptureData, archVars
<1>3. QueueShape'
  <2>1. [lsq[s] EXCEPT !.dataReady = TRUE] \in LsqEntries
    BY DEF MemInv, QueueShape, LsqEntries
  <2> QED BY <1>2, <2>1 DEF MemInv, QueueShape
<1>4. \A t \in LsqSlots : /\ lsq'[t].isStore = lsq[t].isStore /\ lsq'[t].id = lsq[t].id
                          /\ lsq'[t].gen = lsq[t].gen /\ lsq'[t].acc = lsq[t].acc
                          /\ lsq'[t].issued = lsq[t].issued /\ lsq'[t].done = lsq[t].done
                          /\ lsq'[t].val = lsq[t].val
                          /\ lsq'[t].reported = lsq[t].reported
  BY <1>2 DEF MemInv, QueueShape, LsqEntries
<1>5. \A t \in LsqSlots : lsq[t].reported => lsq[t].done
  BY DEF MemInv, EntriesRight, EntryRight
<1>6. lsqCount' <= lsqCount
  BY <1>2, QueueTypes DEF MemInv
<1> QED BY <1>2, <1>3, <1>4, <1>5, <1>6, QueueCarries

LEMMA ReportKeeps ==
  ASSUME MemInv, NEW k \in Ages, ReportLoad(k)
  PROVE  MemInv'
<1>1. PICK s \in LsqSlots : s = Slot(k)
  BY QueueTypes DEF MemInv
<1>2. /\ lsq[s].done /\ lsq' = [lsq EXCEPT ![s].reported = TRUE]
      /\ UNCHANGED <<lsqHead, lsqCount, genCtr, ops, mode>>
      /\ UNCHANGED <<sbVars, port, mem, arch>>
  BY <1>1 DEF ReportLoad, archVars, Nth
<1>3. QueueShape'
  <2>1. [lsq[s] EXCEPT !.reported = TRUE] \in LsqEntries
    BY DEF MemInv, QueueShape, LsqEntries
  <2> QED BY <1>2, <2>1 DEF MemInv, QueueShape
<1>4. \A t \in LsqSlots : /\ lsq'[t].isStore = lsq[t].isStore /\ lsq'[t].id = lsq[t].id
                          /\ lsq'[t].gen = lsq[t].gen /\ lsq'[t].acc = lsq[t].acc
                          /\ lsq'[t].issued = lsq[t].issued /\ lsq'[t].done = lsq[t].done
                          /\ lsq'[t].val = lsq[t].val
  BY <1>2 DEF MemInv, QueueShape, LsqEntries
<1>5. \A t \in LsqSlots : lsq'[t].reported => lsq[t].done
  <2>1. \A t \in LsqSlots : t # s => lsq'[t] = lsq[t]
    BY <1>2 DEF MemInv, QueueShape
  <2> QED BY <1>2, <2>1 DEF MemInv, EntriesRight, EntryRight
<1>6. lsqCount' <= lsqCount
  BY <1>2, QueueTypes DEF MemInv
<1> QED BY <1>2, <1>3, <1>4, <1>5, <1>6, QueueCarries
-----------------------------------------------------------------------------
(* An address arrives *)

(* Load k (now r) is what was load K (then q) before d operations left the *)
(* head of the queue, behind the same stores; what a store that left would *)
(* have given it is committed now.                                         *)
Moved(k, d, K, q, r) ==
  /\ K = k + d /\ q = Nth(K) /\ r = Nth(k)' /\ Slot(k)' = Slot(K)
  /\ r.acc = q.acc /\ r.issued = q.issued /\ r.done = q.done /\ r.val = q.val
  /\ r.gen = q.gen
  /\ \A j \in 0 .. k - 1 : \A b \in BytesOf(q.acc) :
       /\ Writes(j, b)' <=> Writes(j + d, b)
       /\ Writes(j + d, b) => Nth(j)'.id = Nth(j + d).id
  /\ \A b \in BytesOf(q.acc) :
       /\ (d = 1 /\ Writes(0, b)) => arch'[b] = Nth(0).id
       /\ ~(d = 1 /\ Writes(0, b)) =>
            /\ arch'[b] = arch[b]
            /\ ~q.done /\ Writers(b) = {} => Writers(b)' = {}
  /\ \A i \in LoadRequests' : port'[i].performed => \E m \in LoadRequests : port[m] = port'[i]
  /\ ~q.done => q.issued

LEMMA LoadMoves ==
  ASSUME NEW k \in Nat, NEW d \in {0, 1}, NEW K, NEW q, NEW r,
         LoadRight(K), Moved(k, d, K, q, r)
  PROVE  LoadRight(k)'
<1> USE DEF Moved
<1>1. K \in Nat /\ \A j \in 0 .. k - 1 : j + d \in 0 .. K - 1
  OBVIOUS
<1>2. r.issued => \A j \in 0 .. k - 1 : \A b \in BytesOf(r.acc) : ~Writes(j, b)'
  BY <1>1 DEF LoadRight
<1>3. r.done => ValueRight(k)'
  <2> SUFFICES ASSUME q.done PROVE ValueRight(k)'
    OBVIOUS
  <2>1. ValueRight(K)
    BY DEF LoadRight
  <2>2. r.val \in [BytesOf(r.acc) -> OpIds]
    BY <2>1 DEF ValueRight, OrderedValue
  <2>3. ASSUME NEW b \in BytesOf(q.acc), \A j \in 0 .. k - 1 : ~Writes(j, b)'
        PROVE  r.val[b] = arch'[b]
    <3>1. ASSUME NEW i \in d .. K - 1 PROVE ~Writes(i, b)
      <4>1. i - d \in 0 .. k - 1 /\ (i - d) + d = i
        BY <1>1
      <4> QED BY <2>3, <4>1
    <3>2. CASE d = 1 /\ Writes(0, b)
      <4>1. 0 \in 0 .. K - 1 /\ \A j \in 0 + 1 .. K - 1 : ~Writes(j, b)
        BY <3>1, <3>2
      <4>2. q.val[b] = Nth(0).id
        BY <2>1, <3>2, <4>1 DEF ValueRight, OrderedValue
      <4> QED BY <3>2, <4>2
    <3>3. CASE ~(d = 1 /\ Writes(0, b))
      <4>1. \A i \in 0 .. K - 1 : ~Writes(i, b)
        <5>1. \A i \in 0 .. K - 1 : i \in d .. K - 1 \/ (d = 1 /\ i = 0)
          OBVIOUS
        <5> QED BY <3>1, <3>3, <5>1
      <4>2. q.val[b] = arch[b]
        BY <2>1, <4>1 DEF ValueRight, OrderedValue
      <4> QED BY <3>3, <4>2
    <3> QED BY <3>2, <3>3
  <2>4. ASSUME NEW b \in BytesOf(q.acc), NEW m \in 0 .. k - 1, Writes(m, b)',
               \A j \in m + 1 .. k - 1 : ~Writes(j, b)'
        PROVE  r.val[b] = Nth(m)'.id
    <3>1. m + d \in 0 .. K - 1 /\ Writes(m + d, b) /\ Nth(m)'.id = Nth(m + d).id
      BY <1>1, <2>4
    <3>2. ASSUME NEW i \in (m + d) + 1 .. K - 1 PROVE ~Writes(i, b)
      <4>1. i - d \in m + 1 .. k - 1 /\ i - d \in 0 .. k - 1 /\ (i - d) + d = i
        BY <1>1
      <4> QED BY <2>4, <4>1
    <3>3. q.val[b] = Nth(m + d).id
      BY <2>1, <3>1, <3>2 DEF ValueRight, OrderedValue
    <3> QED BY <3>1, <3>3
  <2> QED BY <2>2, <2>3, <2>4 DEF ValueRight, OrderedValue
<1>4. ~r.done =>
        /\ \A b \in BytesOf(r.acc) : Writers(b)' = {}
        /\ \A i \in LoadRequests' : LoadAsks(i, k)' /\ port'[i].performed =>
             port'[i].val = [b \in BytesOf(r.acc) |-> arch'[b]]
  <2> SUFFICES ASSUME ~q.done
               PROVE  /\ \A b \in BytesOf(q.acc) : Writers(b)' = {}
                      /\ \A i \in LoadRequests' : LoadAsks(i, k)' /\ port'[i].performed =>
                           port'[i].val = [b \in BytesOf(q.acc) |-> arch'[b]]
    OBVIOUS
  <2>1. ASSUME NEW b \in BytesOf(q.acc) PROVE ~(d = 1 /\ Writes(0, b))
    <3>1. d = 1 => 0 \in 0 .. K - 1
      BY <1>1
    <3> QED BY <3>1 DEF LoadRight
  <2>2. \A b \in BytesOf(q.acc) : Writers(b)' = {} /\ arch'[b] = arch[b]
    BY <2>1 DEF LoadRight
  <2>3. [b \in BytesOf(q.acc) |-> arch'[b]] = [b \in BytesOf(q.acc) |-> arch[b]]
    BY <2>2
  <2>4. ASSUME NEW i \in LoadRequests', LoadAsks(i, k)', port'[i].performed
        PROVE  port'[i].val = [b \in BytesOf(q.acc) |-> arch[b]]
    <3>1. PICK m \in LoadRequests : port[m] = port'[i]
      BY <2>4
    <3>2. LoadAsks(m, K)
      BY <2>4, <3>1 DEF LoadAsks
    <3> QED BY <2>4, <3>1, <3>2 DEF LoadRight
  <2> QED BY <2>2, <2>3, <2>4
<1> QED BY <1>2, <1>3, <1>4 DEF LoadRight

LEMMA ResolveKeeps ==
  ASSUME MemInv, NEW t \in Ages, NEW acc \in Accesses, ResolveAddress(t, acc)
  PROVE  MemInv'
<1> USE DEF MemInv
<1>0. PICK s \in LsqSlots : s = Slot(t) /\ Nth(t) = lsq[s]
  BY QueueTypes
<1> DEFINE V == IF Nth(t).isStore /\ mode = "Speculative" /\ ~Faulty(acc)
                THEN Violated(t, acc) ELSE {}
<1>1. /\ ~AddrValid(t) /\ lsq' = [lsq EXCEPT ![s].acc = acc]
      /\ lsqCount' = IF V = {} THEN lsqCount ELSE CHOOSE v \in V : \A w \in V : v <= w
      /\ UNCHANGED <<lsqHead, genCtr, ops, mode>> /\ UNCHANGED <<sbVars, port, mem, arch>>
  BY <1>0 DEF ResolveAddress, archVars
<1>2. lsqCount' \in 0 .. lsqCount /\ \A k \in V : lsqCount' <= k
  <2>1. Ages = 0 .. lsqCount - 1 /\ lsqCount \in Nat
    BY AgesRange
  <2>2. V \subseteq Ages
    BY DEF Violated, AccessedLoads
  <2>3. CASE V = {}
    BY <1>1, <2>1, <2>3
  <2>4. CASE V # {}
    <3> HIDE DEF V
    <3>1. V \subseteq Nat
      BY <2>1, <2>2
    <3>2. \E v \in V : \A w \in V : v <= w
      BY <2>4, <3>1, MinExists
    <3>3. lsqCount' \in V /\ \A w \in V : lsqCount' <= w
      BY <1>1, <2>4, <3>2
    <3> QED BY <2>1, <2>2, <3>3
  <2> QED BY <2>3, <2>4
<1>3. /\ lsq' \in [LsqSlots -> LsqEntries]
      /\ \A u \in LsqSlots : u # s => lsq'[u] = lsq[u]
      /\ lsq'[s].acc = acc /\ lsq'[s].isStore = lsq[s].isStore /\ lsq'[s].id = lsq[s].id
      /\ lsq'[s].gen = lsq[s].gen /\ lsq'[s].issued = lsq[s].issued
      /\ lsq'[s].done = lsq[s].done /\ lsq'[s].reported = lsq[s].reported
      /\ lsq'[s].val = lsq[s].val
  <2>1. lsq[s] \in LsqEntries
    BY DEF QueueShape
  <2>2. lsq'[s] = [lsq[s] EXCEPT !.acc = acc]
    BY <1>1 DEF QueueShape
  <2>3. [lsq[s] EXCEPT !.acc = acc] \in LsqEntries
    BY <2>1 DEF LsqEntries
  <2>4. lsq' \in [LsqSlots -> LsqEntries] /\ \A u \in LsqSlots : u # s => lsq'[u] = lsq[u]
    BY <1>1, <2>3 DEF QueueShape
  <2> QED BY <2>1, <2>2, <2>4 DEF LsqEntries
<1>4. lsq[s].acc = NoAccess /\ ~lsq[s].issued /\ ~lsq[s].done /\ lsq[s].val = <<>>
  BY <1>0, <1>1 DEF AddrValid, EntriesRight, EntryRight
<1>5. QueueShape'
  <2>1. lsqCount' \in 0 .. LsqSize
    BY <1>2, QueueTypes
  <2> QED BY <1>1, <1>3, <2>1 DEF QueueShape, LsqSlots
<1>6. /\ BufferShape' /\ PortShape' /\ MemShape' /\ BufferRight' /\ StoresInPort' /\ MemoryRight'
      /\ LoadRequests' = LoadRequests /\ \A b : Writers(b)' = Writers(b)
  BY <1>1, EngineStill
<1>7. \A k \in Ages' : k \in Ages /\ \A j \in 0 .. k : j \in Ages'
  BY <1>2, <1>5, FewerAges
<1>8. /\ \A k : Slot(k)' = Slot(k)
      /\ \A k \in Ages : k # t => Nth(k)' = Nth(k)
      /\ Nth(t)' = lsq'[s]
  <2>1. \A k : Slot(k)' = Slot(k)
    BY <1>1 DEF Slot
  <2>2. \A k \in Ages : k # t => Slot(k) \in LsqSlots /\ Slot(k) # s
    BY <1>0, QueueTypes
  <2> QED BY <1>0, <1>3, <2>1, <2>2 DEF Nth
<1>9. EntriesRight'
  <2>1. ASSUME NEW u \in LsqSlots PROVE EntryRight(u)'
    <3>0. EntryRight(u)
      BY DEF EntriesRight
    <3>1. CASE u = s
      BY <1>1, <1>3, <1>4, <3>0, <3>1 DEF EntryRight
    <3>2. CASE u # s
      BY <1>1, <1>3, <3>0, <3>2 DEF EntryRight
    <3> QED BY <3>1, <3>2
  <2>2. ASSUME NEW k \in Ages' PROVE Nth(k)'.id \in 1 .. MaxOps
    <3>1. Nth(k)'.id = Nth(k).id
      BY <1>0, <1>3, <1>7, <1>8
    <3> QED BY <1>7, <3>1 DEF EntriesRight
  <2>3. LsqSlots' = LsqSlots
    BY DEF LsqSlots
  <2> QED BY <2>1, <2>2, <2>3 DEF EntriesRight
<1>10. /\ \A k \in Pending' : k \in Pending /\ k \in Ages' /\ k # t
       /\ \A k \in AccessedLoads' : k \in AccessedLoads /\ k \in Ages' /\ k # t
       /\ \A k \in UnknownStores' : k \in UnknownStores
  <2>1. ~Nth(t)'.issued /\ ~Nth(t)'.done
    BY <1>3, <1>4, <1>8
  <2>2. \A k \in Pending' : k \in Pending /\ k \in Ages' /\ k # t
    BY <1>7, <1>8, <2>1 DEF Pending
  <2>3. \A k \in AccessedLoads' : k \in AccessedLoads /\ k \in Ages' /\ k # t
    BY <1>7, <1>8, <2>1 DEF AccessedLoads
  <2>4. ASSUME NEW k \in UnknownStores' PROVE k \in UnknownStores
    <3>1. k \in Ages' /\ k \in Ages
      BY <1>7 DEF UnknownStores
    <3>2. CASE k = t
      BY <1>0, <1>1, <1>3, <1>8, <3>1, <3>2 DEF UnknownStores
    <3>3. CASE k # t
      BY <1>8, <3>1, <3>3 DEF UnknownStores, AddrValid
    <3> QED BY <3>2, <3>3
  <2> QED BY <2>2, <2>3, <2>4
<1>11. LoadsInPort'
  <2>0. \A u \in LsqSlots : lsq[u].issued =>
          lsq'[u].issued /\ lsq'[u].id = lsq[u].id /\ lsq'[u].acc = lsq[u].acc
    BY <1>3, <1>4
  <2>1. LoadRequests' = LoadRequests /\ \A i \in LoadRequests' : LoadRequestRight(i)'
    BY <1>1, <2>0, RequestsCarry
  <2>2. ASSUME NEW k \in Pending' PROVE \E i \in LoadRequests : LoadAsks(i, k)'
    <3>1. PICK i \in LoadRequests : LoadAsks(i, k)
      BY <1>10 DEF LoadsInPort
    <3> QED BY <1>1, <1>7, <1>8, <1>10, <3>1 DEF LoadAsks
  <2> QED BY <2>1, <2>2 DEF LoadsInPort
<1>12. \A k \in AccessedLoads' : Nth(k)' = Nth(k) /\ (Fault(k)' <=> Fault(k))
  BY <1>7, <1>8, <1>10 DEF Fault, AddrValid
<1>13. NeverPassesUnknownStore'
  BY <1>1, <1>10, <1>12 DEF NeverPassesUnknownStore
<1>14. LoadsRight'
  <2> SUFFICES ASSUME NEW k \in AccessedLoads', ~Fault(k)', Clean(k)' PROVE LoadRight(k)'
    BY DEF LoadsRight
  <2>1. /\ k \in AccessedLoads /\ k \in Ages /\ k \in Ages' /\ k # t
        /\ Nth(k)' = Nth(k) /\ ~Fault(k)
    BY <1>7, <1>10, <1>12
  <2>2. /\ k \in Nat /\ t \in Nat /\ \A j \in 0 .. k : j \in Ages' /\ j \in Ages
    BY <1>7, <2>1, AgesRange
  <2>3. /\ ~Nth(k).done => Nth(k).issued
        /\ Nth(k).acc \in Accesses
    <3>1. EntryRight(Slot(k)) /\ Nth(k) = lsq[Slot(k)]
      BY <2>1, QueueTypes DEF EntriesRight
    <3>2. AddrValid(k)
      BY <2>1, <3>1 DEF EntryRight, AccessedLoads, AddrValid
    <3> QED BY <2>1, <3>2, AddressTypes DEF AccessedLoads
  <2>4. \A i \in LoadRequests' : port'[i].performed => \E m \in LoadRequests : port[m] = port'[i]
    BY <1>1, <1>6
  <2>5. \A j \in 0 .. k : j # t => /\ Nth(j)' = Nth(j)
                                   /\ j \in KnownStores' <=> j \in KnownStores
                                   /\ Fault(j)' <=> Fault(j)
    BY <1>8, <2>2 DEF KnownStores, AddrValid, Fault
  <2>6. t \notin KnownStores
    BY <1>1 DEF KnownStores
  <2>7. Clean(k)
    <3> SUFFICES ASSUME NEW j \in KnownStores, j < k PROVE ~Fault(j)
      BY DEF Clean
    <3>1. j \in 0 .. k /\ j # t
      BY <2>2, <2>6, AgesRange DEF KnownStores
    <3> QED BY <2>5, <3>1 DEF Clean
  <2>8. LoadRight(k)
    BY <2>1, <2>7 DEF LoadsRight
  <2>9. ASSUME t < k PROVE \A b \in BytesOf(Nth(k).acc) : ~Writes(t, b)'
    <3>1. t \in Ages'
      BY <2>2, <2>9
    <3>2. CASE ~Nth(t).isStore
      BY <1>0, <1>3, <1>8, <3>2 DEF Writes, KnownStores
    <3>3. CASE Nth(t).isStore
      <4>1. t \in UnknownStores
        BY <1>1, <3>3 DEF UnknownStores
      <4>2. mode = "Speculative"
        BY <2>1, <2>2, <2>9, <4>1 DEF NeverPassesUnknownStore
      <4>3. ~Faulty(acc)
        <5>1. AddrValid(t)' /\ t \in KnownStores'
          <6>1. acc # NoAccess
            BY AccessBytes
          <6> QED BY <1>0, <1>3, <1>8, <3>1, <3>3, <6>1 DEF KnownStores, AddrValid
        <5>2. ~Fault(t)'
          BY <2>9, <5>1 DEF Clean
        <5> QED BY <1>3, <1>8, <5>1, <5>2 DEF Fault
      <4>4. k \notin V
        <5>1. PICK c : c = lsqCount' /\ Ages' = 0 .. c - 1
          BY DEF Ages
        <5>2. c \in Int
          BY <1>2, <5>1
        <5>3. k \in 0 .. c - 1
          <6>1. k \in Ages' /\ Ages' = 0 .. c - 1
            BY <2>1, <5>1
          <6> QED BY <6>1, Zenon
        <5> HIDE DEF V
        <5>4. k \in V => c <= k
          BY <1>2, <5>1
        <5> QED BY <5>2, <5>3, <5>4
      <4>5. ~Overlaps(acc, Nth(k).acc)
        BY <2>1, <2>2, <2>9, <3>3, <4>2, <4>3, <4>4 DEF Violated
      <4>6. \A b \in BytesOf(Nth(k).acc) : b \notin BytesOf(acc)
        BY <2>3, <4>5, SharedByte
      <4> QED BY <1>3, <1>8, <4>6 DEF Writes
    <3> QED BY <3>2, <3>3
  <2>10. \A j \in 0 .. k - 1 : \A b \in BytesOf(Nth(k).acc) :
           /\ Writes(j, b)' <=> Writes(j + 0, b)
           /\ Writes(j + 0, b) => Nth(j)'.id = Nth(j + 0).id
    <3> TAKE j \in 0 .. k - 1
    <3> TAKE b \in BytesOf(Nth(k).acc)
    <3>1. j \in 0 .. k /\ j + 0 = j
      BY <2>2
    <3>2. CASE j # t
      BY <2>5, <3>1, <3>2 DEF Writes
    <3>3. CASE j = t
      BY <2>2, <2>6, <2>9, <3>1, <3>3 DEF Writes
    <3> QED BY <3>2, <3>3
  <2>11. k + 0 = k /\ 0 \in {0, 1} /\ 0 # 1
    BY <2>2
  <2>12. PICK q, r : q = Nth(k) /\ r = Nth(k)'
    OBVIOUS
  <2>13. Moved(k, 0, k, q, r)
    BY <1>1, <1>6, <1>8, <2>1, <2>2, <2>3, <2>4, <2>10, <2>11, <2>12 DEF Moved
  <2> QED BY <2>1, <2>2, <2>8, <2>11, <2>13, LoadMoves
<1> QED BY <1>5, <1>6, <1>9, <1>11, <1>13, <1>14
-----------------------------------------------------------------------------
(* The walk over the candidates *)

WalkOutcome(I) ==
  /\ QueueShape' /\ EntriesRight' /\ NeverPassesUnknownStore' /\ LoadsRight'
  /\ \A s \in LsqSlots :
       /\ lsq'[s].id = lsq[s].id /\ lsq'[s].acc = lsq[s].acc /\ lsq'[s].gen = lsq[s].gen
       /\ lsq[s].issued => lsq'[s].issued
  /\ \A k \in Pending' : k \in Ages /\ (k \in Pending \/ k \in I)
  /\ \A k : Slot(k)' = Slot(k)

(* The walk with what it sends: I is the load that got the port, if any.   *)
LEMMA WalkKeeps ==
  ASSUME MemInv, NEW flagged, NEW c, c = Completed(flagged),
         NEW I, I \subseteq PortCandidates(flagged),
         \A k \in I : lsq'[Slot(k)] = [c[Slot(k)] EXCEPT !.issued = TRUE],
         \A s \in LsqSlots : (\A k \in I : s # Slot(k)) => lsq'[s] = c[s],
         lsq' \in [LsqSlots -> LsqEntries],
         UNCHANGED <<lsqHead, lsqCount, genCtr, arch, ops, mode>>,
         \A b : Writers(b)' = Writers(b),
         \A i \in LoadRequests' : port'[i].performed => \E m \in LoadRequests : port[m] = port'[i]
  PROVE  WalkOutcome(I)
<1> USE DEF MemInv
<1>1. QueueShape' /\ Ages' = Ages /\ \A k : Slot(k)' = Slot(k)
  BY DEF QueueShape, LsqSlots, Ages, Slot
<1>0. /\ \A s \in LsqSlots : (\A k \in Ages : s # Slot(k)) => c[s] = lsq[s]
      /\ \A k \in Ages : WalkedTo(k, flagged, c[Slot(k)])
  <2>1. QueueShape /\ BufferShape /\ MemShape /\ BufferRight /\ MemoryRight
    OBVIOUS
  <2> QED BY <2>1, WalkIs
<1>2. \A k \in I : k \in Ages /\ k \in Candidates /\ Goes(k, flagged)
  BY DEF PortCandidates, Visited, Candidates
<1>3. ASSUME NEW k \in Ages
      PROVE  /\ Nth(k) \in LsqEntries /\ Nth(k)' \in LsqEntries
             /\ \/ k \notin I /\ Nth(k)' = Nth(k)
                \/ /\ k \notin I /\ k \in Candidates /\ Fault(k)
                   /\ Nth(k)' = [Nth(k) EXCEPT !.done = TRUE]
                \/ /\ k \notin I /\ k \in Candidates /\ Forwards(k, flagged)
                   /\ Nth(k)' = [Nth(k) EXCEPT
                                   !.done = TRUE, !.val = Ids(Supplier(k).acc, Supplier(k).id)]
                \/ k \in I /\ Nth(k)' = [Nth(k) EXCEPT !.issued = TRUE]
  <2>0. Slot(k) \in LsqSlots /\ Nth(k) = lsq[Slot(k)] /\ Nth(k)' = lsq'[Slot(k)]
    BY <1>1, QueueTypes DEF Nth
  <2>1. Nth(k) \in LsqEntries /\ Nth(k)' \in LsqEntries
    BY <2>0 DEF QueueShape
  <2>2. \/ c[Slot(k)] = lsq[Slot(k)]
        \/ /\ k \in Visited(flagged) /\ Fault(k)
           /\ c[Slot(k)] = [lsq[Slot(k)] EXCEPT !.done = TRUE]
        \/ /\ k \in Visited(flagged) /\ Forwards(k, flagged)
           /\ c[Slot(k)] = [lsq[Slot(k)] EXCEPT
                              !.done = TRUE, !.val = Ids(Supplier(k).acc, Supplier(k).id)]
    BY <1>0 DEF WalkedTo
  <2>3. CASE k \in I
    <3>1. ~Fault(k) /\ ~Forwards(k, flagged)
      BY <1>2, <2>3 DEF Goes, Searches, Forwards
    <3>2. c[Slot(k)] = Nth(k)
      BY <2>0, <2>2, <3>1
    <3>3. Nth(k)' = [Nth(k) EXCEPT !.issued = TRUE]
      BY <2>0, <2>3, <3>2
    <3> QED BY <2>1, <2>3, <3>3
  <2>4. CASE k \notin I
    <3>1. \A j \in I : Slot(k) # Slot(j)
      BY <1>2, <2>4, QueueTypes
    <3>2. lsq'[Slot(k)] = c[Slot(k)]
      BY <2>0, <3>1
    <3> QED BY <2>0, <2>1, <2>2, <2>4, <3>2 DEF Visited
  <2> QED BY <2>3, <2>4
<1>4. ASSUME NEW k \in Ages
      PROVE  /\ Nth(k)'.isStore = Nth(k).isStore /\ Nth(k)'.id = Nth(k).id
             /\ Nth(k)'.gen = Nth(k).gen /\ Nth(k)'.acc = Nth(k).acc
             /\ Nth(k)'.reported = Nth(k).reported
             /\ Nth(k)'.issued = (k \in I \/ Nth(k).issued)
  <2>1. PICK q \in LsqEntries : q = Nth(k)
    BY <1>3
  <2>2. PICK r \in LsqEntries : r = Nth(k)'
    BY <1>3
  <2>3. PICK v : v = Ids(Supplier(k).acc, Supplier(k).id)
    OBVIOUS
  <2>4. \/ k \notin I /\ r = q
        \/ k \notin I /\ r = [q EXCEPT !.done = TRUE]
        \/ k \notin I /\ r = [q EXCEPT !.done = TRUE, !.val = v]
        \/ k \in I /\ r = [q EXCEPT !.issued = TRUE]
    BY <1>3, <2>1, <2>2, <2>3
  <2>5. /\ r.isStore = q.isStore /\ r.id = q.id /\ r.gen = q.gen /\ r.acc = q.acc
        /\ r.reported = q.reported /\ r.issued = (k \in I \/ q.issued)
    BY <2>4 DEF LsqEntries
  <2> QED BY <2>1, <2>2, <2>5
<1>5. \A s \in LsqSlots : (\A k \in Ages : s # Slot(k)) => lsq'[s] = lsq[s]
  BY <1>0, <1>2
<1>6. \A k \in Ages : Nth(k) = lsq[Slot(k)] /\ Nth(k)' = lsq'[Slot(k)] /\ Slot(k) \in LsqSlots
  BY <1>1, QueueTypes DEF Nth
<1>7. \A k \in Ages : /\ AddrValid(k)' <=> AddrValid(k)
                      /\ Fault(k)' <=> Fault(k)
                      /\ k \in KnownStores' <=> k \in KnownStores
                      /\ k \in UnknownStores' <=> k \in UnknownStores
  BY <1>1, <1>4 DEF AddrValid, Fault, KnownStores, UnknownStores
<1>8. \A s \in LsqSlots :
        /\ lsq'[s].id = lsq[s].id /\ lsq'[s].acc = lsq[s].acc /\ lsq'[s].gen = lsq[s].gen
        /\ lsq[s].issued => lsq'[s].issued
  <2> TAKE s \in LsqSlots
  <2>1. CASE \A k \in Ages : s # Slot(k)
    BY <1>5, <2>1
  <2>2. CASE \E k \in Ages : s = Slot(k)
    <3>1. PICK k \in Ages : s = Slot(k)
      BY <2>2
    <3>2. Nth(k) = lsq[s] /\ Nth(k)' = lsq'[s]
      BY <1>6, <3>1
    <3> QED BY <1>4, <3>2
  <2> QED BY <2>1, <2>2
<1>9. \A k \in Candidates : k \in Ages /\ ~Nth(k).isStore /\ AddrValid(k)
                            /\ ~Nth(k).issued /\ ~Nth(k).done
  BY DEF Candidates
<1>10. EntriesRight'
  <2>1. ASSUME NEW s \in LsqSlots PROVE EntryRight(s)'
    <3>0. EntryRight(s)
      BY DEF EntriesRight
    <3>1. CASE \A k \in Ages : s # Slot(k)
      BY <1>5, <3>0, <3>1 DEF EntryRight
    <3>2. CASE \E k \in Ages : s = Slot(k)
      <4>1. PICK k \in Ages : s = Slot(k)
        BY <3>2
      <4>2. PICK q \in LsqEntries, r \in LsqEntries :
              q = Nth(k) /\ q = lsq[s] /\ r = Nth(k)' /\ r = lsq'[s]
        BY <1>3, <1>6, <4>1
      <4>3. k \in I => (q.acc # NoAccess /\ ~Faulty(q.acc) /\ ~q.isStore)
        BY <1>2, <1>9, <4>2 DEF Goes, Searches, Fault, AddrValid
      <4>8. k \in Candidates => (q.acc # NoAccess /\ ~q.isStore /\ ~q.issued /\ ~q.done)
        BY <1>9, <4>2 DEF AddrValid
      <4>9. genCtr' = genCtr /\ ops' = ops
        OBVIOUS
      <4>4. CASE r = q
        BY <3>0, <4>2, <4>4 DEF EntryRight
      <4>5. CASE k \in Candidates /\ k \notin I /\ r = [q EXCEPT !.done = TRUE]
        <5>1. r.done /\ r.val = q.val /\ r.acc = q.acc /\ r.isStore = q.isStore
              /\ r.issued = q.issued /\ r.reported = q.reported /\ r.gen = q.gen
          BY <4>5 DEF LsqEntries
        <5> QED BY <3>0, <4>2, <4>5, <4>8, <4>9, <5>1 DEF EntryRight
      <4>6. CASE /\ k \in Candidates /\ k \notin I /\ Forwards(k, flagged)
                 /\ r = [q EXCEPT !.done = TRUE, !.val = Ids(Supplier(k).acc, Supplier(k).id)]
        <5>0. PICK v : v = Ids(Supplier(k).acc, Supplier(k).id)
          OBVIOUS
        <5>1. r.done /\ r.val = v /\ r.acc = q.acc /\ r.isStore = q.isStore
              /\ r.issued = q.issued /\ r.reported = q.reported /\ r.gen = q.gen
          BY <4>6, <5>0 DEF LsqEntries
        <5>2. v \in [BytesOf(q.acc) -> OpIds]
          BY <4>2, <4>6, <5>0, ForwardedValue DEF Forwards, Searches, OrderedValue
        <5> QED BY <3>0, <4>2, <4>6, <4>8, <4>9, <5>1, <5>2 DEF EntryRight
      <4>7. CASE k \in I /\ r = [q EXCEPT !.issued = TRUE]
        <5>1. r.issued /\ r.val = q.val /\ r.acc = q.acc /\ r.isStore = q.isStore
              /\ r.done = q.done /\ r.reported = q.reported /\ r.gen = q.gen
          BY <4>7 DEF LsqEntries
        <5> QED BY <3>0, <4>2, <4>3, <4>7, <5>1 DEF EntryRight
      <4> QED BY <1>3, <4>2, <4>4, <4>5, <4>6, <4>7
    <3> QED BY <3>1, <3>2
  <2>2. \A k \in Ages' : Nth(k)'.id \in 1 .. MaxOps
    BY <1>1, <1>4 DEF EntriesRight
  <2>3. LsqSlots' = LsqSlots
    BY DEF LsqSlots
  <2> QED BY <2>1, <2>2, <2>3 DEF EntriesRight
<1>11. \A k \in Pending' : k \in Ages /\ (k \in Pending \/ k \in I)
  <2> SUFFICES ASSUME NEW k \in Ages, Nth(k)'.issued, ~Nth(k)'.done, k \notin I
               PROVE  Nth(k).issued /\ ~Nth(k).done
    BY <1>1 DEF Pending
  <2>1. Nth(k).issued
    BY <1>4
  <2>2. k \notin Candidates
    BY <1>9, <2>1
  <2> QED BY <1>3, <2>1, <2>2
<1>12. \A k \in AccessedLoads' : k \in Ages /\
          (k \in AccessedLoads \/ (k \in Candidates /\ (Fault(k) \/ ~Walled(k, flagged))))
  <2> SUFFICES ASSUME NEW k \in Ages, Nth(k)'.issued \/ Nth(k)'.done, k \notin AccessedLoads
               PROVE  k \in Candidates /\ (Fault(k) \/ ~Walled(k, flagged))
    BY <1>1 DEF AccessedLoads
  <2>1. Nth(k)' # Nth(k)
    BY DEF AccessedLoads
  <2> QED BY <1>2, <1>3, <2>1 DEF Goes, Forwards, Searches
<1>13. NeverPassesUnknownStore'
  <2> SUFFICES ASSUME mode # "Speculative", NEW k \in AccessedLoads', NEW j \in UnknownStores'
               PROVE  Fault(k) \/ j > k
    <3>1. \A k \in AccessedLoads' : Fault(k)' <=> Fault(k)
      BY <1>1, <1>7 DEF AccessedLoads
    <3> QED BY <3>1 DEF NeverPassesUnknownStore
  <2>1. j \in UnknownStores /\ j \in Ages
    BY <1>1, <1>7 DEF UnknownStores
  <2>2. CASE k \in AccessedLoads
    BY <2>1, <2>2 DEF NeverPassesUnknownStore
  <2>3. CASE k \in Candidates /\ (Fault(k) \/ ~Walled(k, flagged))
    <3>1. Fault(k) \/ ~(j < k)
      BY <2>1, <2>3 DEF Walled, BehindUnknown
    <3>2. j # k
      BY <1>9, <2>1, <2>3 DEF UnknownStores
    <3>3. j \in Int /\ k \in Int
      BY <1>12, <2>1, AgesRange
    <3> QED BY <3>1, <3>2, <3>3
  <2> QED BY <1>12, <2>2, <2>3
<1>14. LoadsRight'
  <2> SUFFICES ASSUME NEW k \in AccessedLoads', ~Fault(k)', Clean(k)' PROVE LoadRight(k)'
    BY DEF LoadsRight
  <2>1. k \in Ages /\ k \in Ages' /\ ~Fault(k) /\ k \in Nat
    BY <1>1, <1>7, <1>12, AgesRange
  <2>2. \A j \in 0 .. k : j \in Ages
    BY <2>1, AgesRange
  <2>3. \A b : \A j \in 0 .. k - 1 : Writes(j, b)' <=> Writes(j, b)
    BY <1>4, <1>7, <2>1, <2>2 DEF Writes
  <2>4. Nth(k)'.acc = Nth(k).acc /\ Nth(k)'.gen = Nth(k).gen
    BY <1>4, <2>1
  <2>5. CASE k \notin I /\ Nth(k)' = Nth(k)
    <3>1. \A j \in 0 .. k : Nth(j)'.isStore = Nth(j).isStore /\ Nth(j)'.acc = Nth(j).acc
                            /\ Nth(j)'.id = Nth(j).id
      BY <1>4, <2>2
    <3> QED BY <1>1, <2>1, <2>5, <3>1, LoadCarries
  <2>6. CASE k \in Candidates /\ k \notin I /\ Forwards(k, flagged)
             /\ Nth(k)' = [Nth(k) EXCEPT
                             !.done = TRUE, !.val = Ids(Supplier(k).acc, Supplier(k).id)]
    <3>1. PICK v : v = Ids(Supplier(k).acc, Supplier(k).id)
      OBVIOUS
    <3>2. OrderedValue(k, v)
      <4>1. HasSupplier(k) /\ Supplier(k).acc = Nth(k).acc /\ k \in Candidates /\ ~Fault(k)
        BY <2>1, <2>6 DEF Forwards
      <4>2. QueueShape /\ BufferShape /\ MemShape /\ BufferRight /\ MemoryRight
        OBVIOUS
      <4> QED BY <3>1, <4>1, <4>2, ForwardedValue
    <3>3. PICK q \in LsqEntries, r \in LsqEntries : q = Nth(k) /\ r = Nth(k)'
      BY <1>3, <2>1
    <3>4. r.done /\ r.val = v /\ r.acc = q.acc /\ ~r.issued
      <4>1. r = [q EXCEPT !.done = TRUE, !.val = v] /\ ~q.issued
        BY <1>9, <2>6, <3>1, <3>3
      <4> QED BY <4>1 DEF LsqEntries
    <3>5. \A m \in 0 .. k - 1 : Nth(m)'.id = Nth(m).id /\ \A j \in m + 1 .. k - 1 : j \in 0 .. k - 1
      BY <1>4, <2>1, <2>2
    <3>6. ValueRight(k)'
      <4>1. ASSUME NEW b \in BytesOf(q.acc)
            PROVE  /\ (\A j \in 0 .. k - 1 : ~Writes(j, b)') => v[b] = arch[b]
                   /\ \A m \in 0 .. k - 1 :
                        (Writes(m, b)' /\ \A j \in m + 1 .. k - 1 : ~Writes(j, b)')
                          => v[b] = Nth(m)'.id
        BY <2>3, <3>2, <3>3, <3>5 DEF OrderedValue
      <4> QED BY <3>2, <3>3, <3>4, <4>1 DEF ValueRight, OrderedValue
    <3> QED BY <3>3, <3>4, <3>6 DEF LoadRight
  <2>7. CASE k \in I /\ Nth(k)' = [Nth(k) EXCEPT !.issued = TRUE]
    <3>1. k \in Candidates /\ ~HasSupplier(k) /\ ~Nth(k).issued /\ ~Nth(k).done /\ AddrValid(k)
      BY <1>2, <1>9, <2>7 DEF Goes
    <3>2. Nth(k).acc \in Accesses
      BY <2>1, <3>1, AddressTypes
    <3>3. ~Nth(k)'.done /\ Nth(k)'.issued
      <4>1. PICK q \in LsqEntries, r \in LsqEntries : q = Nth(k) /\ r = Nth(k)'
        BY <1>3, <2>1
      <4>2. r = [q EXCEPT !.issued = TRUE] /\ ~q.done
        BY <2>7, <3>1, <4>1
      <4>3. ~r.done /\ r.issued
        BY <4>2 DEF LsqEntries
      <4> QED BY <4>1, <4>3
    <3>4. ASSUME NEW j \in 0 .. k - 1, NEW b \in BytesOf(Nth(k).acc) PROVE ~Writes(j, b)
      <4> SUFFICES ASSUME Writes(j, b) PROVE FALSE
        OBVIOUS
      <4>1. j \in KnownStores /\ b \in BytesOf(Nth(j).acc) /\ j \in Ages /\ AddrValid(j)
        BY DEF Writes, KnownStores
      <4>2. Overlaps(Nth(j).acc, Nth(k).acc)
        BY <3>2, <4>1, AddressTypes, SharedByte
      <4>3. j < k
        BY <2>1
      <4> QED BY <3>1, <4>1, <4>2, <4>3 DEF HasSupplier, OlderStores
    <3>5. ASSUME NEW b \in BytesOf(Nth(k).acc), NEW j \in Writers(b) PROVE FALSE
      <4>1. j \in SbAges /\ b \in BytesOf(SbNth(j).acc) /\ SbNth(j).acc \in Accesses
        BY DEF Writers, BufferRight
      <4>2. Overlaps(SbNth(j).acc, Nth(k).acc)
        BY <3>2, <4>1, SharedByte
      <4> QED BY <3>1, <4>1, <4>2 DEF HasSupplier, Buffered
    <3>6. ASSUME NEW i \in LoadRequests', LoadAsks(i, k)', port'[i].performed PROVE FALSE
      <4>1. PICK m \in LoadRequests : port[m] = port'[i]
        BY <3>6
      <4>2. port[m].slot = Slot(k) /\ port[m].tag = Nth(k).gen
        BY <1>1, <2>4, <3>6, <4>1 DEF LoadAsks
      <4>3. LoadRequestRight(m) /\ EntryRight(Slot(k)) /\ Nth(k) = lsq[Slot(k)]
        BY <1>6, <2>1 DEF LoadsInPort, EntriesRight
      <4> QED BY <3>1, <4>2, <4>3 DEF LoadRequestRight, EntryRight
    <3>7. Nth(k)'.issued => \A j \in 0 .. k - 1 : \A b \in BytesOf(Nth(k)'.acc) : ~Writes(j, b)'
      BY <2>3, <2>4, <3>4
    <3>8. \A b \in BytesOf(Nth(k)'.acc) : Writers(b)' = {}
      BY <2>4, <3>5
    <3> QED BY <3>3, <3>6, <3>7, <3>8 DEF LoadRight
  <2> QED BY <1>3, <2>1, <2>5, <2>6, <2>7
<1> QED BY <1>1, <1>8, <1>10, <1>11, <1>13, <1>14 DEF WalkOutcome
-----------------------------------------------------------------------------
(* The use of the port *)

LEMMA RequestCarries ==
  ASSUME NEW i, NEW j, LoadRequestRight(i), port'[j] = port[i], genCtr' = genCtr,
         \A s \in LsqSlots : lsq[s].issued =>
           lsq'[s].issued /\ lsq'[s].id = lsq[s].id /\ lsq'[s].acc = lsq[s].acc
  PROVE  LoadRequestRight(j)'
<1>1. LsqSlots' = LsqSlots
  BY DEF LsqSlots
<1> QED BY <1>1 DEF LoadRequestRight

LEMMA PortAppended ==
  ASSUME PortShape, NEW r \in Requests, port' = Append(port, r), Len(port) < PortCap,
         NEW n, n = Len(port) + 1
  PROVE  /\ PortShape' /\ n \in Nat /\ 1 .. Len(port) = 1 .. n - 1 /\ 1 .. Len(port') = 1 .. n
         /\ \A i \in 1 .. n - 1 : port'[i] = port[i]
         /\ port'[n] = r
<1>1. Len(port) \in Nat /\ PortCap \in Nat
  BY MemOrderAssumption DEF PortShape
<1>2. /\ port' \in Seq(Requests) /\ Len(port') = Len(port) + 1
      /\ \A i \in 1 .. Len(port) : port'[i] = port[i]
      /\ port'[Len(port) + 1] = r
  BY AppendProperties DEF PortShape
<1>3. PortShape'
  BY <1>1, <1>2 DEF PortShape
<1>4. n \in Nat /\ n - 1 = Len(port) /\ n = Len(port')
  BY <1>1, <1>2
<1> QED BY <1>2, <1>3, <1>4

(* The store buffer and memory agree with the port as long as its store    *)
(* requests are the same ones in the same order.                           *)
LEMMA StoresCarry ==
  ASSUME BufferShape, MemShape, BufferRight, StoresInPort, MemoryRight,
         UNCHANGED <<sbVars, mem, arch>>,
         \A i \in StoreRequests' : \E m \in StoreRequests : port'[i] = port[m],
         \A m \in StoreRequests : \E i \in StoreRequests' : port'[i] = port[m],
         \A i1, i2 \in StoreRequests' : i1 < i2 => port'[i1].tag < port'[i2].tag
  PROVE  /\ BufferShape' /\ MemShape' /\ BufferRight' /\ StoresInPort' /\ MemoryRight'
         /\ \A b : Writers(b)' = Writers(b)
<1>1. UNCHANGED <<sb, sbHead, sbCount, sbIssued, sbTxnCtr, mem, arch>>
  BY DEF sbVars
<1>2. SbAges' = SbAges /\ \A j : SbSlot(j)' = SbSlot(j) /\ SbNth(j)' = SbNth(j)
  BY <1>1 DEF SbAges, SbSlot, SbNth
<1>3. \A b : Writers(b)' = Writers(b)
  BY <1>2 DEF Writers
<1>4. \A j : Performed(j)' <=> Performed(j)
  BY <1>2 DEF Performed
<1>5. BufferShape' /\ MemShape' /\ BufferRight'
  BY <1>1, <1>2 DEF BufferShape, MemShape, BufferRight
<1>6. MemoryRight'
  BY <1>1, <1>2, <1>3, <1>4 DEF MemoryRight, ByteRight
<1>7. StoresInPort'
  <2>1. ASSUME NEW i \in StoreRequests' PROVE \E j \in 0 .. sbIssued - 1 : StoreAsks(i, j)'
    BY <1>2 DEF StoresInPort, StoreAsks
  <2>2. ASSUME NEW j \in 0 .. sbIssued - 1
        PROVE  SbNth(j)'.acked \/ \E i \in StoreRequests' : StoreAsks(i, j)'
    BY <1>2 DEF StoresInPort, StoreAsks
  <2> QED BY <1>1, <2>1, <2>2 DEF StoresInPort
<1> QED BY <1>3, <1>5, <1>6, <1>7

LEMMA NoSendKeeps ==
  ASSUME MemInv, NEW flagged, NoSend(flagged),
         UNCHANGED <<lsqHead, lsqCount, genCtr, mem, archVars, ops, mode>>
  PROVE  MemInv'
<1> USE DEF MemInv
<1>1. /\ lsq' = Completed(flagged) /\ UNCHANGED <<sbVars, port>>
      /\ UNCHANGED <<lsqHead, lsqCount, genCtr, arch, ops, mode>> /\ UNCHANGED <<mem, arch>>
  BY DEF NoSend, archVars
<1>2. PICK c : c = Completed(flagged)
  OBVIOUS
<1>3. /\ BufferShape' /\ PortShape' /\ MemShape' /\ BufferRight' /\ StoresInPort' /\ MemoryRight'
      /\ LoadRequests' = LoadRequests /\ \A b : Writers(b)' = Writers(b)
  BY <1>1, EngineStill
<1>4. lsq' \in [LsqSlots -> LsqEntries]
  BY <1>1, <1>2, WalkIs
<1>5. \A i \in LoadRequests' : port'[i].performed => \E m \in LoadRequests : port[m] = port'[i]
  BY <1>1, <1>3
<1>6. /\ QueueShape' /\ EntriesRight' /\ NeverPassesUnknownStore' /\ LoadsRight'
      /\ \A s \in LsqSlots :
           /\ lsq'[s].id = lsq[s].id /\ lsq'[s].acc = lsq[s].acc /\ lsq'[s].gen = lsq[s].gen
           /\ lsq[s].issued => lsq'[s].issued
      /\ \A k \in Pending' : k \in Ages /\ (k \in Pending \/ k \in {})
      /\ \A k : Slot(k)' = Slot(k)
  <2>1. {} \subseteq PortCandidates(flagged)
    OBVIOUS
  <2>2. /\ \A k \in {} : lsq'[Slot(k)] = [c[Slot(k)] EXCEPT !.issued = TRUE]
        /\ \A s \in LsqSlots : (\A k \in {} : s # Slot(k)) => lsq'[s] = c[s]
    BY <1>1, <1>2
  <2>3. UNCHANGED <<lsqHead, lsqCount, genCtr, arch, ops, mode>>
    BY <1>1
  <2>4. WalkOutcome({})
    BY <1>2, <1>3, <1>4, <1>5, <2>1, <2>2, <2>3, WalkKeeps
  <2> QED BY <2>4 DEF WalkOutcome
<1>7. LoadsInPort'
  <2>1. \A i \in LoadRequests' : LoadRequestRight(i)'
    BY <1>1, <1>3, <1>6, RequestCarries DEF LoadsInPort
  <2>2. ASSUME NEW k \in Pending' PROVE \E i \in LoadRequests' : LoadAsks(i, k)'
    <3>1. k \in Ages /\ k \in Pending
      BY <1>6
    <3>2. PICK i \in LoadRequests : LoadAsks(i, k)
      BY <3>1 DEF LoadsInPort
    <3>3. Nth(k)'.gen = Nth(k).gen
      BY <1>6, <3>1, QueueTypes DEF Nth
    <3> QED BY <1>1, <1>3, <1>6, <3>2, <3>3 DEF LoadAsks
  <2> QED BY <2>1, <2>2 DEF LoadsInPort
<1> QED BY <1>3, <1>6, <1>7

LEMMA SendLoadKeeps ==
  ASSUME MemInv, NEW flagged, SendLoad(flagged),
         UNCHANGED <<lsqHead, lsqCount, genCtr, mem, archVars, ops, mode>>
  PROVE  MemInv'
<1> USE DEF MemInv
<1>1. PICK k, s, r :
        /\ k \in PortCandidates(flagged) /\ s = Slot(k)
        /\ r = [isStore |-> FALSE, slot |-> s, tag |-> Nth(k).gen, acc |-> Nth(k).acc,
                id |-> Nth(k).id, performed |-> FALSE, val |-> <<>>]
        /\ port' = Append(port, r) /\ Len(port) < PortCap
        /\ lsq' = [Completed(flagged) EXCEPT ![s].issued = TRUE]
  BY DEF SendLoad, CanAccept
<1>2. /\ UNCHANGED sbVars /\ UNCHANGED <<lsqHead, lsqCount, genCtr, arch, ops, mode>>
      /\ UNCHANGED <<mem, arch>>
  BY DEF SendLoad, archVars
<1>3. PICK c, n : c = Completed(flagged) /\ n = Len(port) + 1
  OBVIOUS
<1>4. /\ k \in Ages /\ s \in LsqSlots /\ Nth(k) = lsq[s] /\ Nth(k) \in LsqEntries
      /\ k \in Candidates /\ AddrValid(k) /\ ~Fault(k)
      /\ Nth(k).acc \in Accesses /\ ~Faulty(Nth(k).acc)
  <2>1. k \in Candidates /\ k \in Ages /\ AddrValid(k) /\ ~Fault(k)
    BY <1>1 DEF PortCandidates, Visited, Candidates, Goes, Searches
  <2> QED BY <1>1, <2>1, QueueTypes, AddressTypes DEF Fault
<1>5. r \in Requests
  <2>1. PICK q \in LsqEntries : q = Nth(k)
    BY <1>4
  <2>2. q.gen \in Nat /\ q.id \in OpIds /\ s \in Nat /\ <<>> \in Vals
    <3>1. q.gen \in 0 .. GenMod - 1 /\ q.id \in OpIds
      BY DEF LsqEntries
    <3> QED BY <1>4, <3>1, MemOrderAssumption DEF LsqSlots, Vals
  <2> QED BY <1>1, <1>4, <2>1, <2>2 DEF Requests
<1>6. /\ PortShape' /\ n \in Nat /\ 1 .. Len(port) = 1 .. n - 1 /\ 1 .. Len(port') = 1 .. n
      /\ \A i \in 1 .. n - 1 : port'[i] = port[i]
      /\ port'[n] = r
  BY <1>1, <1>3, <1>5, PortAppended
<1>7. StoreRequests' = StoreRequests /\ LoadRequests' = LoadRequests \cup {n}
      /\ n \notin LoadRequests
  <2>1. ~r.isStore
    BY <1>1
  <2>2. 1 .. n = (1 .. n - 1) \cup {n} /\ n \notin 1 .. n - 1 /\ n \in 1 .. n
    <3>1. \A i \in 1 .. n : i \in 1 .. n - 1 \/ i = n
      BY <1>6
    <3>2. n \in 1 .. n
      BY <1>3, <1>6 DEF PortShape
    <3> QED BY <1>6, <3>1, <3>2
  <2> QED BY <1>6, <2>1, <2>2 DEF StoreRequests, LoadRequests
<1>8. /\ BufferShape' /\ MemShape' /\ BufferRight' /\ StoresInPort' /\ MemoryRight'
      /\ \A b : Writers(b)' = Writers(b)
  <2>1. \A i \in StoreRequests : port'[i] = port[i]
    BY <1>6 DEF StoreRequests
  <2>2. \A i1, i2 \in StoreRequests' : i1 < i2 => port'[i1].tag < port'[i2].tag
    BY <1>7, <2>1 DEF StoresInPort
  <2> QED BY <1>2, <1>7, <2>1, <2>2, StoresCarry
<1>9. /\ c \in [LsqSlots -> LsqEntries] /\ lsq'[s] = [c[s] EXCEPT !.issued = TRUE]
      /\ \A t \in LsqSlots : t # s => lsq'[t] = c[t]
      /\ lsq' \in [LsqSlots -> LsqEntries]
  <2>1. c \in [LsqSlots -> LsqEntries]
    BY <1>3, WalkIs
  <2>2. [c[s] EXCEPT !.issued = TRUE] \in LsqEntries
    BY <1>4, <2>1 DEF LsqEntries
  <2> QED BY <1>1, <1>3, <1>4, <2>1, <2>2
<1>10. \A i \in LoadRequests' : port'[i].performed => \E m \in LoadRequests : port[m] = port'[i]
  <2>1. ~r.performed
    BY <1>1
  <2> QED BY <1>6, <1>7, <2>1 DEF LoadRequests
<1>11. /\ QueueShape' /\ EntriesRight' /\ NeverPassesUnknownStore' /\ LoadsRight'
       /\ \A t \in LsqSlots :
            /\ lsq'[t].id = lsq[t].id /\ lsq'[t].acc = lsq[t].acc /\ lsq'[t].gen = lsq[t].gen
            /\ lsq[t].issued => lsq'[t].issued
       /\ \A j \in Pending' : j \in Ages /\ (j \in Pending \/ j \in {k})
       /\ \A j : Slot(j)' = Slot(j)
  <2>0. PICK I : I = {k}
    OBVIOUS
  <2>1. I \subseteq PortCandidates(flagged)
    BY <1>1, <2>0
  <2>2. \A j \in I : lsq'[Slot(j)] = [c[Slot(j)] EXCEPT !.issued = TRUE]
    BY <1>1, <1>9, <2>0
  <2>3. \A t \in LsqSlots : (\A j \in I : t # Slot(j)) => lsq'[t] = c[t]
    BY <1>1, <1>9, <2>0
  <2>4. UNCHANGED <<lsqHead, lsqCount, genCtr, arch, ops, mode>>
    BY <1>2
  <2>5. lsq' \in [LsqSlots -> LsqEntries] /\ c = Completed(flagged)
    BY <1>3, <1>9
  <2>6. \A b : Writers(b)' = Writers(b)
    BY <1>8
  <2>7. MemInv
    OBVIOUS
  <2> HIDE DEF MemInv
  <2>8. WalkOutcome(I)
    BY <1>10, <2>1, <2>2, <2>3, <2>4, <2>5, <2>6, <2>7, WalkKeeps
  <2> QED BY <2>0, <2>8 DEF WalkOutcome
<1>12. LoadsInPort'
  <2>1. ASSUME NEW i \in LoadRequests' PROVE LoadRequestRight(i)'
    <3>1. CASE i = n
      <4>1. /\ port'[n].slot = s /\ port'[n].tag = lsq[s].gen /\ port'[n].acc = lsq[s].acc
            /\ port'[n].id = lsq[s].id /\ ~port'[n].performed
        BY <1>1, <1>4, <1>6
      <4>2. lsq[s].gen = genCtr[s] /\ genCtr[s] \in Int
        BY <1>4 DEF EntriesRight, EntryRight, QueueShape
      <4>3. lsq'[s].issued
        BY <1>4, <1>9 DEF LsqEntries
      <4> QED BY <1>2, <1>4, <1>11, <3>1, <4>1, <4>2, <4>3 DEF LoadRequestRight, LsqSlots
    <3>2. CASE i # n
      <4>1. i \in LoadRequests /\ port'[i] = port[i]
        BY <1>6, <1>7, <3>2 DEF LoadRequests
      <4> QED BY <1>2, <1>11, <4>1, RequestCarries DEF LoadsInPort
    <3> QED BY <3>1, <3>2
  <2>2. ASSUME NEW j \in Pending' PROVE \E i \in LoadRequests' : LoadAsks(i, j)'
    <3>1. j \in Ages /\ Nth(j)'.gen = Nth(j).gen
      BY <1>11, QueueTypes DEF Nth
    <3>2. CASE j = k
      <4>1. port'[n].slot = Slot(j) /\ port'[n].tag = Nth(j).gen
        BY <1>1, <1>6, <3>2
      <4> QED BY <1>7, <1>11, <3>1, <4>1 DEF LoadAsks
    <3>3. CASE j # k
      <4>1. PICK i \in LoadRequests : LoadAsks(i, j)
        BY <1>11, <3>3 DEF LoadsInPort
      <4>2. port'[i] = port[i] /\ i \in LoadRequests'
        BY <1>6, <1>7 DEF LoadRequests
      <4> QED BY <1>11, <3>1, <4>1, <4>2 DEF LoadAsks
    <3> QED BY <3>2, <3>3
  <2> QED BY <2>1, <2>2 DEF LoadsInPort
<1> QED BY <1>6, <1>8, <1>11, <1>12

LEMMA SendStoreKeeps ==
  ASSUME MemInv, NEW flagged, SendStore(flagged),
         UNCHANGED <<lsqHead, lsqCount, genCtr, mem, archVars, ops, mode>>
  PROVE  MemInv'
<1> USE DEF MemInv
<1>1. PICK n, s, t, r :
        /\ n = sbIssued /\ s = SbSlot(n) /\ t = sbTxnCtr
        /\ r = [isStore |-> TRUE, slot |-> s, tag |-> t, acc |-> sb[s].acc,
                id |-> sb[s].id, performed |-> FALSE, val |-> <<>>]
        /\ port' = Append(port, r) /\ Len(port) < PortCap
        /\ n < sbCount
        /\ sb' = [sb EXCEPT ![s].txn = t, ![s].inflight = TRUE]
        /\ sbTxnCtr' = t + 1 /\ sbIssued' = n + 1
  BY DEF SendStore, StoreGoesFirst, StoreWaiting, CanAccept
<1>2. /\ UNCHANGED <<lsqHead, lsqCount, genCtr, arch, ops, mode>>
      /\ UNCHANGED <<mem, arch, sbHead, sbCount>> /\ lsq' = Completed(flagged)
  BY DEF SendStore, archVars
<1>3. PICK c, m : c = Completed(flagged) /\ m = Len(port) + 1
  OBVIOUS
<1>4. /\ n \in Nat /\ t \in Nat /\ n \in SbAges /\ s \in SbSlots /\ s \in Nat
      /\ SbNth(n) = sb[s] /\ SbNth(n) \in SbEntries
      /\ SbAges = 0 .. sbCount - 1 /\ SbAges' = SbAges /\ sbCount \in Nat
      /\ \A j : SbSlot(j)' = SbSlot(j)
  <2>1. /\ n \in Nat /\ t \in Nat /\ sbCount \in Nat /\ n < sbCount
    BY <1>1, BufferTypes DEF BufferShape
  <2>2. SbAges = 0 .. sbCount - 1 /\ SbAges' = SbAges /\ \A j : SbSlot(j)' = SbSlot(j)
    BY <1>2 DEF SbAges, SbSlot
  <2>3. n \in SbAges
    BY <2>1, <2>2
  <2>4. s \in SbSlots /\ SbNth(n) = sb[s] /\ SbNth(n) \in SbEntries /\ s \in Nat
    BY <1>1, <2>3, BufferTypes
  <2> QED BY <2>1, <2>2, <2>3, <2>4
<1>5. /\ SbNth(n).acc \in Accesses /\ ~SbNth(n).acked /\ SbNth(n).id \in OpIds
  BY <1>1, <1>4 DEF BufferRight, SbEntries
<1>6. r \in Requests /\ r.isStore /\ ~r.performed /\ r.slot = s /\ r.tag = t
      /\ r.acc = SbNth(n).acc /\ r.id = SbNth(n).id
  <2>1. <<>> \in Vals
    BY DEF Vals
  <2> QED BY <1>1, <1>4, <1>5, <2>1 DEF Requests
<1>7. /\ PortShape' /\ m \in Nat /\ 1 .. Len(port) = 1 .. m - 1 /\ 1 .. Len(port') = 1 .. m
      /\ \A i \in 1 .. m - 1 : port'[i] = port[i]
      /\ port'[m] = r /\ m \in 1 .. m
  <2>1. PortShape /\ Len(port) < PortCap /\ port' = Append(port, r)
    BY <1>1
  <2>2. /\ PortShape' /\ m \in Nat /\ 1 .. Len(port) = 1 .. m - 1 /\ 1 .. Len(port') = 1 .. m
        /\ \A i \in 1 .. m - 1 : port'[i] = port[i]
        /\ port'[m] = r
    BY <1>3, <1>6, <2>1, PortAppended
  <2>3. m >= 1
    BY <1>3, PortTypes
  <2> QED BY <2>2, <2>3
<1>8. /\ StoreRequests' = StoreRequests \cup {m} /\ LoadRequests' = LoadRequests
      /\ \A i \in StoreRequests : i < m /\ port'[i] = port[i]
      /\ \A i \in LoadRequests : port'[i] = port[i]
  <2>1. 1 .. m = (1 .. m - 1) \cup {m} /\ m \notin 1 .. m - 1 /\ \A i \in 1 .. m - 1 : i < m
    BY <1>7
  <2> QED BY <1>6, <1>7, <2>1 DEF StoreRequests, LoadRequests
<1>9. /\ sb' \in [SbSlots -> SbEntries]
      /\ SbNth(n)' = [SbNth(n) EXCEPT !.txn = t, !.inflight = TRUE]
      /\ \A j \in SbAges : j # n => SbNth(j)' = SbNth(j)
  <2>1. sb' = [sb EXCEPT ![s] = [sb[s] EXCEPT !.txn = t, !.inflight = TRUE]]
    BY <1>1, <1>4 DEF BufferShape, SbEntries
  <2>2. [sb[s] EXCEPT !.txn = t, !.inflight = TRUE] \in SbEntries
    BY <1>4 DEF SbEntries
  <2>3. sb' \in [SbSlots -> SbEntries]
    BY <2>1, <2>2, <1>4 DEF BufferShape
  <2>4. SbNth(n)' = [SbNth(n) EXCEPT !.txn = t, !.inflight = TRUE]
    BY <1>1, <1>4, <2>1 DEF SbNth, BufferShape
  <2>5. ASSUME NEW j \in SbAges, j # n PROVE SbNth(j)' = SbNth(j)
    <3>1. SbSlot(j) # s /\ SbSlot(j) \in SbSlots
      BY <1>1, <1>4, <2>5, BufferTypes
    <3> QED BY <1>4, <2>1, <3>1 DEF SbNth, BufferShape
  <2> QED BY <2>3, <2>4, <2>5
<1>10. \A j \in SbAges :
         SbNth(j)'.acc = SbNth(j).acc /\ SbNth(j)'.id = SbNth(j).id /\ SbNth(j)'.acked = SbNth(j).acked
  BY <1>4, <1>9 DEF SbEntries
<1>11. SbNth(n)'.txn = t /\ SbNth(n)'.inflight
  BY <1>4, <1>9 DEF SbEntries
<1>12. BufferShape' /\ MemShape'
  BY <1>1, <1>2, <1>4, <1>9 DEF BufferShape, MemShape, SbSlots
<1>13. BufferRight'
  <2> SUFFICES ASSUME NEW j \in SbAges
               PROVE  /\ SbNth(j)'.acc \in Accesses /\ ~Faulty(SbNth(j)'.acc)
                      /\ SbNth(j)'.inflight <=> j < n + 1
                      /\ SbNth(j)'.acked => j < n + 1
                      /\ j < n + 1 => /\ SbNth(j)'.txn < t + 1
                                      /\ \A i \in 0 .. j - 1 : SbNth(i)'.txn < SbNth(j)'.txn
    BY <1>1, <1>4 DEF BufferRight
  <2>1. SbNth(j)'.acc \in Accesses /\ ~Faulty(SbNth(j)'.acc)
    BY <1>10 DEF BufferRight
  <2>2. \A i \in 0 .. n - 1 : i \in SbAges /\ i # n /\ SbNth(i)' = SbNth(i) /\ SbNth(i).txn < t
                              /\ SbNth(i).txn \in Nat
    <3>1. \A i \in 0 .. n - 1 : i \in SbAges /\ i # n /\ i < n
      BY <1>1, <1>4
    <3>2. \A i \in SbAges : SbNth(i).txn \in Nat
      BY BufferTypes DEF SbEntries
    <3> QED BY <1>1, <1>9, <3>1, <3>2 DEF BufferRight
  <2>3. CASE j = n
    BY <1>4, <1>11, <2>1, <2>2, <2>3
  <2>4. CASE j # n
    <3>1. SbNth(j)' = SbNth(j) /\ j \in Nat
      BY <1>4, <1>9, <2>4
    <3>2. j < n + 1 => j \in 0 .. n - 1 /\ \A i \in 0 .. j - 1 : i \in 0 .. n - 1
      BY <1>4, <2>4, <3>1
    <3>3. (SbNth(j).inflight <=> j < n) /\ (SbNth(j).acked => j < n)
      BY <1>1 DEF BufferRight
    <3>4. j < n => \A i \in 0 .. j - 1 : SbNth(i).txn < SbNth(j).txn
      BY <1>1 DEF BufferRight
    <3>5. j < n <=> j < n + 1
      BY <1>4, <2>4, <3>1
    <3>6. j < n + 1 => \A i \in 0 .. j - 1 : SbNth(i)'.txn < SbNth(j)'.txn
      BY <2>2, <3>1, <3>2, <3>4, <3>5
    <3>7. j < n + 1 => SbNth(j)'.txn < t + 1
      BY <1>4, <2>2, <3>2
    <3> QED BY <2>1, <3>1, <3>3, <3>5, <3>6, <3>7
  <2> QED BY <2>3, <2>4
<1>14. StoresInPort'
  <2>1. ASSUME NEW i \in StoreRequests, NEW j \in 0 .. n - 1, StoreAsks(i, j) PROVE StoreAsks(i, j)'
    <3>1. j \in SbAges /\ j # n
      BY <1>1, <1>4
    <3> QED BY <1>4, <1>8, <1>9, <2>1, <3>1 DEF StoreAsks
  <2>2. StoreAsks(m, n)'
    BY <1>1, <1>4, <1>5, <1>6, <1>7, <1>10, <1>11 DEF StoreAsks
  <2>3. n \in 0 .. n /\ \A j \in 0 .. n - 1 : j \in 0 .. n
    BY <1>4
  <2>4. \A i \in StoreRequests' : \E j \in 0 .. n : StoreAsks(i, j)'
    BY <1>1, <1>8, <2>1, <2>2, <2>3 DEF StoresInPort
  <2>5. ASSUME NEW i \in StoreRequests PROVE port[i].tag < t
    <3>1. PICK j \in 0 .. n - 1 : StoreAsks(i, j)
      BY <1>1 DEF StoresInPort
    <3>2. j \in SbAges /\ j < n
      BY <1>1, <1>4
    <3> QED BY <1>1, <3>1, <3>2 DEF StoreAsks, BufferRight
  <2>6. ASSUME NEW i1 \in StoreRequests', NEW i2 \in StoreRequests', i1 < i2
        PROVE  port'[i1].tag < port'[i2].tag
    <3>1. i1 # m \/ i2 # m
      BY <1>7, <2>6
    <3>2. i1 \in StoreRequests
      <4>1. i2 < m \/ i2 = m
        BY <1>8
      <4>2. i2 \in Nat /\ i1 \in Nat
        BY <1>7 DEF StoreRequests
      <4>3. i1 # m
        BY <1>7, <2>6, <4>1, <4>2
      <4> QED BY <1>8, <4>3
    <3>3. CASE i2 = m
      BY <1>6, <1>7, <1>8, <2>5, <3>2, <3>3
    <3>4. CASE i2 # m
      BY <1>8, <2>6, <3>2, <3>4 DEF StoresInPort
    <3> QED BY <3>3, <3>4
  <2>7. ASSUME NEW j \in 0 .. n PROVE SbNth(j)'.acked \/ \E i \in StoreRequests' : StoreAsks(i, j)'
    <3>1. CASE j = n
      BY <1>8, <2>2, <3>1
    <3>2. CASE j # n
      <4>1. j \in 0 .. n - 1 /\ j \in SbAges
        BY <1>1, <1>4, <3>2
      <4> QED BY <1>1, <1>8, <1>10, <2>1, <4>1 DEF StoresInPort
    <3> QED BY <3>1, <3>2
  <2>8. 0 .. sbIssued' - 1 = 0 .. n
    BY <1>1, <1>4
  <2> QED BY <2>4, <2>6, <2>7, <2>8 DEF StoresInPort
<1>15. MemoryRight' /\ \A b : Writers(b)' = Writers(b)
  <2>1. \A b : Writers(b)' = Writers(b)
    BY <1>4, <1>10 DEF Writers
  <2>2. \A j \in SbAges : Performed(j)' <=> Performed(j)
    BY <1>4, <1>6, <1>7, <1>8, <1>10 DEF Performed
  <2>3. \A b : Writers(b) \subseteq SbAges
    BY DEF Writers
  <2>4. ASSUME NEW b \in Bytes PROVE ByteRight(b)'
    <3>1. ByteRight(b)
      BY DEF MemoryRight
    <3>2. \A j \in Writers(b) : SbNth(j)'.id = SbNth(j).id /\ (Performed(j)' <=> Performed(j))
      BY <1>10, <2>2, <2>3
    <3> QED BY <1>2, <2>1, <3>1, <3>2 DEF ByteRight
  <2>5. Bytes' = Bytes
    BY DEF Bytes
  <2> QED BY <2>1, <2>4, <2>5 DEF MemoryRight
<1>16. \A i \in LoadRequests' : port'[i].performed => \E i2 \in LoadRequests : port[i2] = port'[i]
  BY <1>8
<1>17. lsq' \in [LsqSlots -> LsqEntries]
  BY <1>2, <1>3, WalkIs
<1>18. /\ QueueShape' /\ EntriesRight' /\ NeverPassesUnknownStore' /\ LoadsRight'
       /\ \A q \in LsqSlots :
            /\ lsq'[q].id = lsq[q].id /\ lsq'[q].acc = lsq[q].acc /\ lsq'[q].gen = lsq[q].gen
            /\ lsq[q].issued => lsq'[q].issued
       /\ \A k \in Pending' : k \in Ages /\ (k \in Pending \/ k \in {})
       /\ \A k : Slot(k)' = Slot(k)
  <2>1. {} \subseteq PortCandidates(flagged)
    OBVIOUS
  <2>2. /\ \A k \in {} : lsq'[Slot(k)] = [c[Slot(k)] EXCEPT !.issued = TRUE]
        /\ \A q \in LsqSlots : (\A k \in {} : q # Slot(k)) => lsq'[q] = c[q]
    BY <1>2, <1>3
  <2>3. UNCHANGED <<lsqHead, lsqCount, genCtr, arch, ops, mode>>
    BY <1>2
  <2>4. c = Completed(flagged) /\ \A b : Writers(b)' = Writers(b)
    BY <1>3, <1>15
  <2>5. MemInv
    OBVIOUS
  <2> HIDE DEF MemInv
  <2>6. WalkOutcome({})
    BY <1>16, <1>17, <2>1, <2>2, <2>3, <2>4, <2>5, WalkKeeps
  <2> QED BY <2>6 DEF WalkOutcome
<1>19. LoadsInPort'
  <2>1. \A i \in LoadRequests' : LoadRequestRight(i)'
    BY <1>2, <1>8, <1>18, RequestCarries DEF LoadsInPort
  <2>2. ASSUME NEW k \in Pending' PROVE \E i \in LoadRequests' : LoadAsks(i, k)'
    <3>1. k \in Ages /\ k \in Pending
      BY <1>18
    <3>2. PICK i \in LoadRequests : LoadAsks(i, k)
      BY <3>1 DEF LoadsInPort
    <3>3. Nth(k)'.gen = Nth(k).gen
      BY <1>18, <3>1, QueueTypes DEF Nth
    <3> QED BY <1>8, <1>18, <3>2, <3>3 DEF LoadAsks
  <2> QED BY <2>1, <2>2 DEF LoadsInPort
<1> QED BY <1>7, <1>12, <1>13, <1>14, <1>15, <1>18, <1>19

LEMMA MemAccessKeeps ==
  ASSUME MemInv, MemAccess
  PROVE  MemInv'
BY NoSendKeeps, SendStoreKeeps, SendLoadKeeps DEF MemAccess
-----------------------------------------------------------------------------
(* The data port performs a request and answers it *)

LEMMA PortMarked ==
  ASSUME PortShape, NEW i \in 1 .. Len(port), NEW q \in Requests,
         port' = [port EXCEPT ![i] = q]
  PROVE  /\ PortShape' /\ Len(port') = Len(port) /\ port'[i] = q
         /\ \A j \in 1 .. Len(port) : j # i => port'[j] = port[j]
<1>1. /\ port' \in Seq(Requests) /\ Len(port') = Len(port)
      /\ \A j \in 1 .. Len(port) : port'[j] = IF j = i THEN q ELSE port[j]
  BY ExceptSeq DEF PortShape
<1> QED BY <1>1 DEF PortShape

(* A load reads bytes that no buffered store still has to write, so memory *)
(* as the port has it is memory as committed.                              *)
LEMMA PerformLoadKeeps ==
  ASSUME MemInv, NEW i \in 1 .. Len(port), PortPerform(i), ~port[i].isStore
  PROVE  MemInv'
<1> USE DEF MemInv
<1>1. PICK r, v, q :
        /\ r = port[i] /\ v = [b \in BytesOf(r.acc) |-> mem[b]]
        /\ q = [r EXCEPT !.performed = TRUE, !.val = v]
        /\ port' = [port EXCEPT ![i].performed = TRUE, ![i].val = v]
        /\ ~r.performed /\ ~r.isStore
  BY DEF PortPerform
<1>2. /\ UNCHANGED <<lsqVars, ops, mode>> /\ UNCHANGED <<sbVars, mem, arch>>
      /\ UNCHANGED <<lsq, genCtr>>
  BY <1>1 DEF PortPerform, lsqVars, archVars
<1>3. r \in Requests /\ i \in LoadRequests /\ LoadRequestRight(i) /\ r.acc \in Accesses
      /\ BytesOf(r.acc) \subseteq Bytes
  <2>1. r \in Requests /\ i \in LoadRequests /\ LoadRequestRight(i)
    BY <1>1, PortTypes DEF LoadRequests, LoadsInPort
  <2>2. r.acc \in Accesses /\ ~Faulty(r.acc)
    BY <1>1, <2>1 DEF Requests, LoadRequestRight
  <2> QED BY <2>1, <2>2, AccessBytes
<1>4. v \in [BytesOf(r.acc) -> OpIds] /\ v \in Vals
  BY <1>1, <1>3 DEF MemShape, Vals
<1>5. /\ q \in Requests /\ q.isStore = r.isStore /\ q.slot = r.slot /\ q.tag = r.tag
      /\ q.acc = r.acc /\ q.id = r.id /\ q.val = v /\ ~q.isStore
  BY <1>1, <1>3, <1>4 DEF Requests
<1>6. port' = [port EXCEPT ![i] = q]
  BY <1>1, <1>3 DEF Requests, PortShape
<1>7. /\ PortShape' /\ Len(port') = Len(port) /\ port'[i] = q
      /\ \A j \in 1 .. Len(port) : j # i => port'[j] = port[j]
  BY <1>5, <1>6, PortMarked
<1>8. /\ StoreRequests' = StoreRequests /\ LoadRequests' = LoadRequests
      /\ \A j \in StoreRequests : port'[j] = port[j]
  <2>1. \A j \in 1 .. Len(port) : port'[j].isStore = port[j].isStore
    BY <1>1, <1>5, <1>7
  <2>2. StoreRequests' = StoreRequests /\ LoadRequests' = LoadRequests
    BY <1>7, <2>1 DEF StoreRequests, LoadRequests
  <2>3. \A j \in StoreRequests : j # i /\ j \in 1 .. Len(port)
    BY <1>1 DEF StoreRequests
  <2> QED BY <1>7, <2>2, <2>3
<1>9. /\ BufferShape' /\ MemShape' /\ BufferRight' /\ StoresInPort' /\ MemoryRight'
      /\ \A b : Writers(b)' = Writers(b)
  <2>1. /\ \A j \in StoreRequests' : \E m \in StoreRequests : port'[j] = port[m]
        /\ \A m \in StoreRequests : \E j \in StoreRequests' : port'[j] = port[m]
    BY <1>8
  <2>2. \A i1, i2 \in StoreRequests' : i1 < i2 => port'[i1].tag < port'[i2].tag
    BY <1>8 DEF StoresInPort
  <2>3. UNCHANGED <<sbVars, mem, arch>>
    BY <1>2
  <2> QED BY <2>1, <2>2, <2>3, StoresCarry
<1>10. /\ QueueShape' /\ EntriesRight' /\ Ages' = Ages
       /\ \A k : Slot(k)' = Slot(k) /\ Nth(k)' = Nth(k)
       /\ AccessedLoads' = AccessedLoads /\ Pending' = Pending /\ KnownStores' = KnownStores
       /\ NeverPassesUnknownStore'
  BY <1>2, QueueStill
<1>11. LoadsInPort'
  <2>1. ASSUME NEW j \in LoadRequests PROVE LoadRequestRight(j)'
    <3>1. LoadRequestRight(j)
      BY DEF LoadsInPort
    <3>2. CASE j # i
      <4>1. port'[j] = port[j]
        BY <1>7, <3>2 DEF LoadRequests
      <4> QED BY <1>2, <3>1, <4>1, RequestCarries
    <3>3. CASE j = i
      BY <1>1, <1>2, <1>3, <1>4, <1>5, <1>7, <3>3 DEF LoadRequestRight, LsqSlots
    <3> QED BY <3>2, <3>3
  <2>2. ASSUME NEW k \in Pending PROVE \E j \in LoadRequests : LoadAsks(j, k)'
    <3>1. PICK j \in LoadRequests : LoadAsks(j, k)
      BY DEF LoadsInPort
    <3>2. port'[j].slot = port[j].slot /\ port'[j].tag = port[j].tag
      BY <1>1, <1>5, <1>7 DEF LoadRequests
    <3> QED BY <1>10, <3>1, <3>2 DEF LoadAsks
  <2> QED BY <1>8, <1>10, <2>1, <2>2 DEF LoadsInPort
<1>12. LoadsRight'
  <2> SUFFICES ASSUME NEW k \in AccessedLoads, ~Fault(k)', Clean(k)' PROVE LoadRight(k)'
    BY <1>10 DEF LoadsRight
  <2>1. ~Fault(k) /\ \A j : Fault(j)' <=> Fault(j)
    BY <1>10 DEF Fault, AddrValid
  <2>2. LoadRight(k)
    BY <1>10, <2>1 DEF LoadsRight, Clean
  <2>3. \A j, b : Writes(j, b)' <=> Writes(j, b)
    BY <1>10 DEF Writes
  <2>4. Nth(k).issued => \A j \in 0 .. k - 1 : \A b \in BytesOf(Nth(k).acc) : ~Writes(j, b)'
    BY <2>2, <2>3 DEF LoadRight
  <2>5. Nth(k).done => ValueRight(k)'
    BY <1>2, <1>10, <2>2, <2>3 DEF LoadRight, ValueRight, OrderedValue
  <2>6. ASSUME ~Nth(k).done, NEW j \in LoadRequests, LoadAsks(j, k)', port'[j].performed
        PROVE  port'[j].val = [b \in BytesOf(Nth(k).acc) |-> arch[b]]
    <3>1. CASE j # i
      <4>1. port'[j] = port[j]
        BY <1>7, <3>1 DEF LoadRequests
      <4>2. LoadAsks(j, k)
        BY <1>10, <2>6, <4>1 DEF LoadAsks
      <4> QED BY <2>2, <2>6, <4>1, <4>2 DEF LoadRight
    <3>2. CASE j = i
      <4>1. k \in Ages /\ Slot(k) \in LsqSlots /\ Nth(k) = lsq[Slot(k)]
        BY QueueTypes DEF AccessedLoads
      <4>2. r.slot = Slot(k) /\ r.tag = Nth(k).gen
        BY <1>5, <1>7, <1>10, <2>6, <3>2 DEF LoadAsks
      <4>3. r.tag = genCtr[r.slot]
        BY <4>1, <4>2 DEF EntriesRight, EntryRight
      <4>4. Nth(k).acc = r.acc
        BY <1>1, <1>3, <4>1, <4>2, <4>3 DEF LoadRequestRight
      <4>5. ASSUME NEW b \in BytesOf(r.acc) PROVE mem[b] = arch[b]
        <5>1. Writers(b) = {} /\ b \in Bytes
          BY <1>3, <2>2, <2>6, <4>4 DEF LoadRight
        <5> QED BY <5>1 DEF MemoryRight, ByteRight
      <4>6. [b \in BytesOf(r.acc) |-> mem[b]] = [b \in BytesOf(r.acc) |-> arch[b]]
        BY <4>5
      <4> QED BY <1>1, <1>5, <1>7, <3>2, <4>4, <4>6
    <3> QED BY <3>1, <3>2
  <2>7. ~Nth(k).done => \A b \in BytesOf(Nth(k).acc) : Writers(b)' = {}
    BY <1>9, <2>2 DEF LoadRight
  <2> QED BY <1>2, <1>8, <1>10, <2>4, <2>5, <2>6, <2>7 DEF LoadRight
<1> QED BY <1>7, <1>9, <1>10, <1>11, <1>12

(* The store buffer entry a store request answers to, and no other request *)
(* for that entry.                                                         *)
LEMMA StoreOwner ==
  ASSUME BufferShape, PortShape, BufferRight, StoresInPort, NEW i \in StoreRequests
  PROVE  \E w \in 0 .. sbIssued - 1 :
           /\ w \in SbAges /\ StoreAsks(i, w)
           /\ \A j \in StoreRequests : port[j].slot = port[i].slot => j = i
           /\ \A x \in SbAges : SbSlot(x) = port[i].slot => x = w
<1>1. PICK w \in 0 .. sbIssued - 1 : StoreAsks(i, w)
  BY DEF StoresInPort
<1>2. /\ SbAges = 0 .. sbCount - 1 /\ sbIssued \in Nat /\ sbCount \in Nat
      /\ sbIssued <= sbCount
  BY BufferTypes DEF SbAges
<1>3. \A x \in 0 .. sbIssued - 1 : x \in SbAges
  BY <1>2
<1>4. \A x, y \in SbAges : SbSlot(x) = SbSlot(y) => x = y
  BY BufferTypes
<1>5. ASSUME NEW j \in StoreRequests, port[j].slot = port[i].slot PROVE j = i
  <2>1. PICK x \in 0 .. sbIssued - 1 : StoreAsks(j, x)
    BY DEF StoresInPort
  <2>2. x = w
    BY <1>1, <1>3, <1>4, <1>5, <2>1 DEF StoreAsks
  <2>3. port[j].tag = port[i].tag /\ port[i].tag \in Nat
    BY <1>1, <2>1, <2>2, PortTypes DEF StoreAsks, StoreRequests, Requests
  <2>4. i \in Nat /\ j \in Nat
    BY DEF StoreRequests
  <2>5. ~(i < j) /\ ~(j < i)
    BY <2>3 DEF StoresInPort
  <2> QED BY <2>4, <2>5
<1> QED BY <1>1, <1>3, <1>4, <1>5 DEF StoreAsks

(* Requests that share a byte are performed in the order they entered the  *)
(* port, which is the age order of their entries.                          *)
LEMMA PerformStoreKeeps ==
  ASSUME MemInv, NEW i \in 1 .. Len(port), PortPerform(i), port[i].isStore
  PROVE  MemInv'
<1> USE DEF MemInv
<1>1. PICK r, q :
        /\ r = port[i] /\ q = [r EXCEPT !.performed = TRUE]
        /\ port' = [port EXCEPT ![i].performed = TRUE]
        /\ mem' = [b \in Bytes |-> IF b \in BytesOf(r.acc) THEN r.id ELSE mem[b]]
        /\ ~r.performed /\ r.isStore
        /\ \A j \in 1 .. i - 1 : Overlaps(port[j].acc, r.acc) => port[j].performed
  BY DEF PortPerform
<1>2. /\ UNCHANGED <<lsqVars, ops, mode>> /\ UNCHANGED <<arch, lsq, genCtr>>
      /\ UNCHANGED <<sb, sbHead, sbCount, sbIssued, sbTxnCtr>>
  BY <1>1 DEF PortPerform, lsqVars, archVars, sbVars
<1>3. r \in Requests /\ i \in StoreRequests /\ r.acc \in Accesses /\ r.id \in OpIds
  BY <1>1, PortTypes DEF StoreRequests, Requests
<1>4. /\ q \in Requests /\ q.isStore = r.isStore /\ q.slot = r.slot /\ q.tag = r.tag
      /\ q.acc = r.acc /\ q.id = r.id /\ q.performed /\ q.isStore
  BY <1>1, <1>3 DEF Requests
<1>5. port' = [port EXCEPT ![i] = q]
  BY <1>1, <1>3 DEF Requests, PortShape
<1>6. /\ PortShape' /\ Len(port') = Len(port) /\ port'[i] = q
      /\ \A j \in 1 .. Len(port) : j # i => port'[j] = port[j]
  BY <1>4, <1>5, PortMarked
<1>7. /\ StoreRequests' = StoreRequests /\ LoadRequests' = LoadRequests
      /\ \A j \in LoadRequests : port'[j] = port[j]
      /\ \A j \in StoreRequests : /\ port'[j].slot = port[j].slot /\ port'[j].tag = port[j].tag
                                  /\ port'[j].acc = port[j].acc /\ port'[j].id = port[j].id
                                  /\ port'[j].performed <=> (port[j].performed \/ j = i)
  <2>1. \A j \in 1 .. Len(port) : port'[j].isStore = port[j].isStore
    BY <1>1, <1>4, <1>6
  <2>2. StoreRequests' = StoreRequests /\ LoadRequests' = LoadRequests
    BY <1>6, <2>1 DEF StoreRequests, LoadRequests
  <2>3. \A j \in LoadRequests : j # i /\ j \in 1 .. Len(port)
    BY <1>1 DEF LoadRequests
  <2>4. \A j \in StoreRequests : j \in 1 .. Len(port)
    BY DEF StoreRequests
  <2>5. \A j \in StoreRequests : j # i => port'[j] = port[j]
    BY <1>6, <2>4
  <2>6. \A j \in LoadRequests : port'[j] = port[j]
    BY <1>6, <2>3
  <2> QED BY <1>1, <1>4, <1>6, <2>2, <2>5, <2>6
<1>8. /\ SbAges' = SbAges /\ \A j : SbSlot(j)' = SbSlot(j) /\ SbNth(j)' = SbNth(j)
  BY <1>2 DEF SbAges, SbSlot, SbNth
<1>9. BufferShape' /\ BufferRight' /\ MemShape'
  <2>1. BufferShape' /\ BufferRight'
    BY <1>2, <1>8 DEF BufferShape, BufferRight
  <2>2. mem' \in [Bytes -> OpIds]
    BY <1>1, <1>3 DEF MemShape
  <2> QED BY <1>2, <2>1, <2>2 DEF MemShape, Bytes, OpIds
<1>10. StoresInPort'
  <2>1. \A j \in StoreRequests : \A x : StoreAsks(j, x)' <=> StoreAsks(j, x)
    BY <1>7, <1>8 DEF StoreAsks
  <2> QED BY <1>2, <1>7, <1>8, <2>1 DEF StoresInPort
<1>11. PICK w \in 0 .. sbIssued - 1 :
         /\ w \in SbAges /\ StoreAsks(i, w)
         /\ \A j \in StoreRequests : port[j].slot = r.slot => j = i
         /\ \A x \in SbAges : SbSlot(x) = r.slot => x = w
  BY <1>1, <1>3, StoreOwner
<1>12. /\ r.slot = SbSlot(w) /\ r.tag = SbNth(w).txn /\ ~SbNth(w).acked
       /\ r.acc = SbNth(w).acc /\ r.id = SbNth(w).id
  BY <1>1, <1>11 DEF StoreAsks
<1>13. ~Performed(w)
  BY <1>1, <1>11, <1>12 DEF Performed
<1>14. \A j \in SbAges : Performed(j)' <=> (Performed(j) \/ j = w)
  BY <1>3, <1>7, <1>8, <1>11, <1>12, <1>1 DEF Performed
<1>15. \A b : Writers(b)' = Writers(b)
  BY <1>8 DEF Writers
<1>16. ASSUME NEW b, b \in BytesOf(r.acc), NEW x \in Writers(b), x < w PROVE Performed(x)
  <2>1. x \in SbAges /\ b \in BytesOf(SbNth(x).acc) /\ SbNth(x).acc \in Accesses
    BY DEF Writers, BufferRight
  <2>2. x \in 0 .. sbIssued - 1 /\ x \in 0 .. w - 1
    BY <1>16, <2>1, BufferTypes DEF SbAges
  <2>3. CASE SbNth(x).acked
    BY <2>3 DEF Performed
  <2>4. CASE ~SbNth(x).acked
    <3>1. PICK m \in StoreRequests : StoreAsks(m, x)
      BY <2>2, <2>4 DEF StoresInPort
    <3>2. SbNth(x).txn < SbNth(w).txn
      BY <1>11, <2>2, BufferTypes DEF BufferRight
    <3>3. port[m].tag < r.tag
      BY <1>12, <3>1, <3>2 DEF StoreAsks
    <3>4. r.tag \in Nat /\ port[m].tag \in Nat /\ m \in Nat /\ i \in Nat /\ m \in 1 .. Len(port)
      BY <1>3, PortTypes DEF StoreRequests, Requests
    <3>5. ~(i < m) /\ m # i
      <4>1. i < m => r.tag < port[m].tag
        BY <1>1, <1>3 DEF StoresInPort
      <4> QED BY <1>1, <3>3, <3>4, <4>1
    <3>6. m \in 1 .. i - 1
      BY <3>4, <3>5
    <3>7. port[m].acc = SbNth(x).acc
      BY <3>1 DEF StoreAsks
    <3>8. Overlaps(port[m].acc, r.acc)
      BY <1>3, <1>16, <2>1, <3>7, SharedByte
    <3>9. port[m].performed
      BY <1>1, <3>6, <3>8
    <3> QED BY <3>1, <3>9 DEF Performed, StoreAsks
  <2> QED BY <2>3, <2>4
<1>17. MemoryRight'
  <2>1. ASSUME NEW b \in Bytes PROVE ByteRight(b)'
    <3>1. ByteRight(b)
      BY DEF MemoryRight
    <3>2. mem'[b] = IF b \in BytesOf(r.acc) THEN r.id ELSE mem[b]
      BY <1>1
    <3>3. b \in BytesOf(r.acc) <=> w \in Writers(b)
      BY <1>11, <1>12 DEF Writers
    <3>4. \A j \in Writers(b) : j \in SbAges /\ j \in Nat
      BY BufferTypes DEF Writers, SbAges
    <3>5. Writers(b)' = {} => arch'[b] = mem'[b]
      BY <1>2, <1>15, <3>1, <3>2, <3>3 DEF ByteRight
    <3>6. ASSUME NEW j \in Writers(b)
          PROVE  /\ (\A x \in Writers(b) : x <= j) => arch'[b] = SbNth(j)'.id
                 /\ Performed(j)' => \A x \in Writers(b) : x < j => Performed(x)'
                 /\ (Performed(j)' /\ \A x \in Writers(b) : j < x => ~Performed(x)')
                      => mem'[b] = SbNth(j)'.id
      <4>1. (\A x \in Writers(b) : x <= j) => arch'[b] = SbNth(j)'.id
        BY <1>2, <1>8, <3>1 DEF ByteRight
      <4>2. Performed(j)' => \A x \in Writers(b) : x < j => Performed(x)'
        <5>1. CASE j = w
          BY <1>14, <1>16, <3>3, <3>4, <5>1
        <5>2. CASE j # w
          BY <1>14, <3>1, <3>4, <5>2 DEF ByteRight
        <5> QED BY <5>1, <5>2
      <4>3. ASSUME Performed(j)', \A x \in Writers(b) : j < x => ~Performed(x)'
            PROVE  mem'[b] = SbNth(j)'.id
        <5>1. CASE j = w
          BY <1>8, <1>12, <3>2, <3>3, <5>1
        <5>2. CASE j # w
          <6>1. Performed(j) /\ \A x \in Writers(b) : j < x => ~Performed(x)
            BY <1>14, <3>4, <4>3, <5>2
          <6>2. mem[b] = SbNth(j).id
            BY <3>1, <6>1 DEF ByteRight
          <6>3. w \notin Writers(b)
            <7>1. SUFFICES ASSUME w \in Writers(b) PROVE FALSE
              OBVIOUS
            <7>2. ~(j < w)
              BY <1>14, <3>4, <4>3, <7>1
            <7>3. ~(w < j)
              BY <1>13, <3>1, <6>1, <7>1 DEF ByteRight
            <7> QED BY <3>4, <5>2, <7>1, <7>2, <7>3
          <6> QED BY <1>8, <3>2, <3>3, <6>2, <6>3
        <5> QED BY <5>1, <5>2
      <4> QED BY <4>1, <4>2, <4>3
    <3> QED BY <1>15, <3>5, <3>6 DEF ByteRight
  <2> QED BY <2>1 DEF MemoryRight, Bytes
<1>18. /\ QueueShape' /\ EntriesRight' /\ Ages' = Ages
       /\ \A k : Slot(k)' = Slot(k) /\ Nth(k)' = Nth(k)
       /\ AccessedLoads' = AccessedLoads /\ Pending' = Pending
       /\ NeverPassesUnknownStore'
  BY <1>2, QueueStill
<1>19. LoadsInPort'
  <2>1. ASSUME NEW j \in LoadRequests PROVE LoadRequestRight(j)'
    <3>1. LoadRequestRight(j) /\ port'[j] = port[j]
      BY <1>7 DEF LoadsInPort
    <3> QED BY <1>2, <3>1, RequestCarries
  <2>2. ASSUME NEW k \in Pending PROVE \E j \in LoadRequests : LoadAsks(j, k)'
    BY <1>7, <1>18 DEF LoadsInPort, LoadAsks
  <2> QED BY <1>7, <1>18, <2>1, <2>2 DEF LoadsInPort
<1>20. LoadsRight'
  <2> SUFFICES ASSUME NEW k \in AccessedLoads
               PROVE  ~Fault(k)' /\ Clean(k)' => LoadRight(k)'
    BY <1>18 DEF LoadsRight
  <2>1. k \in Ages /\ k \in Ages' /\ k \in AccessedLoads'
    BY <1>18 DEF AccessedLoads
  <2>2. \A j \in LoadRequests' : port'[j].performed => \E m \in LoadRequests : port[m] = port'[j]
    BY <1>7
  <2>3. \A b : Writers(b) = {} => Writers(b)' = {}
    BY <1>15
  <2> QED BY <1>2, <1>18, <2>1, <2>2, <2>3, LoadCarries
<1> QED BY <1>6, <1>9, <1>10, <1>17, <1>18, <1>19, <1>20

(* The requests that stay when one of them is answered.                    *)
LEMMA RequestsLeft ==
  ASSUME PortShape, StoresInPort, NEW i \in 1 .. Len(port), port' = RemoveAt(port, i)
  PROVE  /\ PortShape'
         /\ \A j \in LoadRequests' : \E m \in LoadRequests : m # i /\ port[m] = port'[j]
         /\ \A m \in LoadRequests : m # i => \E j \in LoadRequests' : port'[j] = port[m]
         /\ \A j \in StoreRequests' : \E m \in StoreRequests : m # i /\ port[m] = port'[j]
         /\ \A m \in StoreRequests : m # i => \E j \in StoreRequests' : port'[j] = port[m]
         /\ \A i1, i2 \in StoreRequests' : i1 < i2 => port'[i1].tag < port'[i2].tag
<1>1. /\ PortShape'
      /\ \A j \in 1 .. Len(port') : \E m \in 1 .. Len(port) : m # i /\ port'[j] = port[m]
      /\ \A m \in 1 .. Len(port) : m # i => \E j \in 1 .. Len(port') : port'[j] = port[m]
      /\ \A j1, j2 \in 1 .. Len(port') : j1 < j2 =>
           \E m1, m2 \in 1 .. Len(port) :
             m1 # i /\ m2 # i /\ m1 < m2 /\ port'[j1] = port[m1] /\ port'[j2] = port[m2]
  BY PortAfterResponse
<1>2. /\ \A j \in LoadRequests' : \E m \in LoadRequests : m # i /\ port[m] = port'[j]
      /\ \A m \in LoadRequests : m # i => \E j \in LoadRequests' : port'[j] = port[m]
  <2>1. ASSUME NEW j \in LoadRequests' PROVE \E m \in LoadRequests : m # i /\ port[m] = port'[j]
    <3>1. PICK m \in 1 .. Len(port) : m # i /\ port'[j] = port[m]
      BY <1>1 DEF LoadRequests
    <3>2. m \in LoadRequests
      BY <3>1, Zenon DEF LoadRequests
    <3> QED BY <3>1, <3>2
  <2>2. ASSUME NEW m \in LoadRequests, m # i PROVE \E j \in LoadRequests' : port'[j] = port[m]
    <3>1. PICK j \in 1 .. Len(port') : port'[j] = port[m]
      BY <1>1, <2>2 DEF LoadRequests
    <3>2. j \in LoadRequests'
      BY <3>1, Zenon DEF LoadRequests
    <3> QED BY <3>1, <3>2
  <2> QED BY <2>1, <2>2
<1>3. /\ \A j \in StoreRequests' : \E m \in StoreRequests : m # i /\ port[m] = port'[j]
      /\ \A m \in StoreRequests : m # i => \E j \in StoreRequests' : port'[j] = port[m]
  <2>1. ASSUME NEW j \in StoreRequests' PROVE \E m \in StoreRequests : m # i /\ port[m] = port'[j]
    <3>1. PICK m \in 1 .. Len(port) : m # i /\ port'[j] = port[m]
      BY <1>1 DEF StoreRequests
    <3>2. m \in StoreRequests
      BY <3>1, Zenon DEF StoreRequests
    <3> QED BY <3>1, <3>2
  <2>2. ASSUME NEW m \in StoreRequests, m # i PROVE \E j \in StoreRequests' : port'[j] = port[m]
    <3>1. PICK j \in 1 .. Len(port') : port'[j] = port[m]
      BY <1>1, <2>2 DEF StoreRequests
    <3>2. j \in StoreRequests'
      BY <3>1, Zenon DEF StoreRequests
    <3> QED BY <3>1, <3>2
  <2> QED BY <2>1, <2>2
<1>4. ASSUME NEW i1 \in StoreRequests', NEW i2 \in StoreRequests', i1 < i2
      PROVE  port'[i1].tag < port'[i2].tag
  <2>1. i1 \in 1 .. Len(port') /\ i2 \in 1 .. Len(port') /\ port'[i1].isStore /\ port'[i2].isStore
    BY DEF StoreRequests
  <2>2. PICK m1, m2 \in 1 .. Len(port) :
          m1 < m2 /\ port'[i1] = port[m1] /\ port'[i2] = port[m2]
    BY <1>1, <1>4, <2>1
  <2>3. m1 \in StoreRequests /\ m2 \in StoreRequests
    BY <2>1, <2>2 DEF StoreRequests
  <2> QED BY <2>2, <2>3 DEF StoresInPort
<1> QED BY <1>1, <1>2, <1>3, <1>4

(* An acknowledgement always finds its entry, in whatever order it comes.  *)
LEMMA AcknowledgeKeeps ==
  ASSUME MemInv, NEW i \in 1 .. Len(port), Respond(i), port[i].isStore
  PROVE  MemInv'
<1> USE DEF MemInv
<1>1. i \in StoreRequests
  BY DEF StoreRequests
<1>2. PICK r : r = port[i]
  OBVIOUS
<1>3. /\ r \in Requests /\ r.performed /\ r.isStore
  BY <1>2, PortTypes DEF Respond
<1>4. PICK w \in 0 .. sbIssued - 1 :
         /\ w \in SbAges /\ StoreAsks(i, w)
         /\ \A j \in StoreRequests : port[j].slot = r.slot => j = i
         /\ \A x \in SbAges : SbSlot(x) = r.slot => x = w
  BY <1>1, <1>2, StoreOwner
<1>5. /\ r.slot = SbSlot(w) /\ r.tag = SbNth(w).txn /\ ~SbNth(w).acked
      /\ SbNth(w) = sb[r.slot] /\ SbNth(w) \in SbEntries /\ r.slot \in SbSlots
  BY <1>2, <1>4, BufferTypes DEF StoreAsks
<1>6. AckMatches(r)
  <2>1. Live(SbSize, sbHead, sbCount, r.slot)
    <3>1. /\ SbSize \in Nat /\ sbHead \in 0 .. SbSize - 1 /\ sbCount \in 0 .. SbSize
          /\ r.slot \in 0 .. SbSize - 1
      BY <1>5, BufferTypes DEF BufferShape
    <3>2. \E k \in 0 .. sbCount - 1 : IndexOf(SbSize, sbHead, k) = r.slot
      BY <1>4, <1>5 DEF SbAges, SbSlot
    <3> QED BY <3>1, <3>2, LiveIsOccupied
  <2>2. SbNth(w).inflight
    BY <1>4, BufferTypes DEF BufferRight
  <2> QED BY <1>5, <2>1, <2>2 DEF AckMatches
<1>7. /\ port' = RemoveAt(port, i)
      /\ sb' = [sb EXCEPT ![r.slot] = [sb[r.slot] EXCEPT !.acked = TRUE]]
      /\ UNCHANGED <<lsqVars, ops, mode>> /\ UNCHANGED <<arch, mem, lsq, genCtr>>
      /\ UNCHANGED <<sbHead, sbCount, sbIssued, sbTxnCtr>>
  <2>1. sb' = [sb EXCEPT ![r.slot].acked = TRUE] /\ lsq' = lsq
    BY <1>2, <1>3, <1>6 DEF Respond
  <2> QED BY <2>1 DEF Respond, lsqVars, archVars
<1>8. /\ PortShape'
      /\ \A j \in LoadRequests' : \E m \in LoadRequests : m # i /\ port[m] = port'[j]
      /\ \A m \in LoadRequests : m # i => \E j \in LoadRequests' : port'[j] = port[m]
      /\ \A j \in StoreRequests' : \E m \in StoreRequests : m # i /\ port[m] = port'[j]
      /\ \A m \in StoreRequests : m # i => \E j \in StoreRequests' : port'[j] = port[m]
      /\ \A i1, i2 \in StoreRequests' : i1 < i2 => port'[i1].tag < port'[i2].tag
  BY <1>7, RequestsLeft
<1>9. SbAges' = SbAges /\ \A j : SbSlot(j)' = SbSlot(j)
  BY <1>7 DEF SbAges, SbSlot
<1>10. /\ SbNth(w)' = [SbNth(w) EXCEPT !.acked = TRUE] /\ SbNth(w)'.acked
       /\ \A j \in SbAges : j # w => SbNth(j)' = SbNth(j)
       /\ sb' \in [SbSlots -> SbEntries]
  <2>1. [sb[r.slot] EXCEPT !.acked = TRUE] \in SbEntries
    BY <1>5 DEF SbEntries
  <2>2. sb' \in [SbSlots -> SbEntries] /\ sb'[r.slot] = [sb[r.slot] EXCEPT !.acked = TRUE]
    BY <1>5, <1>7, <2>1 DEF BufferShape
  <2>3. SbNth(w)' = [SbNth(w) EXCEPT !.acked = TRUE]
    BY <1>5, <1>9, <2>2 DEF SbNth
  <2>4. SbNth(w)'.acked
    BY <1>5, <2>3 DEF SbEntries
  <2>5. ASSUME NEW j \in SbAges, j # w PROVE SbNth(j)' = SbNth(j)
    <3>1. SbSlot(j) # r.slot /\ SbSlot(j) \in SbSlots
      BY <1>4, <2>5, BufferTypes
    <3> QED BY <1>7, <1>9, <3>1 DEF SbNth, BufferShape
  <2> QED BY <2>2, <2>3, <2>4, <2>5
<1>11. \A j \in SbAges : /\ SbNth(j)'.acc = SbNth(j).acc /\ SbNth(j)'.id = SbNth(j).id
                         /\ SbNth(j)'.txn = SbNth(j).txn /\ SbNth(j)'.inflight = SbNth(j).inflight
  BY <1>5, <1>10 DEF SbEntries
<1>12. BufferShape' /\ MemShape'
  BY <1>7, <1>10 DEF BufferShape, MemShape, SbSlots
<1>13. SbAges = 0 .. sbCount - 1 /\ sbIssued \in Nat /\ sbCount \in Nat /\ sbIssued <= sbCount
  BY BufferTypes DEF SbAges
<1>14. BufferRight'
  <2> SUFFICES ASSUME NEW j \in SbAges
               PROVE  /\ SbNth(j)'.acc \in Accesses /\ ~Faulty(SbNth(j)'.acc)
                      /\ SbNth(j)'.inflight <=> j < sbIssued
                      /\ SbNth(j)'.acked => j < sbIssued
                      /\ j < sbIssued => /\ SbNth(j)'.txn < sbTxnCtr
                                         /\ \A x \in 0 .. j - 1 : SbNth(x)'.txn < SbNth(j)'.txn
    BY <1>7, <1>9 DEF BufferRight
  <2>1. SbNth(j)'.acc \in Accesses /\ ~Faulty(SbNth(j)'.acc) /\ (SbNth(j)'.inflight <=> j < sbIssued)
    BY <1>11 DEF BufferRight
  <2>2. SbNth(j)'.acked => j < sbIssued
    BY <1>4, <1>10, <1>13 DEF BufferRight
  <2>3. \A x \in 0 .. j - 1 : x \in SbAges
    BY <1>13
  <2>4. j < sbIssued => /\ SbNth(j)'.txn < sbTxnCtr
                        /\ \A x \in 0 .. j - 1 : SbNth(x)'.txn < SbNth(j)'.txn
    BY <1>11, <2>3 DEF BufferRight
  <2> QED BY <2>1, <2>2, <2>4
<1>15. \A x \in 0 .. sbIssued - 1 : x \in SbAges
  BY <1>13
<1>16. StoresInPort'
  <2>1. ASSUME NEW j \in StoreRequests' PROVE \E x \in 0 .. sbIssued - 1 : StoreAsks(j, x)'
    <3>1. PICK m \in StoreRequests : m # i /\ port[m] = port'[j]
      BY <1>8
    <3>2. PICK x \in 0 .. sbIssued - 1 : StoreAsks(m, x)
      BY DEF StoresInPort
    <3>3. x # w
      BY <1>4, <1>5, <3>1, <3>2 DEF StoreAsks
    <3> QED BY <1>9, <1>10, <1>15, <3>1, <3>2, <3>3 DEF StoreAsks
  <2>2. ASSUME NEW x \in 0 .. sbIssued - 1
        PROVE  SbNth(x)'.acked \/ \E j \in StoreRequests' : StoreAsks(j, x)'
    <3>1. CASE x = w
      BY <1>10, <3>1
    <3>2. CASE x # w /\ ~SbNth(x).acked
      <4>1. PICK m \in StoreRequests : StoreAsks(m, x)
        BY <3>2 DEF StoresInPort
      <4>2. m # i
        BY <1>2, <1>4, <1>15, <3>2, <4>1 DEF StoreAsks
      <4>3. PICK j \in StoreRequests' : port'[j] = port[m]
        BY <1>8, <4>2
      <4> QED BY <1>9, <1>10, <1>15, <3>2, <4>1, <4>3 DEF StoreAsks
    <3>3. CASE x # w /\ SbNth(x).acked
      BY <1>10, <1>15, <3>3
    <3> QED BY <3>1, <3>2, <3>3
  <2> QED BY <1>7, <1>8, <2>1, <2>2 DEF StoresInPort
<1>17. \A b : Writers(b)' = Writers(b)
  BY <1>9, <1>11 DEF Writers
<1>18. ASSUME NEW x \in SbAges PROVE Performed(x)' <=> Performed(x)
  <2>1. CASE x = w
    BY <1>1, <1>2, <1>3, <1>5, <1>10, <2>1 DEF Performed
  <2>2. CASE x # w
    <3>1. \A m \in StoreRequests : port[m].slot = SbSlot(x) => m # i
      BY <1>2, <1>4, <2>2
    <3>2. (\E j \in StoreRequests' : port'[j].slot = SbSlot(x) /\ port'[j].performed)
            <=> \E m \in StoreRequests : port[m].slot = SbSlot(x) /\ port[m].performed
      BY <1>8, <3>1
    <3> QED BY <1>9, <1>10, <2>2, <3>2 DEF Performed
  <2> QED BY <2>1, <2>2
<1>19. MemoryRight'
  <2>1. ASSUME NEW b \in Bytes PROVE ByteRight(b)'
    <3>1. ByteRight(b)
      BY DEF MemoryRight
    <3>2. \A j \in Writers(b) : SbNth(j)'.id = SbNth(j).id /\ (Performed(j)' <=> Performed(j))
      BY <1>11, <1>18 DEF Writers
    <3> QED BY <1>7, <1>17, <3>1, <3>2 DEF ByteRight
  <2> QED BY <2>1 DEF MemoryRight, Bytes
<1>20. /\ QueueShape' /\ EntriesRight' /\ Ages' = Ages
       /\ \A k : Slot(k)' = Slot(k) /\ Nth(k)' = Nth(k)
       /\ AccessedLoads' = AccessedLoads /\ Pending' = Pending
       /\ NeverPassesUnknownStore'
  BY <1>7, QueueStill
<1>21. \A m \in LoadRequests : m # i
  BY <1>2, <1>3 DEF LoadRequests
<1>22. LoadsInPort'
  <2>1. ASSUME NEW j \in LoadRequests' PROVE LoadRequestRight(j)'
    <3>1. PICK m \in LoadRequests : port'[j] = port[m]
      BY <1>8
    <3>2. LoadRequestRight(m)
      BY DEF LoadsInPort
    <3> QED BY <1>7, <3>1, <3>2, RequestCarries
  <2>2. ASSUME NEW k \in Pending PROVE \E j \in LoadRequests' : LoadAsks(j, k)'
    <3>1. PICK m \in LoadRequests : LoadAsks(m, k)
      BY DEF LoadsInPort
    <3>2. PICK j \in LoadRequests' : port'[j] = port[m]
      BY <1>8, <1>21
    <3> QED BY <1>20, <3>1, <3>2 DEF LoadAsks
  <2> QED BY <1>20, <2>1, <2>2 DEF LoadsInPort
<1>23. LoadsRight'
  <2> SUFFICES ASSUME NEW k \in AccessedLoads
               PROVE  ~Fault(k)' /\ Clean(k)' => LoadRight(k)'
    BY <1>20 DEF LoadsRight
  <2>1. k \in Ages /\ k \in Ages' /\ k \in AccessedLoads'
    BY <1>20 DEF AccessedLoads
  <2>2. \A j \in LoadRequests' : port'[j].performed => \E m \in LoadRequests : port[m] = port'[j]
    BY <1>8
  <2>3. \A b : Writers(b) = {} => Writers(b)' = {}
    BY <1>17
  <2> QED BY <1>7, <1>20, <2>1, <2>2, <2>3, LoadCarries
<1> QED BY <1>8, <1>12, <1>14, <1>16, <1>19, <1>20, <1>22, <1>23

(* The entry a load response finds is the one that asked, and only a       *)
(* waiting load is found.                                                  *)
LEMMA LoadOwner ==
  ASSUME MemInv, NEW i \in LoadRequests
  PROVE  /\ LoadMatches(port[i]) =>
              \E k \in Pending : /\ LoadAsks(i, k) /\ Nth(k).acc = port[i].acc
                                 /\ Nth(k).id = port[i].id
         /\ \A k \in Pending : LoadAsks(i, k) => LoadMatches(port[i])
<1> USE DEF MemInv
<1>1. PICK r : r = port[i]
  OBVIOUS
<1>2. LoadRequestRight(i) /\ r.slot \in LsqSlots
  BY <1>1 DEF LoadsInPort, LoadRequestRight
<1>3. /\ LsqSize \in Nat /\ lsqHead \in 0 .. LsqSize - 1 /\ lsqCount \in 0 .. LsqSize
      /\ r.slot \in 0 .. LsqSize - 1
  BY <1>2, QueueTypes DEF QueueShape
<1>4. Live(LsqSize, lsqHead, lsqCount, r.slot)
        <=> \E k \in Ages : Slot(k) = r.slot
  <2>1. Live(LsqSize, lsqHead, lsqCount, r.slot)
          <=> \E k \in 0 .. lsqCount - 1 : IndexOf(LsqSize, lsqHead, k) = r.slot
    BY <1>3, LiveIsOccupied
  <2> QED BY <2>1 DEF Ages, Slot
<1>5. ASSUME LoadMatches(r)
      PROVE  \E k \in Pending : LoadAsks(i, k) /\ Nth(k).acc = r.acc /\ Nth(k).id = r.id
  <2>1. PICK k \in Ages : Slot(k) = r.slot
    BY <1>4, <1>5 DEF LoadMatches
  <2>2. Nth(k) = lsq[r.slot]
    BY <2>1, QueueTypes
  <2>3. k \in Pending /\ r.tag = Nth(k).gen
    BY <1>5, <2>1, <2>2 DEF LoadMatches, Pending
  <2>4. r.tag = genCtr[r.slot]
    BY <1>2, <2>2, <2>3 DEF EntriesRight, EntryRight
  <2>5. Nth(k).acc = r.acc /\ Nth(k).id = r.id
    BY <1>1, <1>2, <2>2, <2>4 DEF LoadRequestRight
  <2> QED BY <1>1, <2>1, <2>3, <2>5 DEF LoadAsks
<1>6. ASSUME NEW k \in Pending, LoadAsks(i, k) PROVE LoadMatches(r)
  <2>1. k \in Ages /\ Slot(k) = r.slot /\ Nth(k) = lsq[r.slot] /\ r.tag = Nth(k).gen
    BY <1>1, <1>6, QueueTypes DEF LoadAsks, Pending
  <2>2. lsq[r.slot].issued /\ ~lsq[r.slot].done
    BY <2>1 DEF Pending
  <2>3. ~lsq[r.slot].isStore
    BY <1>2, <2>2 DEF EntriesRight, EntryRight
  <2> QED BY <1>4, <2>1, <2>2, <2>3 DEF LoadMatches
<1> QED BY <1>1, <1>5, <1>6

(* A response nobody waits for any more dies at its slot.                  *)
LEMMA StaleAnswerKeeps ==
  ASSUME MemInv, NEW i \in LoadRequests, port' = RemoveAt(port, i), ~LoadMatches(port[i]),
         UNCHANGED <<lsqVars, sbVars, mem, archVars, ops, mode>>
  PROVE  MemInv'
<1> USE DEF MemInv
<1>1. /\ UNCHANGED <<lsqVars, ops, mode>> /\ UNCHANGED <<sbVars, mem, arch>>
      /\ UNCHANGED <<lsq, genCtr>> /\ i \in 1 .. Len(port)
  BY DEF archVars, lsqVars, LoadRequests
<1>2. /\ PortShape'
      /\ \A j \in LoadRequests' : \E m \in LoadRequests : m # i /\ port[m] = port'[j]
      /\ \A m \in LoadRequests : m # i => \E j \in LoadRequests' : port'[j] = port[m]
      /\ \A j \in StoreRequests' : \E m \in StoreRequests : m # i /\ port[m] = port'[j]
      /\ \A m \in StoreRequests : m # i => \E j \in StoreRequests' : port'[j] = port[m]
      /\ \A i1, i2 \in StoreRequests' : i1 < i2 => port'[i1].tag < port'[i2].tag
  BY <1>1, RequestsLeft
<1>3. /\ BufferShape' /\ MemShape' /\ BufferRight' /\ StoresInPort' /\ MemoryRight'
      /\ \A b : Writers(b)' = Writers(b)
  <2>1. \A m \in StoreRequests : m # i
    BY DEF StoreRequests, LoadRequests
  <2>2. /\ \A j \in StoreRequests' : \E m \in StoreRequests : port'[j] = port[m]
        /\ \A m \in StoreRequests : \E j \in StoreRequests' : port'[j] = port[m]
    BY <1>2, <2>1
  <2> QED BY <1>1, <1>2, <2>2, StoresCarry
<1>4. /\ QueueShape' /\ EntriesRight' /\ Ages' = Ages
      /\ \A k : Slot(k)' = Slot(k) /\ Nth(k)' = Nth(k)
      /\ AccessedLoads' = AccessedLoads /\ Pending' = Pending
      /\ NeverPassesUnknownStore'
  BY <1>1, QueueStill
<1>5. LoadsInPort'
  <2>1. ASSUME NEW j \in LoadRequests' PROVE LoadRequestRight(j)'
    <3>1. PICK m \in LoadRequests : port'[j] = port[m]
      BY <1>2
    <3>2. LoadRequestRight(m)
      BY DEF LoadsInPort
    <3> QED BY <1>1, <3>1, <3>2, RequestCarries
  <2>2. ASSUME NEW k \in Pending PROVE \E j \in LoadRequests' : LoadAsks(j, k)'
    <3>1. PICK m \in LoadRequests : LoadAsks(m, k)
      BY DEF LoadsInPort
    <3>2. m # i
      BY <3>1, LoadOwner
    <3>3. PICK j \in LoadRequests' : port'[j] = port[m]
      BY <1>2, <3>2
    <3> QED BY <1>4, <3>1, <3>3 DEF LoadAsks
  <2> QED BY <1>4, <2>1, <2>2 DEF LoadsInPort
<1>6. LoadsRight'
  <2> SUFFICES ASSUME NEW k \in AccessedLoads
               PROVE  ~Fault(k)' /\ Clean(k)' => LoadRight(k)'
    BY <1>4 DEF LoadsRight
  <2>1. k \in Ages /\ k \in Ages' /\ k \in AccessedLoads'
    BY <1>4 DEF AccessedLoads
  <2>2. \A j \in LoadRequests' : port'[j].performed => \E m \in LoadRequests : port[m] = port'[j]
    BY <1>2
  <2>3. \A b : Writers(b) = {} => Writers(b)' = {}
    BY <1>3
  <2> QED BY <1>1, <1>4, <2>1, <2>2, <2>3, LoadCarries
<1> QED BY <1>2, <1>3, <1>4, <1>5, <1>6

(* The load that asked gets what its request read: committed memory, since *)
(* no older store that is known writes one of its bytes.                   *)
LEMMA AnswerKeeps ==
  ASSUME MemInv, NEW i \in LoadRequests, port' = RemoveAt(port, i), LoadMatches(port[i]),
         port[i].performed,
         lsq' = [lsq EXCEPT ![port[i].slot].done = TRUE, ![port[i].slot].val = port[i].val],
         UNCHANGED <<lsqHead, lsqCount, genCtr, sbVars, mem, archVars, ops, mode>>
  PROVE  MemInv'
<1> USE DEF MemInv
<1>1. PICK r, s, v : r = port[i] /\ s = r.slot /\ v = r.val
  OBVIOUS
<1>2. /\ UNCHANGED <<sbVars, mem, arch>> /\ i \in 1 .. Len(port)
      /\ UNCHANGED <<lsqHead, lsqCount, genCtr, ops, mode>>
  BY DEF archVars, LoadRequests
<1>3. PICK k \in Pending : LoadAsks(i, k) /\ Nth(k).acc = r.acc /\ Nth(k).id = r.id
  BY <1>1, LoadOwner
<1>4. /\ k \in Ages /\ s = Slot(k) /\ s \in LsqSlots /\ Nth(k) = lsq[s] /\ lsq[s] \in LsqEntries
      /\ lsq[s].issued /\ ~lsq[s].done /\ ~lsq[s].isStore /\ lsq[s].acc = r.acc
  <2>1. k \in Ages /\ s = Slot(k) /\ s \in LsqSlots /\ Nth(k) = lsq[s] /\ lsq[s] \in LsqEntries
    BY <1>1, <1>3, QueueTypes DEF LoadAsks, Pending
  <2>2. lsq[s].issued /\ ~lsq[s].done /\ lsq[s].acc = r.acc
    BY <1>3, <2>1 DEF Pending
  <2> QED BY <2>1, <2>2 DEF EntriesRight, EntryRight
<1>5. r.acc \in Accesses /\ v \in [BytesOf(r.acc) -> OpIds] /\ v \in Vals
  <2>1. r \in Requests /\ LoadRequestRight(i)
    BY <1>1, <1>2, PortTypes DEF LoadsInPort
  <2>2. r.acc \in Accesses /\ v \in [BytesOf(r.acc) -> OpIds]
    BY <1>1, <2>1 DEF LoadRequestRight, Requests
  <2> QED BY <2>2 DEF Vals
<1>6. /\ lsq' \in [LsqSlots -> LsqEntries]
      /\ lsq'[s] = [lsq[s] EXCEPT !.done = TRUE, !.val = v]
      /\ \A t \in LsqSlots : t # s => lsq'[t] = lsq[t]
  <2>1. [lsq[s] EXCEPT !.done = TRUE, !.val = v] \in LsqEntries
    BY <1>4, <1>5 DEF LsqEntries
  <2>2. lsq' = [lsq EXCEPT ![s] = [lsq[s] EXCEPT !.done = TRUE, !.val = v]]
    BY <1>1, <1>4 DEF QueueShape, LsqEntries
  <2> QED BY <1>4, <2>1, <2>2 DEF QueueShape
<1>7. /\ lsq'[s].done /\ lsq'[s].val = v
      /\ \A t \in LsqSlots :
           /\ lsq'[t].isStore = lsq[t].isStore /\ lsq'[t].id = lsq[t].id
           /\ lsq'[t].gen = lsq[t].gen /\ lsq'[t].acc = lsq[t].acc
           /\ lsq'[t].issued = lsq[t].issued /\ lsq'[t].reported = lsq[t].reported
  BY <1>4, <1>6 DEF LsqEntries
<1>8. QueueShape' /\ Ages' = Ages /\ \A j : Slot(j)' = Slot(j)
  BY <1>2, <1>6 DEF QueueShape, Ages, Slot, LsqSlots
<1>9. \A j \in Ages :
        /\ Nth(j)'.isStore = Nth(j).isStore /\ Nth(j)'.id = Nth(j).id
        /\ Nth(j)'.gen = Nth(j).gen /\ Nth(j)'.acc = Nth(j).acc
        /\ Nth(j)'.issued = Nth(j).issued
        /\ j # k => Nth(j)' = Nth(j)
  <2>1. \A j \in Ages : Slot(j) \in LsqSlots /\ Nth(j) = lsq[Slot(j)]
    BY QueueTypes
  <2>2. \A j \in Ages : j # k => Slot(j) # s
    BY <1>4, QueueTypes
  <2> SUFFICES ASSUME NEW j \in Ages
               PROVE  /\ Nth(j)'.isStore = Nth(j).isStore /\ Nth(j)'.id = Nth(j).id
                      /\ Nth(j)'.gen = Nth(j).gen /\ Nth(j)'.acc = Nth(j).acc
                      /\ Nth(j)'.issued = Nth(j).issued
                      /\ j # k => Nth(j)' = Nth(j)
    OBVIOUS
  <2>3. PICK t, e, f : t = Slot(j) /\ e = lsq[t] /\ f = lsq'[t]
    OBVIOUS
  <2>4. t \in LsqSlots /\ Nth(j) = e /\ Nth(j)' = f
    BY <1>8, <2>1, <2>3 DEF Nth
  <2>5. /\ f.isStore = e.isStore /\ f.id = e.id /\ f.gen = e.gen /\ f.acc = e.acc
        /\ f.issued = e.issued
    BY <1>7, <2>3, <2>4
  <2>6. j # k => f = e
    BY <1>6, <2>2, <2>3, <2>4
  <2> QED BY <2>4, <2>5, <2>6
<1>10. Nth(k)'.done /\ Nth(k)'.val = v
  BY <1>4, <1>7, <1>8 DEF Nth
<1>11. EntriesRight'
  <2>1. ASSUME NEW t \in LsqSlots PROVE EntryRight(t)'
    <3>1. EntryRight(t)
      BY DEF EntriesRight
    <3>2. CASE t # s
      BY <1>2, <1>6, <3>1, <3>2 DEF EntryRight
    <3>3. CASE t = s
      <4>1. PICK e, f : e = lsq[s] /\ f = lsq'[s]
        OBVIOUS
      <4>2. /\ e \in LsqEntries /\ f = [e EXCEPT !.done = TRUE, !.val = v]
            /\ e.issued /\ ~e.isStore /\ e.acc = r.acc
        BY <1>4, <1>6, <4>1
      <4>3. /\ f.gen = e.gen /\ f.acc = e.acc /\ f.issued /\ ~f.isStore /\ f.done /\ f.val = v
        BY <4>2 DEF LsqEntries
      <4>4. /\ e.gen = genCtr[s] /\ genCtr[s] <= ops /\ e.acc # NoAccess /\ ~Faulty(e.acc)
        BY <3>1, <3>3, <4>1, <4>2 DEF EntryRight
      <4>5. v \in [BytesOf(f.acc) -> OpIds]
        BY <1>5, <4>2, <4>3
      <4> QED BY <1>2, <3>3, <4>1, <4>2, <4>3, <4>4, <4>5 DEF EntryRight
    <3> QED BY <3>2, <3>3
  <2>2. \A j \in Ages : Nth(j)'.id \in 1 .. MaxOps
    BY <1>9 DEF EntriesRight
  <2> QED BY <1>8, <2>1, <2>2 DEF EntriesRight, LsqSlots
<1>12. /\ PortShape'
       /\ \A j \in LoadRequests' : \E m \in LoadRequests : m # i /\ port[m] = port'[j]
       /\ \A m \in LoadRequests : m # i => \E j \in LoadRequests' : port'[j] = port[m]
       /\ \A j \in StoreRequests' : \E m \in StoreRequests : m # i /\ port[m] = port'[j]
       /\ \A m \in StoreRequests : m # i => \E j \in StoreRequests' : port'[j] = port[m]
       /\ \A i1, i2 \in StoreRequests' : i1 < i2 => port'[i1].tag < port'[i2].tag
  BY <1>2, RequestsLeft
<1>13. /\ BufferShape' /\ MemShape' /\ BufferRight' /\ StoresInPort' /\ MemoryRight'
       /\ \A b : Writers(b)' = Writers(b)
  <2>1. \A m \in StoreRequests : m # i
    BY DEF StoreRequests, LoadRequests
  <2>2. /\ \A j \in StoreRequests' : \E m \in StoreRequests : port'[j] = port[m]
        /\ \A m \in StoreRequests : \E j \in StoreRequests' : port'[j] = port[m]
    BY <1>12, <2>1
  <2> QED BY <1>2, <1>12, <2>2, StoresCarry
<1>14. /\ \A j \in Ages : (AddrValid(j)' <=> AddrValid(j)) /\ (Fault(j)' <=> Fault(j))
       /\ AccessedLoads' \subseteq AccessedLoads /\ KnownStores' = KnownStores
       /\ UnknownStores' = UnknownStores
       /\ \A j \in Pending' : j \in Pending /\ j # k
  <2>1. \A j \in Ages : (AddrValid(j)' <=> AddrValid(j)) /\ (Fault(j)' <=> Fault(j))
    BY <1>9 DEF AddrValid, Fault
  <2>2. KnownStores' = KnownStores /\ UnknownStores' = UnknownStores
    BY <1>8, <1>9, <2>1 DEF KnownStores, UnknownStores
  <2>3. \A j \in Pending' : j \in Pending /\ j # k
    BY <1>8, <1>9, <1>10 DEF Pending
  <2>4. \A j \in AccessedLoads' : j \in AccessedLoads
    <3> SUFFICES ASSUME NEW j \in AccessedLoads' PROVE j \in AccessedLoads
      OBVIOUS
    <3>1. j \in Ages
      BY <1>8 DEF AccessedLoads
    <3>2. CASE j = k
      BY <1>3, <3>2 DEF Pending, AccessedLoads
    <3>3. CASE j # k
      BY <1>9, <3>1, <3>3 DEF AccessedLoads
    <3> QED BY <3>2, <3>3
  <2> QED BY <2>1, <2>2, <2>3, <2>4
<1>15. LoadsInPort'
  <2>1. ASSUME NEW j \in LoadRequests' PROVE LoadRequestRight(j)'
    <3>1. PICK m \in LoadRequests : port'[j] = port[m]
      BY <1>12
    <3>2. LoadRequestRight(m)
      BY DEF LoadsInPort
    <3> QED BY <1>2, <1>7, <3>1, <3>2, RequestCarries
  <2>2. ASSUME NEW j \in Pending' PROVE \E n \in LoadRequests' : LoadAsks(n, j)'
    <3>1. j \in Pending /\ j # k /\ j \in Ages
      BY <1>14 DEF Pending
    <3>2. PICK m \in LoadRequests : LoadAsks(m, j)
      BY <3>1 DEF LoadsInPort
    <3>3. Slot(j) # Slot(k)
      BY <1>4, <3>1, QueueTypes
    <3>4. m # i
      BY <1>3, <3>2, <3>3 DEF LoadAsks
    <3>5. PICK n \in LoadRequests' : port'[n] = port[m]
      BY <1>12, <3>4
    <3> QED BY <1>8, <1>9, <3>1, <3>2, <3>5 DEF LoadAsks
  <2> QED BY <2>1, <2>2 DEF LoadsInPort
<1>16. NeverPassesUnknownStore'
  <2> SUFFICES ASSUME mode' # "Speculative", NEW j \in AccessedLoads', NEW m \in UnknownStores'
               PROVE  Fault(j)' \/ m > j
    BY DEF NeverPassesUnknownStore
  <2>1. j \in Ages /\ j \in AccessedLoads /\ m \in UnknownStores
    BY <1>14 DEF AccessedLoads
  <2> QED BY <1>2, <1>14, <2>1 DEF NeverPassesUnknownStore
<1>17. LoadsRight'
  <2> SUFFICES ASSUME NEW n \in AccessedLoads'
               PROVE  ~Fault(n)' /\ Clean(n)' => LoadRight(n)'
    BY DEF LoadsRight
  <2>1. n \in Ages /\ n \in Ages' /\ n \in AccessedLoads
    BY <1>8, <1>14 DEF AccessedLoads
  <2>2. \A j \in 0 .. n : j \in Ages
    BY <2>1, AgesRange
  <2>3. CASE n # k
    <3>1. \A j \in LoadRequests' : port'[j].performed => \E m \in LoadRequests : port[m] = port'[j]
      BY <1>12
    <3>2. \A b : Writers(b) = {} => Writers(b)' = {}
      BY <1>13
    <3>3. \A j \in 0 .. n : Nth(j)'.isStore = Nth(j).isStore /\ Nth(j)'.acc = Nth(j).acc
                            /\ Nth(j)'.id = Nth(j).id
      BY <1>9, <2>2
    <3>4. /\ Nth(n)'.issued = Nth(n).issued /\ Nth(n)'.done = Nth(n).done
          /\ Nth(n)'.val = Nth(n).val /\ Nth(n)'.gen = Nth(n).gen
      BY <1>9, <2>1, <2>3
    <3> QED BY <1>2, <1>8, <2>1, <3>1, <3>2, <3>3, <3>4, LoadCarries
  <2>4. CASE n = k
    <3> SUFFICES ASSUME ~Fault(k)', Clean(k)' PROVE LoadRight(k)'
      BY <2>4
    <3>1. ~Fault(k) /\ Clean(k)
      BY <1>4, <1>14 DEF Clean, KnownStores
    <3>2. LoadRight(k)
      BY <2>1, <2>4, <3>1 DEF LoadsRight
    <3>3. \A j \in 0 .. k - 1 : \A b \in BytesOf(r.acc) : ~Writes(j, b)
      BY <1>4, <3>2 DEF LoadRight
    <3>4. \A j \in 0 .. k - 1 : \A b : Writes(j, b)' <=> Writes(j, b)
      BY <1>9, <1>14 DEF Writes, KnownStores
    <3>5. v = [b \in BytesOf(r.acc) |-> arch[b]]
      BY <1>1, <1>3, <1>4, <3>2 DEF LoadRight
    <3>6. Nth(k)'.acc = r.acc
      BY <1>4, <1>9
    <3>7. ValueRight(k)'
      BY <1>2, <1>5, <1>10, <3>3, <3>4, <3>5, <3>6 DEF ValueRight, OrderedValue, OpIds
    <3> QED BY <1>10, <3>3, <3>4, <3>6, <3>7 DEF LoadRight
  <2> QED BY <2>3, <2>4
<1> QED BY <1>8, <1>11, <1>12, <1>13, <1>15, <1>16, <1>17

LEMMA RespondKeeps ==
  ASSUME MemInv, NEW i \in 1 .. Len(port), Respond(i)
  PROVE  MemInv'
<1>1. CASE port[i].isStore
  BY <1>1, AcknowledgeKeeps
<1>2. CASE ~port[i].isStore
  <2>1. i \in LoadRequests /\ port' = RemoveAt(port, i) /\ port[i].performed
    BY <1>2 DEF LoadRequests, Respond
  <2>2. UNCHANGED <<lsqHead, lsqCount, genCtr, sbVars, mem, archVars, ops, mode>>
    BY <1>2 DEF Respond, sbVars
  <2>3. CASE LoadMatches(port[i])
    <3>1. lsq' = [lsq EXCEPT ![port[i].slot].done = TRUE, ![port[i].slot].val = port[i].val]
      BY <1>2, <2>3 DEF Respond
    <3> QED BY <2>1, <2>2, <2>3, <3>1, AnswerKeeps
  <2>4. CASE ~LoadMatches(port[i])
    <3>1. UNCHANGED <<lsqVars, sbVars, mem, archVars, ops, mode>>
      BY <1>2, <2>2, <2>4 DEF Respond, lsqVars
    <3> QED BY <2>1, <2>4, <3>1, StaleAnswerKeeps
  <2> QED BY <2>3, <2>4
<1> QED BY <1>1, <1>2
-----------------------------------------------------------------------------
(* The store buffer pops, and the queue commits *)

LEMMA SbPopKeeps ==
  ASSUME MemInv, SbPop
  PROVE  MemInv'
<1> USE DEF MemInv
<1>1. PICK c, n : c = sbCount /\ n = sbIssued
  OBVIOUS
<1>2. /\ UNCHANGED <<lsqVars, ops, mode>> /\ UNCHANGED <<lsq, genCtr, sb, sbTxnCtr, port, mem, arch>>
      /\ sbCount' = c - 1 /\ sbIssued' = n - 1 /\ sbHead' = IndexOf(SbSize, sbHead, 1)
      /\ c > 0 /\ SbNth(0).acked
  BY <1>1 DEF SbPop, lsqVars, archVars
<1>3. /\ c \in Nat /\ n \in Nat /\ c <= SbSize /\ SbSize \in Nat /\ n <= c
      /\ sbHead \in 0 .. SbSize - 1 /\ SbSlots = 0 .. SbSize - 1 /\ sbTxnCtr \in Nat
  BY <1>1, BufferTypes DEF BufferShape
<1>4. SbAges = 0 .. c - 1 /\ SbAges' = 0 .. c - 2 /\ 0 \in SbAges
  <2>1. SbAges = 0 .. c - 1 /\ SbAges' = 0 .. (c - 1) - 1
    BY <1>1, <1>2 DEF SbAges
  <2> QED BY <1>2, <1>3, <2>1
<1>5. n > 0
  BY <1>1, <1>2, <1>3, <1>4 DEF BufferRight
<1>6. \A j \in 0 .. c - 2 : j + 1 \in SbAges /\ SbSlot(j)' = SbSlot(j + 1) /\ SbNth(j)' = SbNth(j + 1)
  <2> SUFFICES ASSUME NEW j \in 0 .. c - 2
               PROVE  j + 1 \in SbAges /\ SbSlot(j)' = SbSlot(j + 1) /\ SbNth(j)' = SbNth(j + 1)
    OBVIOUS
  <2>1. j + 1 \in SbAges /\ j \in 0 .. SbSize - 1
    BY <1>3, <1>4
  <2>2. IndexOf(SbSize, IndexOf(SbSize, sbHead, 1), j) = IndexOf(SbSize, sbHead, j + 1)
    BY <1>3, <2>1, IndexShift
  <2>3. SbSlot(j)' = SbSlot(j + 1)
    BY <1>2, <2>2 DEF SbSlot
  <2> QED BY <1>2, <2>1, <2>3 DEF SbNth
<1>7. BufferShape' /\ MemShape'
  <2>1. sbHead' \in SbSlots
    BY <1>2, <1>3, IndexInRange
  <2>2. sbCount' \in 0 .. SbSize /\ sbIssued' \in 0 .. c - 1
    BY <1>2, <1>3, <1>5
  <2> QED BY <1>2, <2>1, <2>2 DEF BufferShape, MemShape, SbSlots
<1>8. BufferRight'
  <2> SUFFICES ASSUME NEW j \in 0 .. c - 2
               PROVE  /\ SbNth(j)'.acc \in Accesses /\ ~Faulty(SbNth(j)'.acc)
                      /\ SbNth(j)'.inflight <=> j < n - 1
                      /\ SbNth(j)'.acked => j < n - 1
                      /\ j < n - 1 => /\ SbNth(j)'.txn < sbTxnCtr
                                      /\ \A x \in 0 .. j - 1 : SbNth(x)'.txn < SbNth(j)'.txn
    BY <1>2, <1>4 DEF BufferRight
  <2>1. j + 1 \in SbAges /\ SbNth(j)' = SbNth(j + 1) /\ (j < n - 1 <=> j + 1 < n)
    BY <1>3, <1>6
  <2>2. /\ SbNth(j + 1).acc \in Accesses /\ ~Faulty(SbNth(j + 1).acc)
        /\ SbNth(j + 1).inflight <=> j + 1 < n
        /\ SbNth(j + 1).acked => j + 1 < n
        /\ j + 1 < n => /\ SbNth(j + 1).txn < sbTxnCtr
                        /\ \A x \in 0 .. (j + 1) - 1 : SbNth(x).txn < SbNth(j + 1).txn
    BY <1>1, <2>1 DEF BufferRight
  <2>3. \A x \in 0 .. j - 1 : x \in 0 .. c - 2 /\ x + 1 \in 0 .. (j + 1) - 1
    BY <1>3
  <2>4. j < n - 1 => \A x \in 0 .. j - 1 : SbNth(x)'.txn < SbNth(j)'.txn
    BY <1>6, <2>1, <2>2, <2>3
  <2> QED BY <2>1, <2>2, <2>4
<1>9. StoreRequests' = StoreRequests /\ LoadRequests' = LoadRequests
  BY <1>2 DEF StoreRequests, LoadRequests
<1>10. StoresInPort'
  <2>1. ASSUME NEW i \in StoreRequests PROVE \E j \in 0 .. (n - 1) - 1 : StoreAsks(i, j)'
    <3>1. PICK x \in 0 .. n - 1 : StoreAsks(i, x)
      BY <1>1 DEF StoresInPort
    <3>2. x # 0
      BY <1>2, <3>1 DEF StoreAsks
    <3>3. PICK j : j = x - 1
      OBVIOUS
    <3>4. j \in 0 .. (n - 1) - 1 /\ j \in 0 .. c - 2 /\ x = j + 1
      BY <1>3, <3>1, <3>2, <3>3
    <3> QED BY <1>2, <1>6, <3>1, <3>4 DEF StoreAsks
  <2>2. ASSUME NEW j \in 0 .. (n - 1) - 1
        PROVE  SbNth(j)'.acked \/ \E i \in StoreRequests : StoreAsks(i, j)'
    <3>1. j \in 0 .. c - 2 /\ j + 1 \in 0 .. n - 1
      BY <1>3
    <3> QED BY <1>1, <1>2, <1>6, <3>1 DEF StoresInPort, StoreAsks
  <2> QED BY <1>2, <1>9, <2>1, <2>2 DEF StoresInPort
<1>11. \A j \in 0 .. c - 2 : Performed(j)' <=> Performed(j + 1)
  BY <1>2, <1>6, <1>9 DEF Performed
<1>12. /\ \A b : \A j \in Writers(b)' : j \in 0 .. c - 2 /\ j + 1 \in Writers(b)
       /\ \A b : \A x \in Writers(b) : x = 0 \/ (x - 1 \in Writers(b)' /\ x - 1 \in 0 .. c - 2)
  <2>1. \A b : \A j \in Writers(b)' : j \in 0 .. c - 2 /\ j + 1 \in Writers(b)
    BY <1>4, <1>6 DEF Writers
  <2>2. ASSUME NEW b, NEW x \in Writers(b), x # 0 PROVE x - 1 \in Writers(b)' /\ x - 1 \in 0 .. c - 2
    <3>1. x \in SbAges /\ b \in BytesOf(SbNth(x).acc)
      BY DEF Writers
    <3>2. PICK j : j = x - 1
      OBVIOUS
    <3>3. j \in 0 .. c - 2 /\ x = j + 1
      BY <1>3, <1>4, <2>2, <3>1, <3>2
    <3> QED BY <1>4, <1>6, <3>1, <3>2, <3>3 DEF Writers
  <2> QED BY <2>1, <2>2
<1>13. MemoryRight'
  <2>1. ASSUME NEW b \in Bytes PROVE ByteRight(b)'
    <3>1. ByteRight(b)
      BY DEF MemoryRight
    <3>2. \A x \in Writers(b) : x \in Nat /\ x < c
      BY <1>3, <1>4 DEF Writers
    <3>3. Writers(b)' = {} => arch'[b] = mem'[b]
      <4> SUFFICES ASSUME Writers(b)' = {} PROVE arch[b] = mem[b]
        BY <1>2
      <4>1. \A x \in Writers(b) : x = 0
        BY <1>12
      <4>2. CASE 0 \in Writers(b)
        <5>1. Performed(0)
          BY <1>2 DEF Performed
        <5>2. arch[b] = SbNth(0).id
          BY <3>1, <4>1, <4>2 DEF ByteRight
        <5>3. mem[b] = SbNth(0).id
          BY <3>1, <4>1, <4>2, <5>1 DEF ByteRight
        <5> QED BY <5>2, <5>3
      <4>3. CASE Writers(b) = {}
        BY <3>1, <4>3 DEF ByteRight
      <4> QED BY <4>1, <4>2, <4>3
    <3>4. ASSUME NEW j \in Writers(b)'
          PROVE  /\ (\A x \in Writers(b)' : x <= j) => arch'[b] = SbNth(j)'.id
                 /\ Performed(j)' => \A x \in Writers(b)' : x < j => Performed(x)'
                 /\ (Performed(j)' /\ \A x \in Writers(b)' : j < x => ~Performed(x)')
                      => mem'[b] = SbNth(j)'.id
      <4>1. PICK k : k = j + 1
        OBVIOUS
      <4>2. /\ j \in 0 .. c - 2 /\ k \in Writers(b) /\ SbNth(j)' = SbNth(k)
            /\ Performed(j)' <=> Performed(k)
        BY <1>6, <1>11, <1>12, <4>1
      <4>3. ASSUME \A x \in Writers(b)' : x <= j PROVE arch'[b] = SbNth(j)'.id
        <5>1. \A x \in Writers(b) : x <= k
          BY <1>12, <3>2, <4>1, <4>2, <4>3
        <5> QED BY <1>2, <3>1, <4>2, <5>1 DEF ByteRight
      <4>4. ASSUME Performed(j)', NEW x \in Writers(b)', x < j PROVE Performed(x)'
        <5>1. x \in 0 .. c - 2 /\ x + 1 \in Writers(b)
          BY <1>12
        <5>2. x + 1 < k
          BY <4>1, <4>2, <4>4, <5>1
        <5>3. Performed(x + 1)
          BY <3>1, <4>2, <4>4, <5>1, <5>2 DEF ByteRight
        <5> QED BY <1>11, <5>1, <5>3
      <4>5. ASSUME Performed(j)', \A x \in Writers(b)' : j < x => ~Performed(x)'
            PROVE  mem'[b] = SbNth(j)'.id
        <5>1. ASSUME NEW x \in Writers(b), k < x PROVE ~Performed(x)
          <6>1. PICK y : y = x - 1
            OBVIOUS
          <6>2. x \in Nat /\ x # 0 /\ x = y + 1 /\ j < y
            BY <3>2, <4>1, <4>2, <5>1, <6>1
          <6>3. y \in Writers(b)' /\ y \in 0 .. c - 2
            BY <1>12, <6>1, <6>2
          <6> QED BY <1>11, <4>5, <6>2, <6>3
        <5> QED BY <1>2, <3>1, <4>2, <4>5, <5>1 DEF ByteRight
      <4> QED BY <4>3, <4>4, <4>5
    <3> QED BY <3>3, <3>4 DEF ByteRight
  <2> QED BY <2>1 DEF MemoryRight, Bytes
<1>14. /\ QueueShape' /\ EntriesRight' /\ Ages' = Ages
       /\ \A k : Slot(k)' = Slot(k) /\ Nth(k)' = Nth(k)
       /\ AccessedLoads' = AccessedLoads /\ Pending' = Pending
       /\ NeverPassesUnknownStore'
  BY <1>2, QueueStill
<1>15. LoadsInPort'
  <2>1. \A i \in LoadRequests' : LoadRequestRight(i)'
    BY <1>2, RequestsCarry
  <2> QED BY <1>2, <1>9, <1>14, <2>1 DEF LoadsInPort, LoadAsks
<1>16. LoadsRight'
  <2> SUFFICES ASSUME NEW k \in AccessedLoads
               PROVE  ~Fault(k)' /\ Clean(k)' => LoadRight(k)'
    BY <1>14 DEF LoadsRight
  <2>1. k \in Ages /\ k \in Ages' /\ k \in AccessedLoads'
    BY <1>14 DEF AccessedLoads
  <2>2. \A j \in LoadRequests' : port'[j].performed => \E m \in LoadRequests : port[m] = port'[j]
    BY <1>2, <1>9
  <2>3. \A b : Writers(b) = {} => Writers(b)' = {}
    <3> SUFFICES ASSUME NEW b, Writers(b) = {}, NEW j \in Writers(b)' PROVE FALSE
      OBVIOUS
    <3> QED BY <1>12
  <2> QED BY <1>2, <1>14, <2>1, <2>2, <2>3, LoadCarries
<1>17. PortShape'
  BY <1>2 DEF PortShape
<1> QED BY <1>7, <1>8, <1>10, <1>13, <1>14, <1>15, <1>16, <1>17

LEMMA PopCarries ==
  ASSUME MemInv, PopLsq, lsqCount > 0, UNCHANGED <<lsq, genCtr, port, ops, mode>>,
         NEW c, c = lsqCount
  PROVE  /\ QueueShape' /\ EntriesRight' /\ NeverPassesUnknownStore' /\ LoadsInPort' /\ PortShape'
         /\ c \in Nat /\ c > 0 /\ Ages = 0 .. c - 1 /\ Ages' = 0 .. c - 2
         /\ \A k \in 0 .. c - 2 : /\ k + 1 \in Ages /\ Slot(k)' = Slot(k + 1)
                                  /\ Nth(k)' = Nth(k + 1)
                                  /\ Fault(k)' <=> Fault(k + 1)
                                  /\ k \in KnownStores' <=> k + 1 \in KnownStores
                                  /\ k \in AccessedLoads' <=> k + 1 \in AccessedLoads
         /\ StoreRequests' = StoreRequests /\ LoadRequests' = LoadRequests
<1> USE DEF MemInv
<1>1. /\ lsqHead' = IndexOf(LsqSize, lsqHead, 1) /\ lsqCount' = c - 1
      /\ UNCHANGED <<lsq, genCtr, port, ops, mode>> /\ c > 0
  BY DEF PopLsq
<1>2. /\ c \in Nat /\ c <= LsqSize /\ LsqSize \in Nat /\ lsqHead \in 0 .. LsqSize - 1
      /\ LsqSlots = 0 .. LsqSize - 1
  BY QueueTypes
<1>3. Ages = 0 .. c - 1 /\ Ages' = 0 .. c - 2 /\ 0 \in Ages
  <2>1. Ages = 0 .. c - 1 /\ Ages' = 0 .. (c - 1) - 1
    BY <1>1 DEF Ages
  <2> QED BY <1>1, <1>2, <2>1
<1>4. \A k \in 0 .. c - 2 : k + 1 \in Ages /\ Slot(k)' = Slot(k + 1) /\ Nth(k)' = Nth(k + 1)
  <2> SUFFICES ASSUME NEW k \in 0 .. c - 2
               PROVE  k + 1 \in Ages /\ Slot(k)' = Slot(k + 1) /\ Nth(k)' = Nth(k + 1)
    OBVIOUS
  <2>1. k + 1 \in Ages /\ k \in 0 .. LsqSize - 1
    BY <1>2, <1>3
  <2>2. IndexOf(LsqSize, IndexOf(LsqSize, lsqHead, 1), k) = IndexOf(LsqSize, lsqHead, k + 1)
    BY <1>2, <2>1, IndexShift
  <2>3. Slot(k)' = Slot(k + 1)
    BY <1>1, <2>2 DEF Slot
  <2> QED BY <1>1, <2>1, <2>3 DEF Nth
<1>5. \A k \in 0 .. c - 2 : /\ AddrValid(k)' <=> AddrValid(k + 1)
                            /\ Fault(k)' <=> Fault(k + 1)
  BY <1>4 DEF AddrValid, Fault
<1>6. \A k \in 0 .. c - 2 : /\ k \in KnownStores' <=> k + 1 \in KnownStores
                            /\ k \in UnknownStores' <=> k + 1 \in UnknownStores
                            /\ k \in AccessedLoads' <=> k + 1 \in AccessedLoads
                            /\ k \in Pending' <=> k + 1 \in Pending
  <2> SUFFICES ASSUME NEW k \in 0 .. c - 2
               PROVE  /\ k \in KnownStores' <=> k + 1 \in KnownStores
                      /\ k \in UnknownStores' <=> k + 1 \in UnknownStores
                      /\ k \in AccessedLoads' <=> k + 1 \in AccessedLoads
                      /\ k \in Pending' <=> k + 1 \in Pending
    OBVIOUS
  <2>1. k \in Ages' /\ k + 1 \in Ages /\ Nth(k)' = Nth(k + 1) /\ (AddrValid(k)' <=> AddrValid(k + 1))
    BY <1>3, <1>4, <1>5
  <2> QED BY <2>1 DEF KnownStores, UnknownStores, AccessedLoads, Pending
<1>7. QueueShape'
  <2>1. lsqHead' \in LsqSlots /\ lsqCount' \in 0 .. LsqSize
    BY <1>1, <1>2, IndexInRange
  <2> QED BY <1>1, <2>1 DEF QueueShape, LsqSlots
<1>8. EntriesRight'
  <2>1. \A s \in LsqSlots : EntryRight(s)'
    BY <1>1 DEF EntriesRight, EntryRight
  <2>2. \A k \in Ages' : Nth(k)'.id \in 1 .. MaxOps
    BY <1>3, <1>4 DEF EntriesRight
  <2> QED BY <2>1, <2>2 DEF EntriesRight, LsqSlots
<1>9. StoreRequests' = StoreRequests /\ LoadRequests' = LoadRequests /\ PortShape'
  BY <1>1 DEF StoreRequests, LoadRequests, PortShape
<1>10. LoadsInPort'
  <2>1. \A i \in LoadRequests' : LoadRequestRight(i)'
    BY <1>1, RequestsCarry
  <2>2. ASSUME NEW k \in Pending' PROVE \E i \in LoadRequests' : LoadAsks(i, k)'
    <3>1. k \in 0 .. c - 2
      BY <1>3 DEF Pending
    <3>2. k + 1 \in Pending
      BY <1>6, <3>1
    <3>3. PICK i \in LoadRequests : LoadAsks(i, k + 1)
      BY <3>2 DEF LoadsInPort
    <3> QED BY <1>1, <1>4, <1>9, <3>1, <3>3 DEF LoadAsks
  <2> QED BY <2>1, <2>2 DEF LoadsInPort
<1>11. NeverPassesUnknownStore'
  <2> SUFFICES ASSUME mode' # "Speculative", NEW k \in AccessedLoads', NEW j \in UnknownStores'
               PROVE  Fault(k)' \/ j > k
    BY DEF NeverPassesUnknownStore
  <2>1. k \in 0 .. c - 2 /\ j \in 0 .. c - 2
    BY <1>3 DEF AccessedLoads, UnknownStores
  <2>2. k + 1 \in AccessedLoads /\ j + 1 \in UnknownStores
    BY <1>6, <2>1
  <2>3. Fault(k + 1) \/ j + 1 > k + 1
    BY <1>1, <2>2 DEF NeverPassesUnknownStore
  <2> QED BY <1>2, <1>5, <2>1, <2>3
<1> QED BY <1>1, <1>2, <1>3, <1>4, <1>5, <1>6, <1>7, <1>8, <1>9, <1>10, <1>11

(* When the head commits, a load behind it keeps its value: what the head  *)
(* would have supplied is now committed memory.                            *)
LEMMA PopLoads ==
  ASSUME MemInv, PopLsq, lsqCount > 0, UNCHANGED <<lsq, genCtr, port, ops, mode>>,
         ~Fault(0),
         \A b \in Bytes : /\ Writes(0, b) => arch'[b] = Nth(0).id
                          /\ ~Writes(0, b) => /\ arch'[b] = arch[b]
                                              /\ Writers(b) = {} => Writers(b)' = {}
  PROVE  LoadsRight'
<1> USE DEF MemInv
<1>1. PICK c : c = lsqCount
  OBVIOUS
<1>2. /\ c \in Nat /\ c > 0 /\ Ages = 0 .. c - 1 /\ Ages' = 0 .. c - 2
      /\ \A k \in 0 .. c - 2 : /\ k + 1 \in Ages /\ Slot(k)' = Slot(k + 1)
                               /\ Nth(k)' = Nth(k + 1)
                               /\ Fault(k)' <=> Fault(k + 1)
                               /\ k \in KnownStores' <=> k + 1 \in KnownStores
                               /\ k \in AccessedLoads' <=> k + 1 \in AccessedLoads
      /\ LoadRequests' = LoadRequests
  BY <1>1, PopCarries
<1> SUFFICES ASSUME NEW k \in AccessedLoads', ~Fault(k)', Clean(k)' PROVE LoadRight(k)'
  BY DEF LoadsRight
<1>3. PICK K, q : K = k + 1 /\ q = Nth(K)
  OBVIOUS
<1>4. /\ k \in 0 .. c - 2 /\ k \in Nat /\ K \in Ages /\ K \in AccessedLoads
      /\ q = Nth(k)' /\ Slot(k)' = Slot(K) /\ ~Fault(K)
  <2>1. k \in 0 .. c - 2
    BY <1>2 DEF AccessedLoads
  <2> QED BY <1>2, <1>3, <2>1
<1>5. Clean(K)
  <2> SUFFICES ASSUME NEW j \in KnownStores, j < K PROVE ~Fault(j)
    BY DEF Clean
  <2>1. CASE j = 0
    BY <2>1
  <2>2. CASE j # 0
    <3>1. PICK i : i = j - 1
      OBVIOUS
    <3>2. j \in 0 .. c - 1
      BY <1>2 DEF KnownStores
    <3>3. i \in 0 .. c - 2 /\ j = i + 1 /\ i < k
      BY <1>2, <1>3, <1>4, <2>2, <3>1, <3>2
    <3>4. i \in KnownStores' /\ (Fault(i)' <=> Fault(j))
      BY <1>2, <3>3
    <3> QED BY <3>3, <3>4 DEF Clean
  <2> QED BY <2>1, <2>2
<1>6. LoadRight(K)
  BY <1>4, <1>5 DEF LoadsRight
<1>7. /\ BytesOf(q.acc) \subseteq Bytes /\ (~q.done => q.issued)
  <2>1. Slot(K) \in LsqSlots /\ q = lsq[Slot(K)]
    BY <1>3, <1>4, QueueTypes
  <2>2. q.issued \/ q.done
    BY <1>3, <1>4 DEF AccessedLoads
  <2>3. q.acc # NoAccess
    BY <2>1, <2>2 DEF EntriesRight, EntryRight
  <2>4. q.acc \in Accesses /\ ~Faulty(q.acc)
    BY <1>3, <1>4, <2>3, AddressTypes DEF AddrValid, Fault
  <2> QED BY <2>2, <2>4, AccessBytes
<1>8. \A j \in 0 .. k - 1 : \A b \in BytesOf(q.acc) :
        /\ Writes(j, b)' <=> Writes(j + 1, b)
        /\ Writes(j + 1, b) => Nth(j)'.id = Nth(j + 1).id
  <2>1. \A j \in 0 .. k - 1 : j \in 0 .. c - 2
    BY <1>2, <1>4
  <2> QED BY <1>2, <2>1 DEF Writes
<1>9. \A i \in LoadRequests' : port'[i].performed => \E m \in LoadRequests : port[m] = port'[i]
  BY <1>2
<1>10. PICK d \in {0, 1} : d = 1
  OBVIOUS
<1>11. \A j \in 0 .. k - 1 : \A b \in BytesOf(q.acc) :
         /\ Writes(j, b)' <=> Writes(j + d, b)
         /\ Writes(j + d, b) => Nth(j)'.id = Nth(j + d).id
  BY <1>8, <1>10
<1>12. \A b \in BytesOf(q.acc) :
         /\ (d = 1 /\ Writes(0, b)) => arch'[b] = Nth(0).id
         /\ ~(d = 1 /\ Writes(0, b)) =>
              /\ arch'[b] = arch[b]
              /\ ~q.done /\ Writers(b) = {} => Writers(b)' = {}
  BY <1>7, <1>10
<1>13. PICK r : r = Nth(k)'
  OBVIOUS
<1>14. /\ K = k + d /\ k \in Nat /\ d \in {0, 1} /\ Slot(k)' = Slot(K) /\ q = Nth(K)
       /\ LoadRight(K) /\ (~q.done => q.issued)
  BY <1>3, <1>4, <1>6, <1>7, <1>10
<1>15. /\ r.acc = q.acc /\ r.issued = q.issued /\ r.done = q.done /\ r.val = q.val
       /\ r.gen = q.gen
  BY <1>4, <1>13
<1>16. Moved(k, d, K, q, r)
  BY <1>9, <1>11, <1>12, <1>13, <1>14, <1>15 DEF Moved
<1> QED BY <1>14, <1>16, LoadMoves

LEMMA CommitLoadKeeps ==
  ASSUME MemInv, CommitLoad
  PROVE  MemInv'
<1> USE DEF MemInv
<1>1. /\ PopLsq /\ lsqCount > 0 /\ UNCHANGED <<lsq, genCtr, port, ops, mode>> /\ ~Fault(0)
      /\ UNCHANGED <<sbVars, port, mem, arch>> /\ Nth(0).reported
  BY DEF CommitLoad
<1>2. /\ QueueShape' /\ EntriesRight' /\ NeverPassesUnknownStore' /\ LoadsInPort' /\ PortShape'
      /\ 0 \in Ages
  <2>1. PICK c : c = lsqCount
    OBVIOUS
  <2>2. /\ QueueShape' /\ EntriesRight' /\ NeverPassesUnknownStore' /\ LoadsInPort' /\ PortShape'
        /\ c \in Nat /\ c > 0 /\ Ages = 0 .. c - 1
    BY <1>1, <2>1, PopCarries
  <2> QED BY <2>2
<1>3. /\ BufferShape' /\ MemShape' /\ BufferRight' /\ StoresInPort' /\ MemoryRight'
      /\ \A b : Writers(b)' = Writers(b)
  BY <1>1, EngineStill
<1>4. \A b : ~Writes(0, b)
  <2>1. Slot(0) \in LsqSlots /\ Nth(0) = lsq[Slot(0)]
    BY <1>2, QueueTypes
  <2>2. ~Nth(0).isStore
    BY <1>1, <2>1 DEF EntriesRight, EntryRight
  <2> QED BY <2>2 DEF Writes, KnownStores
<1>5. \A b \in Bytes : /\ Writes(0, b) => arch'[b] = Nth(0).id
                       /\ ~Writes(0, b) => /\ arch'[b] = arch[b]
                                           /\ Writers(b) = {} => Writers(b)' = {}
  BY <1>1, <1>3, <1>4
<1>6. LoadsRight'
  BY <1>1, <1>5, PopLoads
<1> QED BY <1>2, <1>3, <1>6

LEMMA CommitStoreKeeps ==
  ASSUME MemInv, CommitStore
  PROVE  MemInv'
<1> USE DEF MemInv
<1>1. PICK c, n, s, q, e :
        /\ c = sbCount /\ n = sbIssued /\ s = SbSlot(c) /\ q = Nth(0)
        /\ e = [NoSbEntry EXCEPT !.acc = q.acc, !.id = q.id]
  OBVIOUS
<1>2. /\ PopLsq /\ lsqCount > 0 /\ UNCHANGED <<lsq, genCtr, port, ops, mode>> /\ ~Fault(0)
      /\ UNCHANGED <<sbHead, sbIssued, sbTxnCtr, port, mem>>
      /\ q.isStore /\ AddrValid(0) /\ c < SbSize
      /\ sb' = [sb EXCEPT ![s] = e] /\ sbCount' = c + 1
      /\ arch' = [b \in Bytes |-> IF b \in BytesOf(q.acc) THEN q.id ELSE arch[b]]
  BY <1>1 DEF CommitStore
<1>3. /\ QueueShape' /\ EntriesRight' /\ NeverPassesUnknownStore' /\ LoadsInPort' /\ PortShape'
      /\ 0 \in Ages /\ StoreRequests' = StoreRequests
  <2>1. PICK m : m = lsqCount
    OBVIOUS
  <2>2. /\ QueueShape' /\ EntriesRight' /\ NeverPassesUnknownStore' /\ LoadsInPort' /\ PortShape'
        /\ m \in Nat /\ m > 0 /\ Ages = 0 .. m - 1 /\ StoreRequests' = StoreRequests
    BY <1>2, <2>1, PopCarries
  <2> QED BY <2>2
<1>4. q \in LsqEntries /\ q.acc \in Accesses /\ ~Faulty(q.acc) /\ q.id \in OpIds
      /\ 0 \in KnownStores
  <2>1. q \in LsqEntries /\ q.id \in OpIds
    BY <1>1, <1>3, QueueTypes DEF LsqEntries
  <2>2. q.acc \in Accesses
    BY <1>1, <1>2, <1>3, AddressTypes
  <2>3. ~Faulty(q.acc)
    BY <1>1, <1>2 DEF Fault
  <2>4. 0 \in KnownStores
    BY <1>1, <1>2, <1>3 DEF KnownStores
  <2> QED BY <2>1, <2>2, <2>3, <2>4
<1>5. /\ e.acc = q.acc /\ e.id = q.id /\ ~e.inflight /\ ~e.acked /\ e \in SbEntries
  BY <1>1, <1>4 DEF NoSbEntry, SbEntries
<1>6. /\ c \in Nat /\ n \in Nat /\ SbSize \in Nat /\ n <= c /\ sbTxnCtr \in Nat
      /\ SbSlots = 0 .. SbSize - 1 /\ s \in SbSlots
      /\ \A j, k \in 0 .. SbSize - 1 : SbSlot(j) = SbSlot(k) => j = k
  BY <1>1, <1>2, BufferTypes DEF BufferShape
<1>7. /\ SbAges = 0 .. c - 1 /\ SbAges' = 0 .. c /\ \A j : SbSlot(j)' = SbSlot(j)
      /\ SbAges' = SbAges \cup {c} /\ c \notin SbAges
  <2>1. SbAges = 0 .. c - 1 /\ SbAges' = 0 .. (c + 1) - 1
    BY <1>1, <1>2 DEF SbAges
  <2>2. \A j : SbSlot(j)' = SbSlot(j)
    BY <1>2 DEF SbSlot
  <2> QED BY <1>6, <2>1, <2>2
<1>8. /\ sb' \in [SbSlots -> SbEntries] /\ SbNth(c)' = e
      /\ \A j \in SbAges : SbSlot(j) # s /\ SbNth(j)' = SbNth(j)
  <2>1. sb' \in [SbSlots -> SbEntries] /\ sb'[s] = e
    BY <1>2, <1>5, <1>6 DEF BufferShape
  <2>2. SbNth(c)' = e
    BY <1>1, <1>7, <2>1 DEF SbNth
  <2>3. ASSUME NEW j \in SbAges PROVE SbSlot(j) # s /\ SbNth(j)' = SbNth(j)
    <3>1. j \in 0 .. SbSize - 1 /\ c \in 0 .. SbSize - 1 /\ j # c /\ SbSlot(j) \in SbSlots
      <4>1. j \in 0 .. SbSize - 1 /\ SbSlot(j) \in SbSlots
        BY BufferTypes
      <4>2. j # c
        BY <1>7
      <4>3. c \in 0 .. SbSize - 1
        BY <1>2, <1>6
      <4> QED BY <4>1, <4>2, <4>3
    <3>2. SbSlot(j) # s
      BY <1>1, <1>6, <3>1
    <3> QED BY <1>2, <1>7, <3>1, <3>2 DEF SbNth, BufferShape
  <2> QED BY <2>1, <2>2, <2>3
<1>9. BufferShape' /\ MemShape'
  <2>1. sbCount' \in 0 .. SbSize /\ sbIssued' \in 0 .. c + 1
    BY <1>1, <1>2, <1>6
  <2>2. BufferShape'
    BY <1>2, <1>8, <2>1 DEF BufferShape, SbSlots
  <2>3. arch' \in [Bytes -> OpIds]
    BY <1>2, <1>4 DEF MemShape
  <2> QED BY <1>2, <2>2, <2>3 DEF MemShape, Bytes, OpIds
<1>10. BufferRight'
  <2> SUFFICES ASSUME NEW j \in SbAges'
               PROVE  /\ SbNth(j)'.acc \in Accesses /\ ~Faulty(SbNth(j)'.acc)
                      /\ SbNth(j)'.inflight <=> j < n
                      /\ SbNth(j)'.acked => j < n
                      /\ j < n => /\ SbNth(j)'.txn < sbTxnCtr
                                  /\ \A i \in 0 .. j - 1 : SbNth(i)'.txn < SbNth(j)'.txn
    BY <1>1, <1>2 DEF BufferRight
  <2>1. CASE j = c
    BY <1>4, <1>5, <1>6, <1>8, <2>1
  <2>2. CASE j \in SbAges
    <3>1. \A i \in 0 .. j - 1 : i \in SbAges
      BY <1>6, <1>7, <2>2
    <3> QED BY <1>1, <1>8, <2>2, <3>1 DEF BufferRight
  <2> QED BY <1>7, <2>1, <2>2
<1>11. \A j \in 0 .. n - 1 : j \in SbAges
  BY <1>6, <1>7
<1>12. StoresInPort'
  <2>1. \A i \in StoreRequests : \A j \in SbAges : StoreAsks(i, j)' <=> StoreAsks(i, j)
    BY <1>2, <1>7, <1>8 DEF StoreAsks
  <2> QED BY <1>1, <1>2, <1>3, <1>8, <1>11, <2>1 DEF StoresInPort
<1>13. \A j \in SbAges : Performed(j)' <=> Performed(j)
  BY <1>2, <1>3, <1>7, <1>8 DEF Performed
<1>14. ~Performed(c)'
  <2>1. ASSUME NEW i \in StoreRequests PROVE port[i].slot # s
    <3>1. PICK j \in 0 .. n - 1 : StoreAsks(i, j)
      BY <1>1 DEF StoresInPort
    <3> QED BY <1>8, <1>11, <3>1 DEF StoreAsks
  <2> QED BY <1>1, <1>2, <1>3, <1>5, <1>7, <1>8, <2>1 DEF Performed
<1>15. \A b : Writers(b)' = Writers(b) \cup (IF b \in BytesOf(q.acc) THEN {c} ELSE {})
  BY <1>5, <1>7, <1>8 DEF Writers
<1>16. MemoryRight'
  <2>1. ASSUME NEW b \in Bytes PROVE ByteRight(b)'
    <3>1. ByteRight(b) /\ mem' = mem
      BY <1>2 DEF MemoryRight
    <3>2. \A j \in Writers(b) : /\ j \in Nat /\ j < c /\ SbNth(j)' = SbNth(j)
                                /\ Performed(j)' <=> Performed(j)
      <4>1. \A j \in Writers(b) : j \in SbAges
        BY DEF Writers
      <4> QED BY <1>6, <1>7, <1>8, <1>13, <4>1
    <3>3. CASE b \notin BytesOf(q.acc)
      <4>1. Writers(b)' = Writers(b) /\ arch'[b] = arch[b]
        BY <1>2, <1>15, <3>3
      <4> QED BY <3>1, <3>2, <4>1 DEF ByteRight
    <3>4. CASE b \in BytesOf(q.acc)
      <4>1. Writers(b)' = Writers(b) \cup {c} /\ arch'[b] = q.id /\ SbNth(c)'.id = q.id
        BY <1>2, <1>5, <1>8, <1>15, <3>4
      <4>2. ASSUME NEW j \in Writers(b)'
            PROVE  /\ (\A i \in Writers(b)' : i <= j) => arch'[b] = SbNth(j)'.id
                   /\ Performed(j)' => \A i \in Writers(b)' : i < j => Performed(i)'
                   /\ (Performed(j)' /\ \A i \in Writers(b)' : j < i => ~Performed(i)')
                        => mem'[b] = SbNth(j)'.id
        <5>1. CASE j = c
          BY <1>14, <4>1, <5>1
        <5>2. CASE j \in Writers(b)
          <6>1. ~(c <= j) /\ ~(c < j)
            BY <1>6, <3>2, <5>2
          <6> QED BY <3>1, <3>2, <4>1, <5>2, <6>1 DEF ByteRight
        <5> QED BY <4>1, <5>1, <5>2
      <4> QED BY <4>1, <4>2 DEF ByteRight
    <3> QED BY <3>3, <3>4
  <2> QED BY <2>1 DEF MemoryRight, Bytes
<1>17. \A b \in Bytes : /\ Writes(0, b) => arch'[b] = Nth(0).id
                        /\ ~Writes(0, b) => /\ arch'[b] = arch[b]
                                            /\ Writers(b) = {} => Writers(b)' = {}
  <2>1. \A b : Writes(0, b) <=> b \in BytesOf(q.acc)
    BY <1>1, <1>4 DEF Writes
  <2> QED BY <1>1, <1>2, <1>15, <2>1
<1>18. LoadsRight'
  BY <1>2, <1>17, PopLoads
<1> QED BY <1>3, <1>9, <1>10, <1>12, <1>16, <1>18

LEMMA PortPerformKeeps ==
  ASSUME MemInv, NEW i \in 1 .. Len(port), PortPerform(i)
  PROVE  MemInv'
BY PerformLoadKeeps, PerformStoreKeeps

LEMMA MemStutterKeeps ==
  ASSUME MemInv, UNCHANGED memVars
  PROVE  MemInv'
<1>1. /\ QueueShape /\ UNCHANGED <<lsqHead, genCtr, ops, mode>>
      /\ UNCHANGED <<sbVars, port, mem, arch>> /\ UNCHANGED <<lsq, lsqCount>>
  BY DEF memVars, lsqVars, archVars, MemInv
<1>2. QueueShape' /\ lsqCount' <= lsqCount
  BY <1>1, QueueTypes DEF QueueShape
<1>3. \A s \in LsqSlots : lsq'[s].reported => lsq[s].done
  BY <1>1 DEF MemInv, EntriesRight, EntryRight
<1> QED BY <1>1, <1>2, <1>3, QueueCarries
-----------------------------------------------------------------------------
(* The theorems *)

LEMMA MemInvStarts == MemInit => MemInv
<1> SUFFICES ASSUME MemInit PROVE MemInv
  OBVIOUS
<1> USE DEF MemInit
<1>1. LsqSize \in Nat \ {0} /\ SbSize \in Nat \ {0} /\ GenMod \in Nat \ {0} /\ MaxOps \in Nat
  BY MemOrderAssumption
<1>2. NoLsqEntry \in LsqEntries /\ NoSbEntry \in SbEntries
  BY <1>1 DEF NoLsqEntry, NoSbEntry, LsqEntries, SbEntries, OpIds, Vals
<1>3. QueueShape /\ BufferShape /\ MemShape
  BY <1>1, <1>2 DEF QueueShape, BufferShape, MemShape, LsqSlots, SbSlots, OpIds
<1>4. PortShape
  <2>1. port = <<>> /\ <<>> \in Seq(Requests) /\ Len(<<>>) = 0 /\ PortCap \in Nat
    BY MemOrderAssumption
  <2> QED BY <2>1 DEF PortShape
<1>5. Ages = {} /\ SbAges = {} /\ StoreRequests = {} /\ LoadRequests = {}
  <2>1. 0 .. 0 - 1 = {} /\ 1 .. 0 = {} /\ Len(port) = 0
    OBVIOUS
  <2> QED BY <2>1 DEF Ages, SbAges, StoreRequests, LoadRequests
<1>6. AccessedLoads = {} /\ Pending = {} /\ \A b : Writers(b) = {}
  BY <1>5 DEF AccessedLoads, Pending, Writers
<1>7. EntriesRight
  BY <1>5 DEF EntriesRight, EntryRight, NoLsqEntry
<1>8. BufferRight /\ LoadsInPort /\ MemoryRight /\ NeverPassesUnknownStore /\ LoadsRight
  BY <1>5, <1>6 DEF BufferRight, LoadsInPort, MemoryRight, ByteRight, NeverPassesUnknownStore,
                    LoadsRight
<1>9. StoresInPort
  <2>1. 0 .. sbIssued - 1 = {}
    OBVIOUS
  <2> QED BY <1>5, <2>1 DEF StoresInPort
<1> QED BY <1>3, <1>4, <1>7, <1>8, <1>9 DEF MemInv

LEMMA MemInvNext ==
  ASSUME MaxOps < GenMod
  PROVE  MemInv /\ [MemNext]_memVars => MemInv'
<1> SUFFICES ASSUME MemInv, [MemNext]_memVars PROVE MemInv'
  OBVIOUS
<1>1. CASE \E isStore, ready \in BOOLEAN : Dispatch(isStore, ready)
  BY <1>1, DispatchKeeps
<1>2. CASE \E k \in Ages, acc \in Accesses : ResolveAddress(k, acc)
  BY <1>2, ResolveKeeps
<1>3. CASE \E k \in Ages : Squash(k) \/ CaptureData(k) \/ ReportLoad(k)
  BY <1>3, SquashKeeps, CaptureKeeps, ReportKeeps
<1>4. CASE MemAccess
  BY <1>4, MemAccessKeeps
<1>5. CASE \E i \in 1 .. Len(port) : PortPerform(i) \/ Respond(i)
  BY <1>5, PortPerformKeeps, RespondKeeps
<1>6. CASE SbPop
  BY <1>6, SbPopKeeps
<1>7. CASE CommitLoad
  BY <1>7, CommitLoadKeeps
<1>8. CASE CommitStore
  BY <1>8, CommitStoreKeeps
<1>9. CASE UNCHANGED memVars
  BY <1>9, MemStutterKeeps
<1> QED BY <1>1, <1>2, <1>3, <1>4, <1>5, <1>6, <1>7, <1>8, <1>9 DEF MemNext

(* The engine of core/lsq.h keeps its invariant in all three modes, for    *)
(* queues, buffers and programs of any size.  Every theorem below assumes  *)
(* MaxOps < GenMod: generations (LSQ::genCtr) do not come round.  With the *)
(* code's 16 bits they do after 65536 uses of one slot, which is harmless  *)
(* unless all of them fall within one access; that the model cannot say.   *)
THEOREM EngineInvariant ==
  ASSUME MaxOps < GenMod
  PROVE  MemSpec => []MemInv
<1>1. MemInv /\ [MemNext]_memVars => MemInv'
  BY MemInvNext
<1> QED BY <1>1, MemInvStarts, PTL DEF MemSpec

(* Conservative and Bypass loads never overtake a store whose address      *)
(* aguDrain has not computed yet (the wall in lsqOperate).                 *)
THEOREM NoLoadGuesses ==
  ASSUME MaxOps < GenMod
  PROVE  MemSpec => []NeverPassesUnknownStore
<1>1. MemInv => NeverPassesUnknownStore
  BY DEF MemInv
<1> QED BY <1>1, EngineInvariant, PTL

LEMMA EngineTypes ==
  ASSUME MemInv
  PROVE  MemTypeOK
<1> USE DEF MemInv
<1>1. ASSUME NEW s \in LsqSlots
      PROVE  /\ lsq[s].id \in OpIds /\ lsq[s].gen \in 0 .. GenMod - 1
             /\ lsq[s].acc \in Accesses \cup {NoAccess}
             /\ \A f \in {"isStore", "dataReady", "issued", "done", "reported"} :
                  lsq[s][f] \in BOOLEAN
             /\ lsq[s].val # <<>> => lsq[s].val \in [BytesOf(lsq[s].acc) -> OpIds]
  <2>1. PICK e \in LsqEntries : e = lsq[s]
    BY DEF QueueShape
  <2>2. /\ e.id \in OpIds /\ e.gen \in 0 .. GenMod - 1
        /\ e.acc \in Accesses \cup {NoAccess}
    BY DEF LsqEntries
  <2>3. \A f \in {"isStore", "dataReady", "issued", "done", "reported"} : e[f] \in BOOLEAN
    BY DEF LsqEntries
  <2>4. e.val # <<>> => e.val \in [BytesOf(e.acc) -> OpIds]
    BY <2>1 DEF EntriesRight, EntryRight
  <2> QED BY <2>1, <2>2, <2>3, <2>4
<1>2. \A s \in SbSlots : sb[s].acc \in Accesses \cup {NoAccess} /\ sb[s].id \in OpIds
  BY DEF BufferShape, SbEntries
<1> QED BY <1>1, <1>2 DEF MemTypeOK, QueueShape, BufferShape, PortShape, MemShape

LEMMA BufferAccounts ==
  ASSUME MemInv, NEW b \in Bytes,
         NEW S, S = {j \in SbAges : b \in BytesOf(SbNth(j).acc)}
  PROVE  arch[b] = IF S = {} THEN mem[b]
                   ELSE SbNth(CHOOSE m \in S : \A x \in S : x <= m).id
<1>1. S = Writers(b) /\ ByteRight(b)
  BY DEF MemInv, MemoryRight, Writers
<1>2. CASE S = {}
  BY <1>1, <1>2 DEF ByteRight
<1>3. CASE S # {}
  <2>1. SbAges = 0 .. sbCount - 1 /\ sbCount \in Nat
    BY BufferTypes DEF SbAges, MemInv
  <2>2. S \subseteq 0 .. sbCount
    BY <2>1
  <2>3. \E m \in S : \A x \in S : x <= m
    BY <1>3, <2>1, <2>2, MaxExists
  <2>4. PICK m : m = CHOOSE y \in S : \A x \in S : x <= y
    OBVIOUS
  <2>5. m \in S /\ \A x \in S : x <= m
    BY <2>3, <2>4
  <2> QED BY <1>1, <1>3, <2>4, <2>5 DEF ByteRight
<1> QED BY <1>2, <1>3

(* A store leaves the buffer of core/lsq.h only when its write is done, in *)
(* whatever order acknowledgements come back: buffer and memory together   *)
(* are committed memory, byte by byte.                                     *)
THEOREM BufferHoldsTheRest ==
  ASSUME MaxOps < GenMod
  PROVE  MemSpec => []BufferedMemory
<1>1. MemInv => BufferedMemory
  <2> SUFFICES ASSUME MemInv PROVE BufferedMemory
    OBVIOUS
  <2>1. ASSUME NEW b \in Bytes, NEW S, S = {j \in SbAges : b \in BytesOf(SbNth(j).acc)}
        PROVE  arch[b] = IF S = {} THEN mem[b]
                         ELSE SbNth(CHOOSE m \in S : \A x \in S : x <= m).id
    BY <2>1, BufferAccounts
  <2> QED BY <2>1, EngineTypes DEF BufferedMemory
<1> QED BY <1>1, EngineInvariant, PTL

LEMMA EachHasItsResponse ==
  ASSUME MemInv
  PROVE  ResponsesFindTheirOwner
<1> USE DEF MemInv
<1>1. \A j \in SbAges : SbNth(j).inflight => j \in 0 .. sbIssued - 1
  <2>1. \A j \in SbAges : j \in Nat
    BY BufferTypes DEF SbAges
  <2> QED BY <2>1, BufferTypes DEF BufferRight
<1>2. ASSUME NEW i \in StoreRequests, NEW j \in SbAges, StoreAsks(i, j), SbNth(j).inflight
      PROVE  AckMatches(port[i])
  <2>1. SbSlot(j) \in SbSlots /\ SbNth(j) = sb[SbSlot(j)] /\ port[i].slot = SbSlot(j)
    BY <1>2, BufferTypes DEF StoreAsks
  <2>2. Live(SbSize, sbHead, sbCount, port[i].slot)
    <3>1. /\ SbSize \in Nat /\ sbHead \in 0 .. SbSize - 1 /\ sbCount \in 0 .. SbSize
          /\ port[i].slot \in 0 .. SbSize - 1
      BY <2>1, BufferTypes DEF BufferShape
    <3>2. \E k \in 0 .. sbCount - 1 : IndexOf(SbSize, sbHead, k) = port[i].slot
      BY <2>1 DEF SbAges, SbSlot
    <3> QED BY <3>1, <3>2, LiveIsOccupied
  <2> QED BY <1>2, <2>1, <2>2 DEF AckMatches, StoreAsks
<1>3. ASSUME NEW i \in 1 .. Len(port),
             IF port[i].isStore THEN AckMatches(port[i]) ELSE LoadMatches(port[i])
      PROVE  Owned(port[i].slot, port[i]) = port[i].id
  <2>1. CASE port[i].isStore
    <3>1. i \in StoreRequests
      BY <2>1 DEF StoreRequests
    <3>2. PICK w \in SbAges : StoreAsks(i, w)
      BY <3>1, StoreOwner
    <3>3. SbNth(w) = sb[port[i].slot]
      BY <3>2, BufferTypes DEF StoreAsks
    <3> QED BY <2>1, <3>2, <3>3 DEF Owned, StoreAsks
  <2>2. CASE ~port[i].isStore
    <3>1. i \in LoadRequests /\ LoadMatches(port[i])
      BY <1>3, <2>2 DEF LoadRequests
    <3>2. PICK k \in Pending : LoadAsks(i, k) /\ Nth(k).id = port[i].id
      BY <3>1, LoadOwner
    <3>3. Nth(k) = lsq[port[i].slot]
      BY <3>2, QueueTypes DEF LoadAsks, Pending
    <3> QED BY <2>2, <3>2, <3>3 DEF Owned
  <2> QED BY <2>1, <2>2
<1>4. ASSUME NEW k \in Pending
      PROVE  \E i \in 1 .. Len(port) :
               ~port[i].isStore /\ port[i].slot = Slot(k) /\ LoadMatches(port[i])
  <2>1. PICK i \in LoadRequests : LoadAsks(i, k)
    BY DEF LoadsInPort
  <2> QED BY <2>1, LoadOwner DEF LoadRequests, LoadAsks
<1>5. ASSUME NEW j \in SbAges, SbNth(j).inflight, ~SbNth(j).acked
      PROVE  \E i \in 1 .. Len(port) :
               port[i].isStore /\ port[i].slot = SbSlot(j) /\ AckMatches(port[i])
  <2>1. PICK i \in StoreRequests : StoreAsks(i, j)
    BY <1>1, <1>5 DEF StoresInPort
  <2> QED BY <1>2, <1>5, <2>1 DEF StoreRequests, StoreAsks
<1> QED BY <1>3, <1>4, <1>5 DEF ResponsesFindTheirOwner

(* "Stale responses to this slot die here" (core/lsq.h), and live ones do  *)
(* not: whatever was squashed meanwhile, drainDataResponses gives each     *)
(* waiting entry the answer to its own request and to no other.            *)
THEOREM OwnResponseOnly ==
  ASSUME MaxOps < GenMod
  PROVE  MemSpec => []ResponsesFindTheirOwner
<1>1. MemInv => ResponsesFindTheirOwner
  BY EachHasItsResponse
<1> QED BY <1>1, EngineInvariant, PTL
-----------------------------------------------------------------------------
(* Program order *)

LEMMA OrderedIsProgram ==
  ASSUME QueueShape, NEW k \in Ages, OrderedValue(k, Nth(k).val)
  PROVE  Nth(k).val = ProgramValue(k)
<1> DEFINE Older(b) == {j \in KnownStores : j < k /\ b \in BytesOf(Nth(j).acc)}
           from(b) == IF Older(b) = {} THEN arch[b]
                      ELSE Nth(CHOOSE m \in Older(b) : \A x \in Older(b) : x <= m).id
<1>1. ProgramValue(k) = [b \in BytesOf(Nth(k).acc) |-> from(b)]
  BY DEF ProgramValue
<1>2. Ages = 0 .. lsqCount - 1 /\ lsqCount \in Nat /\ k \in Nat
  BY AgesRange
<1>3. ASSUME NEW b PROVE /\ \A j \in 0 .. k - 1 : Writes(j, b) <=> j \in Older(b)
                         /\ Older(b) \subseteq 0 .. k - 1
  <2>1. \A j \in KnownStores : j \in 0 .. lsqCount - 1
    BY <1>2 DEF KnownStores
  <2> QED BY <1>2, <2>1 DEF Writes
<1>4. ASSUME NEW b \in BytesOf(Nth(k).acc) PROVE Nth(k).val[b] = from(b)
  <2>1. PICK S : S = Older(b)
    OBVIOUS
  <2>2. S \subseteq 0 .. k - 1 /\ \A j \in 0 .. k - 1 : Writes(j, b) <=> j \in S
    BY <1>3, <2>1
  <2>3. from(b) = IF S = {} THEN arch[b] ELSE Nth(CHOOSE m \in S : \A x \in S : x <= m).id
    BY <2>1
  <2> HIDE DEF Older, from
  <2>4. CASE S = {}
    BY <2>2, <2>3, <2>4 DEF OrderedValue
  <2>5. CASE S # {}
    <3>1. S \subseteq 0 .. k
      BY <1>2, <2>2
    <3>2. \E m \in S : \A x \in S : x <= m
      BY <1>2, <2>5, <3>1, MaxExists
    <3>3. PICK m : m = CHOOSE y \in S : \A x \in S : x <= y
      OBVIOUS
    <3>4. m \in S /\ \A x \in S : x <= m
      BY <3>2, <3>3
    <3>5. m \in 0 .. k - 1 /\ Writes(m, b)
      BY <2>2, <3>4
    <3>6. \A j \in m + 1 .. k - 1 : ~Writes(j, b)
      <4>1. \A j \in m + 1 .. k - 1 : j \in 0 .. k - 1 /\ ~(j <= m)
        BY <1>2, <3>5
      <4> QED BY <2>2, <3>4, <4>1
    <3>7. Nth(k).val[b] = Nth(m).id
      BY <3>5, <3>6 DEF OrderedValue
    <3> QED BY <2>3, <2>5, <3>3, <3>7
  <2> QED BY <2>4, <2>5
<1>5. Nth(k).val \in [BytesOf(Nth(k).acc) -> OpIds]
  BY DEF OrderedValue
<1> HIDE DEF Older, from
<1> QED BY <1>1, <1>4, <1>5

(* violationScan repairs every wrong guess: once the older stores have     *)
(* their addresses, a completed load holds the value of program order.     *)
THEOREM WrongGuessesAreGone ==
  ASSUME MaxOps < GenMod
  PROVE  MemSpec => []SpeculationRepaired
<1>1. MemInv => SpeculationRepaired
  <2> SUFFICES ASSUME MemInv, NEW k \in Ages, Nth(k).done, ~Fault(k),
                      \A j \in 0 .. k - 1 : Nth(j).isStore => AddrValid(j) /\ ~Fault(j)
               PROVE  Nth(k).val = ProgramValue(k)
    BY DEF SpeculationRepaired
  <2>1. Clean(k)
    <3>1. \A j \in KnownStores : j < k => j \in 0 .. k - 1 /\ Nth(j).isStore
      BY AgesRange DEF KnownStores, MemInv
    <3> QED BY <3>1 DEF Clean
  <2>2. LoadRight(k)
    BY <2>1 DEF MemInv, LoadsRight, AccessedLoads
  <2>3. OrderedValue(k, Nth(k).val)
    BY <2>2 DEF LoadRight, ValueRight
  <2> QED BY <2>3, OrderedIsProgram DEF MemInv
<1> QED BY <1>1, EngineInvariant, PTL

LEMMA CommittedLoad ==
  ASSUME MemInv, CommitLoad
  PROVE  InProgramOrder!SNext
<1> USE DEF MemInv
<1>1. PICK q : q = Nth(0)
  OBVIOUS
<1>2. /\ lsqCount > 0 /\ q.reported /\ ~Fault(0) /\ arch' = arch
      /\ obs' = [op |-> "load", acc |-> q.acc, val |-> q.val]
  BY <1>1 DEF CommitLoad
<1>3. 0 \in Ages /\ Slot(0) \in LsqSlots /\ q = lsq[Slot(0)]
  <2>1. 0 \in Ages
    BY <1>2, AgesRange
  <2> QED BY <1>1, <2>1, QueueTypes
<1>4. q.done /\ q.acc # NoAccess
  BY <1>2, <1>3 DEF EntriesRight, EntryRight
<1>5. /\ q.acc \in Accesses /\ ~Faulty(q.acc)
  BY <1>1, <1>2, <1>3, <1>4, AddressTypes DEF AddrValid, Fault
<1>6. PICK addr, size : q.acc = <<addr, size>> /\ addr \in Bytes /\ size \in {1, 2, 4}
                        /\ addr + size <= MemBytes
  BY <1>5, AccessBytes
<1>7. ValueRight(0)
  <2>1. Clean(0)
    BY AgesRange DEF Clean, KnownStores
  <2> QED BY <1>1, <1>2, <1>3, <1>4, <2>1 DEF LoadsRight, LoadRight, AccessedLoads
<1>8. q.val = [b \in BytesOf(q.acc) |-> arch[b]]
  <2>1. \A j \in 0 .. 0 - 1 : FALSE
    OBVIOUS
  <2> QED BY <1>1, <1>7, <2>1 DEF ValueRight, OrderedValue
<1>9. InProgramOrder!BytesOf(q.acc) = BytesOf(q.acc) /\ InProgramOrder!Bytes = Bytes
  BY DEF InProgramOrder!BytesOf, BytesOf, InProgramOrder!Bytes, Bytes
<1>10. InProgramOrder!Load(<<addr, size>>)
  BY <1>2, <1>6, <1>8, <1>9 DEF InProgramOrder!Load
<1> QED BY <1>6, <1>9, <1>10 DEF InProgramOrder!SNext

LEMMA CommittedStore ==
  ASSUME MemInv, CommitStore
  PROVE  InProgramOrder!SNext
<1> USE DEF MemInv
<1>1. PICK q : q = Nth(0)
  OBVIOUS
<1>2. /\ lsqCount > 0 /\ AddrValid(0) /\ ~Fault(0)
      /\ obs' = [op |-> "store", acc |-> q.acc, id |-> q.id]
      /\ arch' = [b \in Bytes |-> IF b \in BytesOf(q.acc) THEN q.id ELSE arch[b]]
  BY <1>1 DEF CommitStore
<1>3. 0 \in Ages
  BY <1>2, AgesRange
<1>4. q.acc \in Accesses /\ ~Faulty(q.acc) /\ q.id \in 1 .. MaxOps
  BY <1>1, <1>2, <1>3, AddressTypes DEF Fault, EntriesRight
<1>5. PICK addr, size : q.acc = <<addr, size>> /\ addr \in Bytes /\ size \in {1, 2, 4}
                        /\ addr + size <= MemBytes
  BY <1>4, AccessBytes
<1>6. InProgramOrder!BytesOf(q.acc) = BytesOf(q.acc) /\ InProgramOrder!Bytes = Bytes
  BY DEF InProgramOrder!BytesOf, BytesOf, InProgramOrder!Bytes, Bytes
<1>7. InProgramOrder!Store(<<addr, size>>, q.id)
  BY <1>2, <1>5, <1>6 DEF InProgramOrder!Store
<1> QED BY <1>4, <1>5, <1>6, <1>7 DEF InProgramOrder!SNext

(* What commitStage lets out of the load/store queue is one memory touched *)
(* in program order, in every ordering mode: however loads ran ahead,      *)
(* forwarded and replayed, and whatever order the port answered in.        *)
THEOREM OneMemoryInProgramOrder ==
  ASSUME MaxOps < GenMod
  PROVE  MemSpec => RefinesSeqMemory
<1>1. MemInit => InProgramOrder!SInit
  BY DEF MemInit, InProgramOrder!SInit, InProgramOrder!Bytes, Bytes
<1>2. MemInv /\ [MemNext]_memVars => [InProgramOrder!SNext]_InProgramOrder!svars
  <2> SUFFICES ASSUME MemInv, [MemNext]_memVars
               PROVE  InProgramOrder!SNext \/ UNCHANGED <<arch, obs>>
    BY DEF InProgramOrder!svars
  <2>1. CASE CommitLoad
    BY <2>1, CommittedLoad
  <2>2. CASE CommitStore
    BY <2>2, CommittedStore
  <2>3. CASE \E isStore, ready \in BOOLEAN : Dispatch(isStore, ready)
    BY <2>3 DEF Dispatch, archVars
  <2>4. CASE \E k \in Ages, acc \in Accesses : ResolveAddress(k, acc)
    BY <2>4 DEF ResolveAddress, archVars
  <2>5. CASE \E k \in Ages : Squash(k) \/ CaptureData(k) \/ ReportLoad(k)
    BY <2>5 DEF Squash, CaptureData, ReportLoad, archVars
  <2>6. CASE MemAccess
    BY <2>6 DEF MemAccess, archVars
  <2>7. CASE \E i \in 1 .. Len(port) : PortPerform(i) \/ Respond(i)
    BY <2>7 DEF PortPerform, Respond, archVars
  <2>8. CASE SbPop
    BY <2>8 DEF SbPop, archVars
  <2>9. CASE UNCHANGED memVars
    BY <2>9 DEF memVars, archVars
  <2> QED BY <2>1, <2>2, <2>3, <2>4, <2>5, <2>6, <2>7, <2>8, <2>9 DEF MemNext
<1> QED BY <1>1, <1>2, EngineInvariant,
           PTL DEF MemSpec, RefinesSeqMemory, InProgramOrder!SSpec, InProgramOrder!svars
-----------------------------------------------------------------------------
(* The sets of core/lsq.h, as what a search of the queue would find: q is  *)
(* the queue and L the slots of its live entries.                          *)
Unsent     == {e \in LsqEntries : ~e.isStore /\ e.acc # NoAccess /\ ~e.issued /\ ~e.done}
Sent       == {e \in LsqEntries : e.issued /\ ~e.done}
Accessed   == {e \in LsqEntries : e.issued \/ e.done}
Arrived    == {e \in LsqEntries : ~e.isStore /\ e.done /\ ~e.reported}
Dataless   == {e \in LsqEntries : e.isStore /\ ~e.dataReady}
Known      == {e \in LsqEntries : e.isStore /\ e.acc # NoAccess}
Unknown    == {e \in LsqEntries : e.isStore /\ e.acc = NoAccess}
KnownOn(b) == {e \in Known : b \in Touched(e.acc)}

In(K, q, L)  == {s \in L : q[s] \in K}
Num(K, q, L) == Cardinality(In(K, q, L))

WorkState ==
  [candidates : SUBSET LsqSlots, pending : SUBSET LsqSlots, updates : SUBSET LsqSlots,
   knownStores : SUBSET LsqSlots, unknownStores : SUBSET LsqSlots,
   accessedLoads : SUBSET LsqSlots, storeWords : [0 .. Buckets - 1 -> Int],
   pendingLoads : Int, unreportedLoads : Int, waitingStores : Int]

Exact(w, q, L) ==
  /\ w \in WorkState /\ L \subseteq LsqSlots
  /\ w.candidates = In(Unsent, q, L) /\ w.pending = In(Sent, q, L)
  /\ w.updates = In(Arrived, q, L) \cup In(Dataless, q, L)
  /\ w.knownStores = In(Known, q, L) /\ w.unknownStores = In(Unknown, q, L)
  /\ w.accessedLoads = In(Accessed, q, L)
  /\ \A b \in 0 .. Buckets - 1 : w.storeWords[b] = Num(KnownOn(b), q, L)
  /\ w.pendingLoads = Num(Sent, q, L) /\ w.unreportedLoads = Num(Arrived, q, L)
  /\ w.waitingStores = Num(Dataless, q, L)

LiveSlots == {Slot(k) : k \in Ages}

SetsInv == MemInv /\ Exact(work, lsq, LiveSlots)

LEMMA SlotsFinite ==
  ASSUME QueueShape, NEW L, L \subseteq LsqSlots
  PROVE  IsFiniteSet(L) /\ Cardinality(L) \in Nat
<1>1. LsqSize \in Nat /\ LsqSlots = 0 .. LsqSize - 1
  BY QueueTypes
<1>2. IsFiniteSet(LsqSlots)
  BY <1>1, FS_Interval
<1> QED BY <1>2, FS_Subset, FS_CardinalityType

(* Only the entries in the slots D changed their being in K.               *)
Apart(K, q, r, L, D) ==
  L \subseteq LsqSlots /\ D \subseteq L /\ \A s \in L \ D : r[s] \in K <=> q[s] \in K

LEMMA InChanged ==
  ASSUME QueueShape, NEW K, NEW q, NEW r, NEW L, NEW D, Apart(K, q, r, L, D)
  PROVE  /\ In(K, r, L) = (In(K, q, L) \ D) \cup In(K, r, D)
         /\ Num(K, r, L) = Num(K, q, L) - Num(K, q, D) + Num(K, r, D)
         /\ Num(K, q, L) \in Nat /\ Num(K, q, D) \in Nat /\ Num(K, r, D) \in Nat
<1> DEFINE A == In(K, q, L)
           B == In(K, q, D)
           C == In(K, r, D)
           E == In(K, r, L)
<1>1. E = (A \ D) \cup C /\ A \ D = A \ B /\ B \subseteq A /\ (A \ B) \cap C = {}
      /\ A \subseteq LsqSlots /\ B \subseteq LsqSlots /\ C \subseteq LsqSlots
  BY DEF In, Apart
<1> HIDE DEF A, B, C, E
<1>2. /\ IsFiniteSet(A) /\ Cardinality(A) \in Nat
      /\ IsFiniteSet(B) /\ Cardinality(B) \in Nat
      /\ IsFiniteSet(C) /\ Cardinality(C) \in Nat
  BY <1>1, SlotsFinite
<1>3. /\ IsFiniteSet(A \ B) /\ Cardinality(A \ B) = Cardinality(A) - Cardinality(B)
  <2>1. A \cap B = B
    BY <1>1
  <2> QED BY <1>2, <2>1, FS_Difference
<1>4. Cardinality((A \ B) \cup C) = Cardinality(A \ B) + Cardinality(C)
  <2>1. /\ IsFiniteSet((A \ B) \cup C)
        /\ Cardinality((A \ B) \cup C)
             = Cardinality(A \ B) + Cardinality(C) - Cardinality((A \ B) \cap C)
    BY <1>2, <1>3, FS_Union
  <2>2. Cardinality((A \ B) \cap C) = 0
    BY <1>1, FS_EmptySet
  <2>3. Cardinality(A \ B) \in Int
    BY <1>2, <1>3
  <2> QED BY <1>2, <2>1, <2>2, <2>3
<1>5. /\ E = (A \ D) \cup C
      /\ Cardinality(E) = Cardinality(A) - Cardinality(B) + Cardinality(C)
  BY <1>1, <1>2, <1>3, <1>4
<1> QED BY <1>2, <1>5 DEF Num, A, B, C, E

Within(L, D) == L \subseteq LsqSlots /\ D \subseteq L

(* Where a slot is added, or some go.                                      *)
LEMMA InRemoved ==
  ASSUME QueueShape, NEW q, NEW L, NEW D, Within(L, D), NEW K
  PROVE  /\ In(K, q, L \ D) = In(K, q, L) \ D
         /\ Num(K, q, L \ D) = Num(K, q, L) - Num(K, q, D)
         /\ Num(K, q, L) \in Nat /\ Num(K, q, D) \in Nat
<1> DEFINE A == In(K, q, L)
           B == In(K, q, D)
           E == In(K, q, L \ D)
<1>1. E = A \ D /\ E = A \ B /\ A \cap B = B
      /\ A \subseteq LsqSlots /\ B \subseteq LsqSlots
  BY DEF In, Within
<1> HIDE DEF A, B, E
<1>2. /\ IsFiniteSet(A) /\ Cardinality(A) \in Nat
      /\ IsFiniteSet(B) /\ Cardinality(B) \in Nat
  BY <1>1, SlotsFinite
<1>3. Cardinality(A \ B) = Cardinality(A) - Cardinality(B)
  BY <1>1, <1>2, FS_Difference
<1> QED BY <1>1, <1>2, <1>3 DEF Num, A, B, E

Beside(q, r, L, s) ==
  L \subseteq LsqSlots /\ s \in LsqSlots /\ s \notin L /\ \A t \in L : r[t] = q[t]

LEMMA InAdded ==
  ASSUME QueueShape, NEW K, NEW q, NEW r, NEW L, NEW s, Beside(q, r, L, s)
  PROVE  /\ In(K, r, L \cup {s}) = In(K, q, L) \cup (IF r[s] \in K THEN {s} ELSE {})
         /\ Num(K, r, L \cup {s}) = Num(K, q, L) + (IF r[s] \in K THEN 1 ELSE 0)
         /\ Num(K, q, L) \in Nat
<1> DEFINE A == In(K, q, L)
           E == In(K, r, L \cup {s})
<1>1. /\ E = A \cup IF r[s] \in K THEN {s} ELSE {}
      /\ s \notin A /\ A \subseteq LsqSlots
  BY DEF In, Beside
<1> HIDE DEF A, E
<1>2. IsFiniteSet(A) /\ Cardinality(A) \in Nat
  BY <1>1, SlotsFinite
<1>3. Cardinality(E) = Cardinality(A) + IF r[s] \in K THEN 1 ELSE 0
  <2>1. Cardinality(A \cup {s}) = Cardinality(A) + 1
    BY <1>1, <1>2, FS_AddElement
  <2>2. CASE r[s] \in K
    BY <1>1, <2>1, <2>2
  <2>3. CASE r[s] \notin K
    <3>1. E = A
      BY <1>1, <2>3
    <3> QED BY <1>2, <2>3, <3>1
  <2> QED BY <2>2, <2>3
<1> QED BY <1>1, <1>2, <1>3 DEF Num, A, E

(* Where one entry changed.                                                *)
OnlyAt(q, r, L, s) ==
  L \subseteq LsqSlots /\ s \in L /\ \A t \in L : t # s => r[t] = q[t]

LEMMA InOne ==
  ASSUME QueueShape, NEW K, NEW q, NEW r, NEW L, NEW s, OnlyAt(q, r, L, s)
  PROVE  /\ In(K, r, L) = (In(K, q, L) \ {s}) \cup (IF r[s] \in K THEN {s} ELSE {})
         /\ Num(K, r, L) = Num(K, q, L) - (IF q[s] \in K THEN 1 ELSE 0)
                                        + (IF r[s] \in K THEN 1 ELSE 0)
         /\ Num(K, q, L) \in Nat
<1>1. ASSUME NEW x PROVE In(K, x, {s}) = (IF x[s] \in K THEN {s} ELSE {})
                         /\ Num(K, x, {s}) = IF x[s] \in K THEN 1 ELSE 0
  <2>1. In(K, x, {s}) = IF x[s] \in K THEN {s} ELSE {}
    BY DEF In
  <2> QED BY <2>1, FS_EmptySet, FS_Singleton DEF Num
<1>2. L \subseteq LsqSlots /\ s \in L /\ \A t \in L \ {s} : r[t] \in K <=> q[t] \in K
  BY DEF OnlyAt
<1>3. /\ In(K, r, L) = (In(K, q, L) \ {s}) \cup In(K, r, {s})
      /\ Num(K, r, L) = Num(K, q, L) - Num(K, q, {s}) + Num(K, r, {s})
      /\ Num(K, q, L) \in Nat
  <2>1. PICK D : D = {s}
    OBVIOUS
  <2>2. Apart(K, q, r, L, D)
    BY <1>2, <2>1 DEF Apart
  <2>3. /\ In(K, r, L) = (In(K, q, L) \ D) \cup In(K, r, D)
        /\ Num(K, r, L) = Num(K, q, L) - Num(K, q, D) + Num(K, r, D)
        /\ Num(K, q, L) \in Nat
    BY <2>2, InChanged
  <2> QED BY <2>1, <2>3
<1>4. /\ In(K, q, {s}) = (IF q[s] \in K THEN {s} ELSE {})
      /\ Num(K, q, {s}) = IF q[s] \in K THEN 1 ELSE 0
  BY <1>1
<1>5. /\ In(K, r, {s}) = (IF r[s] \in K THEN {s} ELSE {})
      /\ Num(K, r, {s}) = IF r[s] \in K THEN 1 ELSE 0
  BY <1>1
<1>6. In(K, r, L) = (In(K, q, L) \ {s}) \cup (IF r[s] \in K THEN {s} ELSE {})
  BY <1>3, <1>5
<1>7. Num(K, r, L) = Num(K, q, L) - (IF q[s] \in K THEN 1 ELSE 0)
                                  + (IF r[s] \in K THEN 1 ELSE 0)
  BY <1>3, <1>4, <1>5
<1> QED BY <1>3, <1>6, <1>7

EntryOK(e) ==
  /\ e \in LsqEntries
  /\ e.issued \/ e.done => e.acc # NoAccess /\ ~e.isStore
  /\ e.reported => e.done

QueueOK(q) == \A s \in LsqSlots : EntryOK(q[s])

LEMMA QueueIsOK == MemInv => QueueOK(lsq)
BY DEF MemInv, QueueShape, EntriesRight, EntryRight, QueueOK, EntryOK

LEMMA BucketOf ==
  ASSUME NEW a \in Accesses
  PROVE  Touched(a) \subseteq 0 .. Buckets - 1
<1>1. a[1] \in Nat /\ a[1] + a[2] - 1 \in Nat
  BY AccessBytes
<1>2. ASSUME NEW x \in Nat PROVE wordBucket(x) \in 0 .. Buckets - 1
  <2>1. WordBytes \in Nat \ {0} /\ Buckets \in Nat \ {0}
    BY LsqSetsAssumption
  <2>2. x \div WordBytes \in Int
    BY <2>1
  <2> QED BY <2>1, <2>2 DEF wordBucket
<1> QED BY <1>1, <1>2 DEF Touched

(* remove, for entries that the queue q and lsq agree on.                  *)
LEMMA RemoveWork ==
  ASSUME QueueShape, QueueOK(lsq), NEW w, NEW q, NEW L, Exact(w, q, L), NEW S, S \subseteq L,
         \A s \in S : q[s] = lsq[s]
  PROVE  Exact(AfterRemove(w, S), q, L \ S)
<1> DEFINE H == {s \in S : lsq[s].isStore /\ lsq[s].acc # NoAccess}
           p == Cardinality({s \in S : lsq[s].issued /\ ~lsq[s].done})
           u == Cardinality({s \in S : ~lsq[s].isStore /\ lsq[s].done /\ ~lsq[s].reported})
           d == Cardinality({s \in S : lsq[s].isStore /\ ~lsq[s].dataReady})
           c == Uncounted(w.storeWords, H)
           r == AfterRemove(w, S)
<1>0. r = [w EXCEPT !.candidates = w.candidates \ S, !.pending = w.pending \ S,
                  !.updates = w.updates \ S, !.knownStores = w.knownStores \ S,
                  !.unknownStores = w.unknownStores \ S,
                  !.accessedLoads = w.accessedLoads \ S, !.storeWords = c,
                  !.pendingLoads = w.pendingLoads - p, !.unreportedLoads = w.unreportedLoads - u,
                  !.waitingStores = w.waitingStores - d]
  BY DEF AfterRemove
<1>1. \A s \in S : q[s] = lsq[s] /\ lsq[s] \in LsqEntries
  BY DEF QueueOK, EntryOK, Exact
<1>2. p = Num(Sent, q, S) /\ u = Num(Arrived, q, S) /\ d = Num(Dataless, q, S)
  <2>1. {s \in S : lsq[s].issued /\ ~lsq[s].done} = In(Sent, q, S)
    BY <1>1 DEF In, Sent
  <2>2. {s \in S : ~lsq[s].isStore /\ lsq[s].done /\ ~lsq[s].reported} = In(Arrived, q, S)
    BY <1>1 DEF In, Arrived
  <2>3. {s \in S : lsq[s].isStore /\ ~lsq[s].dataReady} = In(Dataless, q, S)
    BY <1>1 DEF In, Dataless
  <2> QED BY <2>1, <2>2, <2>3 DEF Num
<1>3. ASSUME NEW K
      PROVE  /\ In(K, q, L \ S) = In(K, q, L) \ S
             /\ Num(K, q, L \ S) = Num(K, q, L) - Num(K, q, S)
             /\ Num(K, q, L) \in Nat /\ Num(K, q, S) \in Nat
  <2>1. Within(L, S)
    BY DEF Within, Exact
  <2> QED BY <2>1, InRemoved
<1>4. /\ c \in [0 .. Buckets - 1 -> Int]
      /\ \A b \in 0 .. Buckets - 1 : c[b] = Num(KnownOn(b), q, L \ S)
  <2>1. ASSUME NEW b PROVE {s \in H : b \in Touched(lsq[s].acc)} = In(KnownOn(b), q, S)
    BY <1>1 DEF In, Known, KnownOn
  <2>2. DOMAIN w.storeWords = 0 .. Buckets - 1
    BY DEF Exact, WorkState
  <2> HIDE DEF H
  <2>3. c = [b \in 0 .. Buckets - 1 |-> w.storeWords[b] - Num(KnownOn(b), q, S)]
    BY <2>1, <2>2 DEF Uncounted, Num
  <2>4. \A b \in 0 .. Buckets - 1 : w.storeWords[b] = Num(KnownOn(b), q, L)
    BY DEF Exact
  <2>5. ASSUME NEW b \in 0 .. Buckets - 1
        PROVE  /\ w.storeWords[b] - Num(KnownOn(b), q, S) \in Int
               /\ w.storeWords[b] - Num(KnownOn(b), q, S) = Num(KnownOn(b), q, L \ S)
    BY <1>3, <2>4
  <2> HIDE DEF c
  <2> QED BY <2>3, <2>5
<1> HIDE DEF p, u, d, c, r
<1>5. /\ w \in WorkState /\ p \in Int /\ u \in Int /\ d \in Int
  BY <1>2, <1>3 DEF Exact
<1>6. r \in WorkState
  <2>1. /\ w.candidates \ S \in SUBSET LsqSlots /\ w.pending \ S \in SUBSET LsqSlots
        /\ w.updates \ S \in SUBSET LsqSlots /\ w.knownStores \ S \in SUBSET LsqSlots
        /\ w.unknownStores \ S \in SUBSET LsqSlots /\ w.accessedLoads \ S \in SUBSET LsqSlots
    BY <1>5 DEF WorkState
  <2>2. /\ w.pendingLoads - p \in Int /\ w.unreportedLoads - u \in Int
        /\ w.waitingStores - d \in Int
    BY <1>5 DEF WorkState
  <2> QED BY <1>0, <1>4, <1>5, <2>1, <2>2 DEF WorkState
<1>7. /\ r.candidates = w.candidates \ S /\ r.pending = w.pending \ S
      /\ r.updates = w.updates \ S /\ r.knownStores = w.knownStores \ S
      /\ r.unknownStores = w.unknownStores \ S /\ r.accessedLoads = w.accessedLoads \ S
      /\ r.storeWords = c /\ r.pendingLoads = w.pendingLoads - p
      /\ r.unreportedLoads = w.unreportedLoads - u /\ r.waitingStores = w.waitingStores - d
  BY <1>0, <1>5 DEF WorkState
<1>8. /\ r.candidates = In(Unsent, q, L \ S) /\ r.pending = In(Sent, q, L \ S)
      /\ r.updates = In(Arrived, q, L \ S) \cup In(Dataless, q, L \ S)
      /\ r.knownStores = In(Known, q, L \ S) /\ r.unknownStores = In(Unknown, q, L \ S)
      /\ r.accessedLoads = In(Accessed, q, L \ S)
  BY <1>3, <1>7 DEF Exact
<1>9. /\ r.pendingLoads = Num(Sent, q, L \ S) /\ r.unreportedLoads = Num(Arrived, q, L \ S)
      /\ r.waitingStores = Num(Dataless, q, L \ S)
  BY <1>2, <1>3, <1>7 DEF Exact
<1>10. L \ S \subseteq LsqSlots
  BY DEF Exact
<1> QED BY <1>4, <1>6, <1>7, <1>8, <1>9, <1>10 DEF Exact, r

(* setStoreSource of a store, or nothing, when an entry is dispatched.     *)
LEMMA SourceWork ==
  ASSUME QueueShape, NEW w, NEW q, NEW L, Exact(w, q, L), NEW s \in LsqSlots, s \notin L,
         NEW r, \A t \in L : r[t] = q[t],
         r[s] \in LsqEntries, r[s].acc = NoAccess, ~r[s].issued, ~r[s].done,
         r[s].isStore \/ r[s].dataReady
  PROVE  Exact(IF r[s].isStore THEN AfterSource(w, s, r[s].dataReady) ELSE w, r, L \cup {s})
<1> DEFINE M == L \cup {s}
           e == r[s]
           x == IF e.isStore THEN AfterSource(w, s, e.dataReady) ELSE w
           late == e.isStore /\ ~e.dataReady
<1>1. ASSUME NEW K
      PROVE  /\ In(K, r, M) = In(K, q, L) \cup (IF e \in K THEN {s} ELSE {})
             /\ Num(K, r, M) = Num(K, q, L) + (IF e \in K THEN 1 ELSE 0)
             /\ Num(K, q, L) \in Nat
  <2>1. Beside(q, r, L, s)
    BY DEF Exact, Beside
  <2> QED BY <2>1, InAdded
<1>2. /\ e \notin Unsent /\ e \notin Sent /\ e \notin Accessed /\ e \notin Arrived
      /\ e \notin Known /\ \A b : e \notin KnownOn(b)
      /\ e \in Unknown <=> e.isStore
      /\ e \in Dataless <=> late
  BY DEF Unsent, Sent, Accessed, Arrived, Known, KnownOn, Unknown, Dataless
<1>3. w \in WorkState /\ M \subseteq LsqSlots
  BY DEF Exact
<1>4. x = [w EXCEPT !.unknownStores = IF e.isStore THEN @ \cup {s} ELSE @,
                    !.updates = IF late THEN @ \cup {s} ELSE @,
                    !.waitingStores = IF late THEN @ + 1 ELSE @]
  <2>1. CASE e.isStore
    BY <2>1 DEF AfterSource
  <2>2. CASE ~e.isStore
    BY <1>3, <2>2 DEF WorkState
  <2> QED BY <2>1, <2>2
<1> HIDE DEF x, e, M, late
<1>5. x \in WorkState
  <2>1. /\ (IF e.isStore THEN w.unknownStores \cup {s} ELSE w.unknownStores) \in SUBSET LsqSlots
        /\ (IF late THEN w.updates \cup {s} ELSE w.updates) \in SUBSET LsqSlots
        /\ (IF late THEN w.waitingStores + 1 ELSE w.waitingStores) \in Int
    BY <1>3 DEF WorkState
  <2> QED BY <1>3, <1>4, <2>1 DEF WorkState
<1>6. /\ x.candidates = w.candidates /\ x.pending = w.pending
      /\ x.updates = w.updates \cup (IF late THEN {s} ELSE {})
      /\ x.knownStores = w.knownStores
      /\ x.unknownStores = w.unknownStores \cup (IF e.isStore THEN {s} ELSE {})
      /\ x.accessedLoads = w.accessedLoads /\ x.storeWords = w.storeWords
      /\ x.pendingLoads = w.pendingLoads /\ x.unreportedLoads = w.unreportedLoads
      /\ x.waitingStores = w.waitingStores + (IF late THEN 1 ELSE 0)
  BY <1>3, <1>4 DEF WorkState
<1>7. ASSUME NEW K, e \notin K PROVE In(K, r, M) = In(K, q, L)
  BY <1>1, <1>7
<1>8. /\ In(Unknown, r, M) = In(Unknown, q, L) \cup (IF e.isStore THEN {s} ELSE {})
       /\ In(Dataless, r, M) = In(Dataless, q, L) \cup (IF late THEN {s} ELSE {})
  BY <1>1, <1>2
<1>9. /\ x.candidates = In(Unsent, r, M) /\ x.pending = In(Sent, r, M)
      /\ x.updates = In(Arrived, r, M) \cup In(Dataless, r, M)
      /\ x.knownStores = In(Known, r, M) /\ x.unknownStores = In(Unknown, r, M)
      /\ x.accessedLoads = In(Accessed, r, M)
  <2>1. /\ In(Unsent, r, M) = In(Unsent, q, L) /\ In(Sent, r, M) = In(Sent, q, L)
        /\ In(Arrived, r, M) = In(Arrived, q, L) /\ In(Known, r, M) = In(Known, q, L)
        /\ In(Accessed, r, M) = In(Accessed, q, L)
    BY <1>2, <1>7
  <2>2. x.updates = (In(Arrived, q, L) \cup In(Dataless, q, L)) \cup (IF late THEN {s} ELSE {})
    BY <1>6 DEF Exact
  <2>3. x.updates = In(Arrived, r, M) \cup In(Dataless, r, M)
    BY <1>8, <2>1, <2>2
  <2> QED BY <1>6, <1>8, <2>1, <2>3 DEF Exact
<1>10. /\ x.pendingLoads = Num(Sent, r, M) /\ x.unreportedLoads = Num(Arrived, r, M)
      /\ x.waitingStores = Num(Dataless, r, M)
  BY <1>1, <1>2, <1>6 DEF Exact
<1>11. \A b \in 0 .. Buckets - 1 : x.storeWords[b] = Num(KnownOn(b), r, M)
  BY <1>1, <1>2, <1>6 DEF Exact
<1> QED BY <1>3, <1>5, <1>9, <1>10, <1>11 DEF Exact, x, e, M

(* resolveAddress.                                                         *)
LEMMA ResolveWork ==
  ASSUME QueueShape, NEW w, NEW L, Exact(w, lsq, L), NEW s \in L, NEW acc \in Accesses,
         NEW r, \A t \in L : t # s => r[t] = lsq[t],
         EntryOK(lsq[s]), lsq[s].acc = NoAccess, r[s] = [lsq[s] EXCEPT !.acc = acc]
  PROVE  Exact(AfterResolve(w, s, acc), r, L)
<1> DEFINE e == lsq[s]
           f == r[s]
           x == AfterResolve(w, s, acc)
           d == [b \in DOMAIN w.storeWords |-> IF b \in Touched(acc) THEN w.storeWords[b] + 1
                                               ELSE w.storeWords[b]]
<1>1. ASSUME NEW K
      PROVE  /\ In(K, r, L) = (In(K, lsq, L) \ {s}) \cup (IF f \in K THEN {s} ELSE {})
             /\ Num(K, r, L) = Num(K, lsq, L) - (IF e \in K THEN 1 ELSE 0)
                                              + (IF f \in K THEN 1 ELSE 0)
             /\ Num(K, lsq, L) \in Nat
             /\ s \in In(K, lsq, L) <=> e \in K
  <2>1. OnlyAt(lsq, r, L, s)
    BY DEF Exact, OnlyAt
  <2>2. s \in In(K, lsq, L) <=> e \in K
    BY DEF In
  <2>3. PICK q : q = lsq
    OBVIOUS
  <2>4. OnlyAt(q, r, L, s)
    BY <2>1, <2>3
  <2>5. /\ In(K, r, L) = (In(K, q, L) \ {s}) \cup (IF r[s] \in K THEN {s} ELSE {})
        /\ Num(K, r, L) = Num(K, q, L) - (IF q[s] \in K THEN 1 ELSE 0)
                                       + (IF r[s] \in K THEN 1 ELSE 0)
        /\ Num(K, q, L) \in Nat
    BY <2>4, InOne
  <2> QED BY <2>2, <2>3, <2>5
<1>2. /\ e \in LsqEntries /\ ~e.issued /\ ~e.done /\ ~e.reported /\ acc # NoAccess
  BY AccessBytes DEF EntryOK
<1>3. /\ f \in LsqEntries /\ f.acc = acc /\ f.isStore = e.isStore /\ f.issued = e.issued
      /\ f.done = e.done /\ f.reported = e.reported /\ f.dataReady = e.dataReady
  <2>1. f = [e EXCEPT !.acc = acc]
    OBVIOUS
  <2> HIDE DEF f, e
  <2> QED BY <1>2, <2>1 DEF LsqEntries
<1>4. w \in WorkState /\ L \subseteq LsqSlots
  BY DEF Exact
<1>5. e.isStore => x = [w EXCEPT !.unknownStores = w.unknownStores \ {s},
                                 !.knownStores = w.knownStores \cup {s}, !.storeWords = d]
  BY DEF AfterResolve
<1>6. ~e.isStore => x = [w EXCEPT !.candidates = w.candidates \cup {s}]
  BY DEF AfterResolve
<1>7. /\ d \in [0 .. Buckets - 1 -> Int]
      /\ \A b \in 0 .. Buckets - 1 :
           d[b] = IF b \in Touched(acc) THEN w.storeWords[b] + 1 ELSE w.storeWords[b]
  <2>1. w.storeWords \in [0 .. Buckets - 1 -> Int]
    BY <1>4 DEF WorkState
  <2>2. DOMAIN w.storeWords = 0 .. Buckets - 1
        /\ \A b \in 0 .. Buckets - 1 : w.storeWords[b] \in Int
    BY <2>1
  <2>3. \A b \in 0 .. Buckets - 1 :
          (IF b \in Touched(acc) THEN w.storeWords[b] + 1 ELSE w.storeWords[b]) \in Int
    BY <2>2
  <2> QED BY <2>2, <2>3
<1>8. /\ e \notin Unsent /\ e \notin Sent /\ e \notin Accessed /\ e \notin Arrived
      /\ e \notin Known /\ \A b : e \notin KnownOn(b)
      /\ e \in Unknown <=> e.isStore
      /\ e \in Dataless <=> f \in Dataless
      /\ f \in Unsent <=> ~e.isStore
      /\ f \notin Sent /\ f \notin Accessed /\ f \notin Arrived /\ f \notin Unknown
      /\ f \in Known <=> e.isStore
      /\ \A b : f \in KnownOn(b) <=> e.isStore /\ b \in Touched(acc)
  BY <1>2, <1>3 DEF Unsent, Sent, Accessed, Arrived, Known, KnownOn, Unknown, Dataless
<1> HIDE DEF x, e, f, d
<1>9. /\ x \in WorkState
      /\ x.candidates = w.candidates \cup (IF e.isStore THEN {} ELSE {s})
      /\ x.pending = w.pending /\ x.updates = w.updates
      /\ x.knownStores = w.knownStores \cup (IF e.isStore THEN {s} ELSE {})
      /\ x.unknownStores = w.unknownStores \ (IF e.isStore THEN {s} ELSE {})
      /\ x.accessedLoads = w.accessedLoads
      /\ x.storeWords = (IF e.isStore THEN d ELSE w.storeWords)
      /\ x.pendingLoads = w.pendingLoads /\ x.unreportedLoads = w.unreportedLoads
      /\ x.waitingStores = w.waitingStores
  <2>1. CASE e.isStore
    <3>1. /\ w.unknownStores \ {s} \in SUBSET LsqSlots
          /\ w.knownStores \cup {s} \in SUBSET LsqSlots
      BY <1>4 DEF WorkState
    <3>2. x = [w EXCEPT !.unknownStores = w.unknownStores \ {s},
                        !.knownStores = w.knownStores \cup {s}, !.storeWords = d]
      BY <1>5, <2>1
    <3>3. x \in WorkState
      BY <1>4, <1>7, <3>1, <3>2 DEF WorkState
    <3>4. /\ x.candidates = w.candidates /\ x.pending = w.pending /\ x.updates = w.updates
          /\ x.knownStores = w.knownStores \cup {s}
          /\ x.unknownStores = w.unknownStores \ {s}
          /\ x.accessedLoads = w.accessedLoads /\ x.storeWords = d
          /\ x.pendingLoads = w.pendingLoads /\ x.unreportedLoads = w.unreportedLoads
          /\ x.waitingStores = w.waitingStores
      BY <1>4, <3>2 DEF WorkState
    <3> QED BY <2>1, <3>3, <3>4
  <2>2. CASE ~e.isStore
    <3>1. x \in WorkState
      BY <1>4, <1>6, <2>2 DEF WorkState
    <3> QED BY <1>4, <1>6, <2>2, <3>1 DEF WorkState
  <2> QED BY <2>1, <2>2
<1>10. ASSUME NEW K, e \in K <=> f \in K PROVE In(K, r, L) = In(K, lsq, L)
  <2>1. /\ In(K, r, L) = (In(K, lsq, L) \ {s}) \cup (IF f \in K THEN {s} ELSE {})
        /\ s \in In(K, lsq, L) <=> e \in K
    BY <1>1
  <2> HIDE <1>1
  <2>2. CASE f \in K
    BY <1>10, <2>1, <2>2
  <2>3. CASE f \notin K
    BY <1>10, <2>1, <2>3
  <2> QED BY <2>2, <2>3
<1>11. /\ In(Unsent, r, L) = In(Unsent, lsq, L) \cup (IF e.isStore THEN {} ELSE {s})
       /\ In(Known, r, L) = In(Known, lsq, L) \cup (IF e.isStore THEN {s} ELSE {})
       /\ In(Unknown, r, L) = In(Unknown, lsq, L) \ (IF e.isStore THEN {s} ELSE {})
  <2>1. In(Unsent, r, L) = In(Unsent, lsq, L) \cup (IF e.isStore THEN {} ELSE {s})
    BY <1>1, <1>8
  <2>2. In(Known, r, L) = In(Known, lsq, L) \cup (IF e.isStore THEN {s} ELSE {})
    BY <1>1, <1>8
  <2>3. In(Unknown, r, L) = In(Unknown, lsq, L) \ (IF e.isStore THEN {s} ELSE {})
    BY <1>1, <1>8
  <2> QED BY <2>1, <2>2, <2>3
<1>12. /\ In(Sent, r, L) = In(Sent, lsq, L) /\ In(Accessed, r, L) = In(Accessed, lsq, L)
       /\ In(Arrived, r, L) = In(Arrived, lsq, L) /\ In(Dataless, r, L) = In(Dataless, lsq, L)
  BY <1>8, <1>10
<1>13. /\ x.candidates = In(Unsent, r, L) /\ x.pending = In(Sent, r, L)
       /\ x.knownStores = In(Known, r, L) /\ x.unknownStores = In(Unknown, r, L)
       /\ x.accessedLoads = In(Accessed, r, L)
  BY <1>9, <1>11, <1>12 DEF Exact
<1>14. x.updates = In(Arrived, r, L) \cup In(Dataless, r, L)
  BY <1>9, <1>12 DEF Exact
<1>15. /\ x.pendingLoads = Num(Sent, r, L) /\ x.unreportedLoads = Num(Arrived, r, L)
       /\ x.waitingStores = Num(Dataless, r, L)
  BY <1>1, <1>8, <1>9 DEF Exact
<1>16. \A b \in 0 .. Buckets - 1 : x.storeWords[b] = Num(KnownOn(b), r, L)
  <2> SUFFICES ASSUME NEW b \in 0 .. Buckets - 1 PROVE x.storeWords[b] = Num(KnownOn(b), r, L)
    OBVIOUS
  <2>1. w.storeWords[b] = Num(KnownOn(b), lsq, L) /\ Num(KnownOn(b), lsq, L) \in Nat
    BY <1>1 DEF Exact
  <2>2. Num(KnownOn(b), r, L) = Num(KnownOn(b), lsq, L) + (IF f \in KnownOn(b) THEN 1 ELSE 0)
    BY <1>1, <1>8
  <2>3. f \in KnownOn(b) <=> e.isStore /\ b \in Touched(acc)
    BY <1>8
  <2>4. d[b] = IF b \in Touched(acc) THEN w.storeWords[b] + 1 ELSE w.storeWords[b]
    BY <1>7
  <2>5. x.storeWords = IF e.isStore THEN d ELSE w.storeWords
    BY <1>9
  <2> QED BY <2>1, <2>2, <2>3, <2>4, <2>5
<1> QED BY <1>4, <1>9, <1>13, <1>14, <1>15, <1>16 DEF Exact, x

(* What one entry's change does to a set it stays in, leaves or enters.    *)
Stays(K, q, r, L, s)  == OnlyAt(q, r, L, s) /\ (q[s] \in K <=> r[s] \in K)
Leaves(K, q, r, L, s) == OnlyAt(q, r, L, s) /\ q[s] \in K /\ r[s] \notin K
Enters(K, q, r, L, s) == OnlyAt(q, r, L, s) /\ q[s] \notin K /\ r[s] \in K

LEMMA InStays ==
  ASSUME QueueShape, NEW K, NEW q, NEW r, NEW L, NEW s, Stays(K, q, r, L, s)
  PROVE  In(K, r, L) = In(K, q, L) /\ Num(K, r, L) = Num(K, q, L)
<1>1. \A t \in L : r[t] \in K <=> q[t] \in K
  BY DEF Stays, OnlyAt
<1> QED BY <1>1 DEF In, Num

LEMMA InLeaves ==
  ASSUME QueueShape, NEW K, NEW q, NEW r, NEW L, NEW s, Leaves(K, q, r, L, s)
  PROVE  /\ In(K, r, L) = In(K, q, L) \ {s} /\ Num(K, r, L) = Num(K, q, L) - 1
         /\ Num(K, q, L) \in Nat
<1>1. OnlyAt(q, r, L, s) /\ q[s] \in K /\ r[s] \notin K
  BY DEF Leaves
<1>2. /\ In(K, r, L) = (In(K, q, L) \ {s}) \cup (IF r[s] \in K THEN {s} ELSE {})
      /\ Num(K, r, L) = Num(K, q, L) - (IF q[s] \in K THEN 1 ELSE 0)
                                     + (IF r[s] \in K THEN 1 ELSE 0)
      /\ Num(K, q, L) \in Nat
  BY <1>1, InOne
<1> QED BY <1>1, <1>2

LEMMA InEnters ==
  ASSUME QueueShape, NEW K, NEW q, NEW r, NEW L, NEW s, Enters(K, q, r, L, s)
  PROVE  /\ In(K, r, L) = In(K, q, L) \cup {s} /\ Num(K, r, L) = Num(K, q, L) + 1
         /\ Num(K, q, L) \in Nat
<1>1. OnlyAt(q, r, L, s) /\ q[s] \notin K /\ r[s] \in K /\ s \notin In(K, q, L)
  BY DEF Enters, In
<1>2. /\ In(K, r, L) = (In(K, q, L) \ {s}) \cup (IF r[s] \in K THEN {s} ELSE {})
      /\ Num(K, r, L) = Num(K, q, L) - (IF q[s] \in K THEN 1 ELSE 0)
                                     + (IF r[s] \in K THEN 1 ELSE 0)
      /\ Num(K, q, L) \in Nat
  BY <1>1, InOne
<1> QED BY <1>1, <1>2

(* The datum of a store is captured.                                       *)
Captured(e, f) ==
  EntryOK(e) /\ e.isStore /\ ~e.dataReady /\ f = [e EXCEPT !.dataReady = TRUE]

LEMMA CaptureWork ==
  ASSUME QueueShape, NEW w, NEW L, Exact(w, lsq, L), NEW s \in L,
         NEW r, \A t \in L : t # s => r[t] = lsq[t],
         Captured(lsq[s], r[s])
  PROVE  Exact(AfterCapture(w, s), r, L)
<1> DEFINE e == lsq[s]
           f == r[s]
           x == AfterCapture(w, s)
<1>1. OnlyAt(lsq, r, L, s) /\ w \in WorkState /\ L \subseteq LsqSlots
  BY DEF Exact, OnlyAt
<1>2. e \in LsqEntries /\ ~e.issued /\ ~e.done /\ e.isStore /\ ~e.dataReady
  BY DEF Captured, EntryOK
<1>3. /\ f \in LsqEntries /\ f.acc = e.acc /\ f.isStore = e.isStore /\ f.issued = e.issued
      /\ f.done = e.done /\ f.reported = e.reported /\ f.dataReady
  <2>1. f = [e EXCEPT !.dataReady = TRUE]
    BY DEF Captured
  <2> HIDE DEF f, e
  <2> QED BY <1>2, <2>1 DEF LsqEntries
<1>4. /\ e \in Unsent <=> f \in Unsent
      /\ e \in Sent <=> f \in Sent
      /\ e \in Accessed <=> f \in Accessed
      /\ e \notin Arrived /\ f \notin Arrived
      /\ e \in Known <=> f \in Known
      /\ e \in Unknown <=> f \in Unknown
      /\ \A b : e \in KnownOn(b) <=> f \in KnownOn(b)
      /\ e \in Dataless /\ f \notin Dataless
  BY <1>2, <1>3 DEF Unsent, Sent, Accessed, Arrived, Known, KnownOn, Unknown, Dataless
<1>5. x = [w EXCEPT !.updates = w.updates \ {s}, !.waitingStores = w.waitingStores - 1]
  BY DEF AfterCapture
<1> HIDE DEF x
<1>6. x \in WorkState
  <2>1. w.updates \ {s} \in SUBSET LsqSlots /\ w.waitingStores - 1 \in Int
    BY <1>1 DEF WorkState
  <2> QED BY <1>1, <1>5, <2>1 DEF WorkState
<1>7. /\ x.candidates = w.candidates /\ x.pending = w.pending
      /\ x.updates = w.updates \ {s} /\ x.knownStores = w.knownStores
      /\ x.unknownStores = w.unknownStores /\ x.accessedLoads = w.accessedLoads
      /\ x.storeWords = w.storeWords /\ x.pendingLoads = w.pendingLoads
      /\ x.unreportedLoads = w.unreportedLoads /\ x.waitingStores = w.waitingStores - 1
  BY <1>1, <1>5 DEF WorkState
<1>8. ASSUME NEW K, e \in K <=> f \in K
      PROVE  In(K, r, L) = In(K, lsq, L) /\ Num(K, r, L) = Num(K, lsq, L)
  <2>1. Stays(K, lsq, r, L, s)
    BY <1>1, <1>8 DEF Stays
  <2> QED BY <2>1, InStays
<1>9. /\ In(Dataless, r, L) = In(Dataless, lsq, L) \ {s}
      /\ Num(Dataless, r, L) = Num(Dataless, lsq, L) - 1
  <2>1. Leaves(Dataless, lsq, r, L, s)
    BY <1>1, <1>4 DEF Leaves
  <2> QED BY <2>1, InLeaves
<1>10. s \notin In(Arrived, lsq, L)
  BY <1>4 DEF In
<1>11. x.updates = In(Arrived, r, L) \cup In(Dataless, r, L)
  <2>1. x.updates = (In(Arrived, lsq, L) \cup In(Dataless, lsq, L)) \ {s}
    BY <1>7 DEF Exact
  <2>2. In(Arrived, r, L) = In(Arrived, lsq, L)
    BY <1>4, <1>8
  <2> QED BY <1>9, <1>10, <2>1, <2>2
<1>12. /\ x.candidates = In(Unsent, r, L) /\ x.pending = In(Sent, r, L)
       /\ x.knownStores = In(Known, r, L) /\ x.unknownStores = In(Unknown, r, L)
       /\ x.accessedLoads = In(Accessed, r, L)
       /\ x.pendingLoads = Num(Sent, r, L) /\ x.unreportedLoads = Num(Arrived, r, L)
       /\ x.waitingStores = Num(Dataless, r, L)
       /\ \A b \in 0 .. Buckets - 1 : x.storeWords[b] = Num(KnownOn(b), r, L)
  <2> HIDE DEF e, f
  <2> QED BY <1>4, <1>7, <1>8, <1>9 DEF Exact
<1> QED BY <1>1, <1>6, <1>11, <1>12 DEF Exact, x

(* setReported.                                                            *)
Reported(e, f) ==
  EntryOK(e) /\ e.done /\ ~e.reported /\ f = [e EXCEPT !.reported = TRUE]

LEMMA ReportWork ==
  ASSUME QueueShape, NEW w, NEW L, Exact(w, lsq, L), NEW s \in L,
         NEW r, \A t \in L : t # s => r[t] = lsq[t],
         Reported(lsq[s], r[s])
  PROVE  Exact(AfterReport(w, s), r, L)
<1> DEFINE e == lsq[s]
           f == r[s]
           x == AfterReport(w, s)
<1>1. OnlyAt(lsq, r, L, s) /\ w \in WorkState /\ L \subseteq LsqSlots
  BY DEF Exact, OnlyAt
<1>2. e \in LsqEntries /\ ~e.isStore /\ e.done /\ ~e.reported
  BY DEF Reported, EntryOK
<1>3. /\ f \in LsqEntries /\ f.acc = e.acc /\ f.isStore = e.isStore /\ f.issued = e.issued
      /\ f.done = e.done /\ f.reported /\ f.dataReady = e.dataReady
  <2>1. f = [e EXCEPT !.reported = TRUE]
    BY DEF Reported
  <2> HIDE DEF f, e
  <2> QED BY <1>2, <2>1 DEF LsqEntries
<1>4. /\ e \in Unsent <=> f \in Unsent
      /\ e \in Sent <=> f \in Sent
      /\ e \in Accessed <=> f \in Accessed
      /\ e \notin Dataless /\ f \notin Dataless
      /\ e \in Known <=> f \in Known
      /\ e \in Unknown <=> f \in Unknown
      /\ \A b : e \in KnownOn(b) <=> f \in KnownOn(b)
      /\ e \in Arrived /\ f \notin Arrived
  BY <1>2, <1>3 DEF Unsent, Sent, Accessed, Arrived, Known, KnownOn, Unknown, Dataless
<1>5. x = [w EXCEPT !.updates = w.updates \ {s}, !.unreportedLoads = w.unreportedLoads - 1]
  BY DEF AfterReport
<1> HIDE DEF x
<1>6. x \in WorkState
  <2>1. w.updates \ {s} \in SUBSET LsqSlots /\ w.unreportedLoads - 1 \in Int
    BY <1>1 DEF WorkState
  <2> QED BY <1>1, <1>5, <2>1 DEF WorkState
<1>7. /\ x.candidates = w.candidates /\ x.pending = w.pending
      /\ x.updates = w.updates \ {s} /\ x.knownStores = w.knownStores
      /\ x.unknownStores = w.unknownStores /\ x.accessedLoads = w.accessedLoads
      /\ x.storeWords = w.storeWords /\ x.pendingLoads = w.pendingLoads
      /\ x.unreportedLoads = w.unreportedLoads - 1 /\ x.waitingStores = w.waitingStores
  BY <1>1, <1>5 DEF WorkState
<1>8. ASSUME NEW K, e \in K <=> f \in K
      PROVE  In(K, r, L) = In(K, lsq, L) /\ Num(K, r, L) = Num(K, lsq, L)
  <2>1. Stays(K, lsq, r, L, s)
    BY <1>1, <1>8 DEF Stays
  <2> QED BY <2>1, InStays
<1>9. /\ In(Arrived, r, L) = In(Arrived, lsq, L) \ {s}
      /\ Num(Arrived, r, L) = Num(Arrived, lsq, L) - 1
  <2>1. Leaves(Arrived, lsq, r, L, s)
    BY <1>1, <1>4 DEF Leaves
  <2> QED BY <2>1, InLeaves
<1>10. s \notin In(Dataless, lsq, L)
  BY <1>4 DEF In
<1>11. x.updates = In(Arrived, r, L) \cup In(Dataless, r, L)
  <2>1. x.updates = (In(Arrived, lsq, L) \cup In(Dataless, lsq, L)) \ {s}
    BY <1>7 DEF Exact
  <2>2. In(Dataless, r, L) = In(Dataless, lsq, L)
    BY <1>4, <1>8
  <2> QED BY <1>9, <1>10, <2>1, <2>2
<1>12. /\ x.candidates = In(Unsent, r, L) /\ x.pending = In(Sent, r, L)
       /\ x.knownStores = In(Known, r, L) /\ x.unknownStores = In(Unknown, r, L)
       /\ x.accessedLoads = In(Accessed, r, L)
       /\ x.pendingLoads = Num(Sent, r, L) /\ x.unreportedLoads = Num(Arrived, r, L)
       /\ x.waitingStores = Num(Dataless, r, L)
       /\ \A b \in 0 .. Buckets - 1 : x.storeWords[b] = Num(KnownOn(b), r, L)
  <2> HIDE DEF e, f
  <2> QED BY <1>4, <1>7, <1>8, <1>9 DEF Exact
<1> QED BY <1>1, <1>6, <1>11, <1>12 DEF Exact, x

(* The same for several entries.                                           *)
SameIn(K, q, r, L)  == \A s \in L : r[s] \in K <=> q[s] \in K
Gone(K, q, r, L, D) == Apart(K, q, r, L, D) /\ \A s \in D : r[s] \notin K
Come(K, q, r, L, D) == Apart(K, q, r, L, D) /\ \A s \in D : r[s] \in K /\ q[s] \notin K

LEMMA InSame ==
  ASSUME NEW K, NEW q, NEW r, NEW L, SameIn(K, q, r, L)
  PROVE  In(K, r, L) = In(K, q, L) /\ Num(K, r, L) = Num(K, q, L)
BY DEF SameIn, In, Num

LEMMA InGone ==
  ASSUME QueueShape, NEW K, NEW q, NEW r, NEW L, NEW D, Gone(K, q, r, L, D)
  PROVE  /\ In(K, r, L) = In(K, q, L) \ D
         /\ Num(K, r, L) = Num(K, q, L) - Num(K, q, D)
         /\ Num(K, q, L) \in Nat /\ Num(K, q, D) \in Nat
<1>1. Apart(K, q, r, L, D) /\ In(K, r, D) = {}
  BY DEF Gone, In
<1>2. Num(K, r, D) = 0
  BY <1>1, FS_EmptySet DEF Num
<1>3. /\ In(K, r, L) = (In(K, q, L) \ D) \cup In(K, r, D)
      /\ Num(K, r, L) = Num(K, q, L) - Num(K, q, D) + Num(K, r, D)
      /\ Num(K, q, L) \in Nat /\ Num(K, q, D) \in Nat
  BY <1>1, InChanged
<1> QED BY <1>1, <1>2, <1>3

LEMMA InCome ==
  ASSUME QueueShape, NEW K, NEW q, NEW r, NEW L, NEW D, Come(K, q, r, L, D)
  PROVE  /\ In(K, r, L) = In(K, q, L) \cup D
         /\ Num(K, r, L) = Num(K, q, L) + Cardinality(D)
         /\ Num(K, q, L) \in Nat /\ Cardinality(D) \in Nat
<1>1. Apart(K, q, r, L, D) /\ In(K, r, D) = D /\ In(K, q, D) = {}
  BY DEF Come, In
<1>2. Num(K, r, D) = Cardinality(D) /\ Num(K, q, D) = 0
  BY <1>1, FS_EmptySet DEF Num
<1>3. /\ In(K, r, L) = (In(K, q, L) \ D) \cup In(K, r, D)
      /\ Num(K, r, L) = Num(K, q, L) - Num(K, q, D) + Num(K, r, D)
      /\ Num(K, q, L) \in Nat /\ Num(K, r, D) \in Nat
  BY <1>1, InChanged
<1> QED BY <1>1, <1>2, <1>3

(* completeLoad, for the entries in the slots C.                           *)
Completes(e, f) ==
  /\ EntryOK(e) /\ ~e.isStore /\ e.acc # NoAccess /\ ~e.done
  /\ f \in LsqEntries /\ ~f.isStore /\ f.acc = e.acc /\ f.issued = e.issued
  /\ f.done /\ ~f.reported

LEMMA CompleteWork ==
  ASSUME QueueShape, NEW w, NEW L, Exact(w, lsq, L), NEW C, C \subseteq L,
         NEW q, \A t \in L \ C : q[t] = lsq[t], \A t \in C : Completes(lsq[t], q[t])
  PROVE  Exact(AfterComplete(w, C), q, L)
<1> DEFINE x == AfterComplete(w, C)
           p == Cardinality({s \in C : lsq[s].issued})
           c == Cardinality(C)
<1>1. w \in WorkState /\ L \subseteq LsqSlots
  BY DEF Exact
<1>2. ASSUME NEW K PROVE Apart(K, lsq, q, L, C)
  BY <1>1 DEF Apart
<1>3. ASSUME NEW t \in C
      PROVE  /\ q[t] \notin Unsent /\ q[t] \notin Sent
             /\ q[t] \in Accessed /\ q[t] \in Arrived /\ lsq[t] \notin Arrived
             /\ q[t] \notin Dataless /\ lsq[t] \notin Dataless
             /\ q[t] \notin Known /\ lsq[t] \notin Known
             /\ q[t] \notin Unknown /\ lsq[t] \notin Unknown
             /\ lsq[t] \in Sent <=> lsq[t].issued
  <2> DEFINE e == lsq[t]
             f == q[t]
  <2>1. Completes(e, f)
    OBVIOUS
  <2> HIDE DEF e, f
  <2>2. /\ f \notin Unsent /\ f \notin Sent
        /\ f \in Accessed /\ f \in Arrived /\ e \notin Arrived
        /\ f \notin Dataless /\ e \notin Dataless /\ f \notin Known /\ e \notin Known
        /\ f \notin Unknown /\ e \notin Unknown
        /\ e \in Sent <=> e.issued
    BY <2>1 DEF Completes, EntryOK, Unsent, Sent, Accessed, Arrived, Dataless, Known, Unknown
  <2> QED BY <2>2 DEF e, f
<1>4. /\ In(Unsent, q, L) = In(Unsent, lsq, L) \ C
      /\ In(Sent, q, L) = In(Sent, lsq, L) \ C
      /\ Num(Sent, q, L) = Num(Sent, lsq, L) - Num(Sent, lsq, C)
      /\ Num(Sent, lsq, L) \in Nat /\ Num(Sent, lsq, C) \in Nat
  <2>1. Gone(Unsent, lsq, q, L, C) /\ Gone(Sent, lsq, q, L, C)
    BY <1>2, <1>3 DEF Gone
  <2> QED BY <2>1, InGone
<1>5. /\ In(Arrived, q, L) = In(Arrived, lsq, L) \cup C
      /\ Num(Arrived, q, L) = Num(Arrived, lsq, L) + c
      /\ Num(Arrived, lsq, L) \in Nat /\ c \in Nat
  <2>1. Come(Arrived, lsq, q, L, C)
    BY <1>2, <1>3 DEF Come
  <2> QED BY <2>1, InCome
<1>6. In(Accessed, q, L) = In(Accessed, lsq, L) \cup C
  <2>1. Apart(Accessed, lsq, q, L, C)
    BY <1>2
  <2> QED BY <1>3, <2>1 DEF In, Apart
<1>7. ASSUME NEW K, \A t \in C : q[t] \notin K /\ lsq[t] \notin K
      PROVE  In(K, q, L) = In(K, lsq, L) /\ Num(K, q, L) = Num(K, lsq, L)
  <2>1. SameIn(K, lsq, q, L)
    BY <1>7 DEF SameIn
  <2> QED BY <2>1, InSame
<1>8. p = Num(Sent, lsq, C)
  <2>1. {s \in C : lsq[s].issued} = In(Sent, lsq, C)
    BY <1>3 DEF In
  <2> QED BY <2>1 DEF Num
<1>9. x = [w EXCEPT !.candidates = w.candidates \ C, !.pending = w.pending \ C,
                    !.updates = w.updates \cup C, !.accessedLoads = w.accessedLoads \cup C,
                    !.pendingLoads = w.pendingLoads - p,
                    !.unreportedLoads = w.unreportedLoads + c]
  BY DEF AfterComplete
<1> HIDE DEF x, p, c
<1>10. x \in WorkState
  <2>1. /\ w.candidates \ C \in SUBSET LsqSlots /\ w.pending \ C \in SUBSET LsqSlots
        /\ w.updates \cup C \in SUBSET LsqSlots /\ w.accessedLoads \cup C \in SUBSET LsqSlots
    BY <1>1 DEF WorkState
  <2>2. w.pendingLoads - p \in Int /\ w.unreportedLoads + c \in Int
    BY <1>1, <1>4, <1>5, <1>8 DEF WorkState
  <2> QED BY <1>1, <1>9, <2>1, <2>2 DEF WorkState
<1>11. /\ x.candidates = w.candidates \ C /\ x.pending = w.pending \ C
       /\ x.updates = w.updates \cup C /\ x.knownStores = w.knownStores
       /\ x.unknownStores = w.unknownStores /\ x.accessedLoads = w.accessedLoads \cup C
       /\ x.storeWords = w.storeWords /\ x.pendingLoads = w.pendingLoads - p
       /\ x.unreportedLoads = w.unreportedLoads + c /\ x.waitingStores = w.waitingStores
  BY <1>1, <1>9 DEF WorkState
<1>12. /\ In(Dataless, q, L) = In(Dataless, lsq, L)
       /\ Num(Dataless, q, L) = Num(Dataless, lsq, L)
       /\ In(Known, q, L) = In(Known, lsq, L) /\ In(Unknown, q, L) = In(Unknown, lsq, L)
  BY <1>3, <1>7
<1>13. \A b : Num(KnownOn(b), q, L) = Num(KnownOn(b), lsq, L)
  <2> TAKE b
  <2>1. \A t \in C : q[t] \notin KnownOn(b) /\ lsq[t] \notin KnownOn(b)
    BY <1>3 DEF KnownOn
  <2> QED BY <1>7, <2>1
<1>14. /\ w.candidates = In(Unsent, lsq, L) /\ w.pending = In(Sent, lsq, L)
       /\ w.updates = In(Arrived, lsq, L) \cup In(Dataless, lsq, L)
       /\ w.knownStores = In(Known, lsq, L) /\ w.unknownStores = In(Unknown, lsq, L)
       /\ w.accessedLoads = In(Accessed, lsq, L)
       /\ \A b \in 0 .. Buckets - 1 : w.storeWords[b] = Num(KnownOn(b), lsq, L)
       /\ w.pendingLoads = Num(Sent, lsq, L) /\ w.unreportedLoads = Num(Arrived, lsq, L)
       /\ w.waitingStores = Num(Dataless, lsq, L)
  BY DEF Exact
<1>15. /\ x.candidates = In(Unsent, q, L) /\ x.pending = In(Sent, q, L)
       /\ x.knownStores = In(Known, q, L) /\ x.unknownStores = In(Unknown, q, L)
       /\ x.accessedLoads = In(Accessed, q, L)
  BY <1>4, <1>6, <1>11, <1>12, <1>14
<1>16. x.updates = In(Arrived, q, L) \cup In(Dataless, q, L)
  BY <1>5, <1>11, <1>12, <1>14
<1>17. /\ x.pendingLoads = Num(Sent, q, L) /\ x.unreportedLoads = Num(Arrived, q, L)
       /\ x.waitingStores = Num(Dataless, q, L)
  BY <1>4, <1>5, <1>8, <1>11, <1>12, <1>14
<1>18. \A b \in 0 .. Buckets - 1 : x.storeWords[b] = Num(KnownOn(b), q, L)
  BY <1>11, <1>13, <1>14
<1> QED BY <1>1, <1>10, <1>15, <1>16, <1>17, <1>18 DEF Exact, x

(* issue, for the entry in slot s.                                         *)
Issues(e, f) ==
  /\ e \in LsqEntries /\ ~e.isStore /\ e.acc # NoAccess /\ ~e.issued /\ ~e.done
  /\ f = [e EXCEPT !.issued = TRUE]

LEMMA IssueWork ==
  ASSUME QueueShape, NEW w, NEW q, NEW L, Exact(w, q, L), NEW s \in L,
         NEW r, \A t \in L : t # s => r[t] = q[t], Issues(q[s], r[s])
  PROVE  Exact(AfterIssue(w, {s}), r, L)
<1> DEFINE e == q[s]
           f == r[s]
           x == AfterIssue(w, {s})
<1>1. OnlyAt(q, r, L, s) /\ w \in WorkState /\ L \subseteq LsqSlots
  BY DEF Exact, OnlyAt
<1>2. e \in LsqEntries /\ ~e.isStore /\ e.acc # NoAccess /\ ~e.issued /\ ~e.done
  BY DEF Issues
<1>3. /\ f \in LsqEntries /\ f.acc = e.acc /\ f.isStore = e.isStore /\ f.issued
      /\ f.done = e.done /\ f.reported = e.reported /\ f.dataReady = e.dataReady
  <2>1. f = [e EXCEPT !.issued = TRUE]
    BY DEF Issues
  <2> HIDE DEF f, e
  <2> QED BY <1>2, <2>1 DEF LsqEntries
<1>4. /\ e \in Unsent /\ f \notin Unsent /\ e \notin Sent /\ f \in Sent
      /\ e \notin Accessed /\ f \in Accessed
      /\ e \notin Dataless /\ f \notin Dataless /\ e \notin Arrived /\ f \notin Arrived
      /\ e \notin Known /\ f \notin Known /\ e \notin Unknown /\ f \notin Unknown
      /\ \A b : e \notin KnownOn(b) /\ f \notin KnownOn(b)
  BY <1>2, <1>3 DEF Unsent, Sent, Accessed, Arrived, Known, KnownOn, Unknown, Dataless
<1>5. x = [w EXCEPT !.candidates = w.candidates \ {s}, !.pending = w.pending \cup {s},
                    !.accessedLoads = w.accessedLoads \cup {s},
                    !.pendingLoads = w.pendingLoads + 1]
  <2>1. Cardinality({s}) = 1
    BY FS_Singleton
  <2> QED BY <2>1 DEF AfterIssue
<1> HIDE DEF x
<1>6. x \in WorkState
  <2>1. /\ w.candidates \ {s} \in SUBSET LsqSlots /\ w.pending \cup {s} \in SUBSET LsqSlots
        /\ w.accessedLoads \cup {s} \in SUBSET LsqSlots /\ w.pendingLoads + 1 \in Int
    BY <1>1 DEF WorkState
  <2> QED BY <1>1, <1>5, <2>1 DEF WorkState
<1>7. /\ x.candidates = w.candidates \ {s} /\ x.pending = w.pending \cup {s}
      /\ x.updates = w.updates /\ x.knownStores = w.knownStores
      /\ x.unknownStores = w.unknownStores /\ x.accessedLoads = w.accessedLoads \cup {s}
      /\ x.storeWords = w.storeWords /\ x.pendingLoads = w.pendingLoads + 1
      /\ x.unreportedLoads = w.unreportedLoads /\ x.waitingStores = w.waitingStores
  BY <1>1, <1>5 DEF WorkState
<1>8. ASSUME NEW K, e \notin K, f \notin K
      PROVE  In(K, r, L) = In(K, q, L) /\ Num(K, r, L) = Num(K, q, L)
  <2>1. Stays(K, q, r, L, s)
    BY <1>1, <1>8 DEF Stays
  <2> QED BY <2>1, InStays
<1>9. In(Unsent, r, L) = In(Unsent, q, L) \ {s}
  <2>1. Leaves(Unsent, q, r, L, s)
    BY <1>1, <1>4 DEF Leaves
  <2> QED BY <2>1, InLeaves
<1>10. /\ In(Sent, r, L) = In(Sent, q, L) \cup {s}
       /\ Num(Sent, r, L) = Num(Sent, q, L) + 1
       /\ In(Accessed, r, L) = In(Accessed, q, L) \cup {s}
  <2>1. Enters(Sent, q, r, L, s) /\ Enters(Accessed, q, r, L, s)
    BY <1>1, <1>4 DEF Enters
  <2> QED BY <2>1, InEnters
<1>11. /\ In(Arrived, r, L) = In(Arrived, q, L) /\ In(Dataless, r, L) = In(Dataless, q, L)
       /\ Num(Arrived, r, L) = Num(Arrived, q, L) /\ Num(Dataless, r, L) = Num(Dataless, q, L)
       /\ In(Known, r, L) = In(Known, q, L) /\ In(Unknown, r, L) = In(Unknown, q, L)
       /\ \A b : Num(KnownOn(b), r, L) = Num(KnownOn(b), q, L)
  <2> HIDE DEF e, f
  <2> QED BY <1>4, <1>8
<1>12. /\ x.candidates = In(Unsent, r, L) /\ x.pending = In(Sent, r, L)
       /\ x.updates = In(Arrived, r, L) \cup In(Dataless, r, L)
       /\ x.knownStores = In(Known, r, L) /\ x.unknownStores = In(Unknown, r, L)
       /\ x.accessedLoads = In(Accessed, r, L)
       /\ x.pendingLoads = Num(Sent, r, L) /\ x.unreportedLoads = Num(Arrived, r, L)
       /\ x.waitingStores = Num(Dataless, r, L)
       /\ \A b \in 0 .. Buckets - 1 : x.storeWords[b] = Num(KnownOn(b), r, L)
  BY <1>7, <1>9, <1>10, <1>11 DEF Exact
<1> QED BY <1>1, <1>6, <1>12 DEF Exact, x

-----------------------------------------------------------------------------
(* Which slots are live *)

Youngest(n) == {Slot(k) : k \in n .. lsqCount - 1}

LEMMA SlotsLive ==
  ASSUME QueueShape
  PROVE  /\ LiveSlots \subseteq LsqSlots
         /\ \A k \in Ages : Slot(k) \in LiveSlots
         /\ \A s \in LiveSlots : \E k \in Ages : s = Slot(k)
BY QueueTypes DEF LiveSlots

LEMMA FewerLive ==
  ASSUME QueueShape, lsqCount' \in 0 .. lsqCount, UNCHANGED lsqHead
  PROVE  LiveSlots' = LiveSlots \ Youngest(lsqCount') /\ Youngest(lsqCount') \subseteq LiveSlots
<1>1. PICK m, n : m = lsqCount /\ n = lsqCount'
  OBVIOUS
<1>2. m \in Nat /\ m <= LsqSize /\ LsqSize \in Nat /\ n \in 0 .. m
  BY <1>1, QueueTypes
<1>3. Ages = 0 .. m - 1 /\ Ages' = 0 .. n - 1
  BY <1>1 DEF Ages
<1>4. \A k : Slot(k)' = Slot(k)
  BY DEF Slot
<1>5. \A j, k \in 0 .. m - 1 : Slot(j) = Slot(k) => j = k
  <2>1. \A j \in 0 .. m - 1 : j \in 0 .. LsqSize - 1
    BY <1>2
  <2> QED BY <2>1, QueueTypes
<1>6. LiveSlots = {Slot(k) : k \in 0 .. m - 1} /\ LiveSlots' = {Slot(k) : k \in 0 .. n - 1}
  BY <1>3, <1>4 DEF LiveSlots
<1>7. Youngest(n) = {Slot(k) : k \in n .. m - 1}
  BY <1>1 DEF Youngest
<1>8. /\ \A k \in 0 .. n - 1 : k \in 0 .. m - 1 /\ ~(k \in n .. m - 1)
      /\ \A k \in 0 .. m - 1 : k \in n .. m - 1 \/ k \in 0 .. n - 1
      /\ \A k \in n .. m - 1 : k \in 0 .. m - 1
  BY <1>2
<1>9. LiveSlots' = LiveSlots \ Youngest(n)
  <2>1. ASSUME NEW k \in 0 .. n - 1 PROVE Slot(k) \in LiveSlots /\ Slot(k) \notin Youngest(n)
    BY <1>5, <1>6, <1>7, <1>8
  <2>2. ASSUME NEW k \in 0 .. m - 1, Slot(k) \notin Youngest(n) PROVE Slot(k) \in LiveSlots'
    <3>1. k \in 0 .. n - 1
      BY <1>7, <1>8, <2>2
    <3> QED BY <1>6, <3>1
  <2> QED BY <1>6, <2>1, <2>2
<1>10. Youngest(n) \subseteq LiveSlots
  BY <1>6, <1>7, <1>8
<1> QED BY <1>1, <1>9, <1>10

LEMMA OneMoreLive ==
  ASSUME QueueShape, lsqCount < LsqSize, lsqCount' = lsqCount + 1, UNCHANGED lsqHead
  PROVE  /\ Slot(lsqCount) \in LsqSlots \ LiveSlots
         /\ LiveSlots' = LiveSlots \cup {Slot(lsqCount)}
<1>1. PICK m : m = lsqCount
  OBVIOUS
<1>2. m \in Nat /\ m < LsqSize /\ LsqSize \in Nat /\ m + 1 = lsqCount'
  BY <1>1, QueueTypes
<1>3. Ages = 0 .. m - 1 /\ Ages' = 0 .. m
  <2>1. lsqCount' - 1 = m
    BY <1>2
  <2> QED BY <1>1, <2>1 DEF Ages
<1>4. \A k : Slot(k)' = Slot(k)
  BY DEF Slot
<1>5. /\ \A k \in 0 .. m : k \in 0 .. LsqSize - 1
      /\ \A k \in 0 .. m : k \in 0 .. m - 1 \/ k = m
      /\ \A k \in 0 .. m - 1 : k \in 0 .. m /\ k # m
      /\ m \in 0 .. m /\ m \in 0 .. LsqSize
  BY <1>2
<1>6. LiveSlots = {Slot(k) : k \in 0 .. m - 1} /\ LiveSlots' = {Slot(k) : k \in 0 .. m}
  BY <1>3, <1>4 DEF LiveSlots
<1>7. Slot(m) \in LsqSlots /\ \A k \in 0 .. m - 1 : Slot(k) # Slot(m)
  BY <1>5, QueueTypes
<1> QED BY <1>1, <1>5, <1>6, <1>7

LEMMA HeadGone ==
  ASSUME QueueShape, PopLsq, lsqCount > 0
  PROVE  lsqHead \in LiveSlots /\ LiveSlots' = LiveSlots \ {lsqHead}
<1>1. PICK m : m = lsqCount
  OBVIOUS
<1>2. /\ m \in Nat /\ m > 0 /\ m <= LsqSize /\ LsqSize \in Nat /\ lsqHead \in 0 .. LsqSize - 1
      /\ lsqHead' = IndexOf(LsqSize, lsqHead, 1) /\ lsqCount' = m - 1
  BY <1>1, QueueTypes DEF PopLsq
<1>3. Ages = 0 .. m - 1 /\ Ages' = 0 .. (m - 1) - 1
  BY <1>1, <1>2 DEF Ages
<1>4. /\ \A k \in 0 .. m - 1 : k \in 0 .. LsqSize - 1 /\ (k = 0 \/ k - 1 \in 0 .. m - 2)
      /\ \A k \in 0 .. m - 2 : k + 1 \in 0 .. m - 1 /\ k + 1 # 0 /\ k \in 0 .. LsqSize - 1
      /\ \A k \in 0 .. m - 1 : (k - 1) + 1 = k
      /\ (m - 1) - 1 = m - 2 /\ 0 \in 0 .. m - 1
  BY <1>2
<1>5. \A k \in 0 .. m - 2 : Slot(k)' = Slot(k + 1)
  <2> TAKE k \in 0 .. m - 2
  <2>1. k \in 0 .. LsqSize - 1
    BY <1>4
  <2>2. IndexOf(LsqSize, IndexOf(LsqSize, lsqHead, 1), k) = IndexOf(LsqSize, lsqHead, k + 1)
    BY <1>2, <2>1, IndexShift
  <2> QED BY <1>2, <2>2 DEF Slot
<1>6. Slot(0) = lsqHead
  BY <1>2 DEF Slot, IndexOf
<1>7. \A j, k \in 0 .. m - 1 : Slot(j) = Slot(k) => j = k
  BY <1>4, QueueTypes
<1>8. LiveSlots = {Slot(k) : k \in 0 .. m - 1} /\ LiveSlots' = {Slot(k + 1) : k \in 0 .. m - 2}
  BY <1>3, <1>4, <1>5 DEF LiveSlots
<1>9. lsqHead \in LiveSlots
  BY <1>4, <1>6, <1>8
<1>10. ASSUME NEW k \in 0 .. m - 2 PROVE Slot(k + 1) \in LiveSlots /\ Slot(k + 1) # lsqHead
  BY <1>4, <1>6, <1>7, <1>8
<1>11. ASSUME NEW k \in 0 .. m - 1, Slot(k) # lsqHead PROVE Slot(k) \in LiveSlots'
  <2>1. k - 1 \in 0 .. m - 2 /\ (k - 1) + 1 = k
    BY <1>4, <1>6, <1>11
  <2>2. \E j \in 0 .. m - 2 : Slot(k) = Slot(j + 1)
    BY <2>1
  <2> QED BY <1>8, <2>2
<1> QED BY <1>8, <1>9, <1>10, <1>11

(* The sets do not look at entries that are not live.                      *)
LEMMA ExactCarries ==
  ASSUME QueueShape, NEW w, NEW q, NEW r, NEW L, Exact(w, q, L), \A s \in L : r[s] = q[s]
  PROVE  Exact(w, r, L)
<1>1. ASSUME NEW K PROVE In(K, r, L) = In(K, q, L) /\ Num(K, r, L) = Num(K, q, L)
  <2>1. SameIn(K, q, r, L)
    BY DEF SameIn
  <2> QED BY <2>1, InSame
<1> QED BY <1>1 DEF Exact

-----------------------------------------------------------------------------
(* Each step of the engine, with the methods it calls *)

LEMMA DispatchSets ==
  ASSUME MemInv, MemInv', Exact(work, lsq, LiveSlots),
         NEW isStore \in BOOLEAN, NEW ready \in BOOLEAN, Dispatch(isStore, ready),
         work' = IF isStore THEN AfterSource(work, Slot(lsqCount), ready) ELSE work
  PROVE  Exact(work', lsq', LiveSlots')
<1>1. QueueShape /\ QueueShape'
  BY DEF MemInv
<1>2. PICK s, g, q :
        /\ s = Slot(lsqCount) /\ g = (genCtr[s] + 1) % GenMod
        /\ q = [NoLsqEntry EXCEPT !.isStore = isStore, !.id = ops + 1, !.gen = g,
                                  !.dataReady = ready]
  OBVIOUS
<1>3. /\ lsqCount < LsqSize /\ lsqCount' = lsqCount + 1 /\ UNCHANGED lsqHead
      /\ isStore \/ ready
      /\ lsq' = [lsq EXCEPT ![s] = q]
  BY <1>2 DEF Dispatch
<1>4. s \in LsqSlots /\ s \notin LiveSlots /\ LiveSlots' = LiveSlots \cup {s}
  BY <1>1, <1>2, <1>3, OneMoreLive
<1>5. LiveSlots \subseteq LsqSlots /\ lsq \in [LsqSlots -> LsqEntries]
      /\ lsq' \in [LsqSlots -> LsqEntries]
  BY <1>1, SlotsLive DEF QueueShape
<1>6. lsq'[s] = q /\ \A t \in LiveSlots : lsq'[t] = lsq[t]
  BY <1>3, <1>4, <1>5
<1>7. /\ q.isStore = isStore /\ q.dataReady = ready /\ q.acc = NoAccess
      /\ ~q.issued /\ ~q.done
  BY <1>2 DEF NoLsqEntry
<1>8. q \in LsqEntries
  BY <1>4, <1>5, <1>6
<1>9. PICK r : r = lsq'
  OBVIOUS
<1>10. Exact(IF r[s].isStore THEN AfterSource(work, s, r[s].dataReady) ELSE work,
             r, LiveSlots \cup {s})
  <2>1. PICK w, p, L : w = work /\ p = lsq /\ L = LiveSlots
    OBVIOUS
  <2>2. /\ Exact(w, p, L) /\ s \in LsqSlots /\ s \notin L /\ \A u \in L : r[u] = p[u]
        /\ r[s] \in LsqEntries /\ r[s].acc = NoAccess /\ ~r[s].issued /\ ~r[s].done
        /\ r[s].isStore \/ r[s].dataReady
    BY <1>3, <1>4, <1>6, <1>7, <1>8, <1>9, <2>1
  <2>3. Exact(IF r[s].isStore THEN AfterSource(w, s, r[s].dataReady) ELSE w, r, L \cup {s})
    BY <1>1, <2>2, SourceWork
  <2> QED BY <2>1, <2>3
<1> QED BY <1>2, <1>4, <1>6, <1>7, <1>9, <1>10

LEMMA SquashSets ==
  ASSUME MemInv, Exact(work, lsq, LiveSlots), NEW k \in Ages, Squash(k),
         work' = AfterSquash(work, k)
  PROVE  Exact(work', lsq', LiveSlots')
<1>1. QueueShape /\ QueueOK(lsq)
  BY QueueIsOK DEF MemInv
<1>2. lsqCount' = k /\ lsq' = lsq /\ UNCHANGED lsqHead
  BY DEF Squash
<1>3. k \in 0 .. lsqCount
  BY <1>1, AgesRange
<1>4. LiveSlots' = LiveSlots \ Youngest(k) /\ Youngest(k) \subseteq LiveSlots
  BY <1>1, <1>2, <1>3, FewerLive
<1>5. PICK S : S = Youngest(k)
  OBVIOUS
<1>6. Exact(AfterRemove(work, S), lsq, LiveSlots \ S)
  BY <1>1, <1>4, <1>5, RemoveWork
<1> QED BY <1>2, <1>4, <1>5, <1>6 DEF AfterSquash, Youngest

LEMMA ResolveSets ==
  ASSUME MemInv, Exact(work, lsq, LiveSlots), NEW t \in Ages, NEW acc \in Accesses,
         ResolveAddress(t, acc),
         work' = AfterSquash(AfterResolve(work, Slot(t), acc), lsqCount')
  PROVE  Exact(work', lsq', LiveSlots')
<1>1. QueueShape /\ QueueOK(lsq)
  BY QueueIsOK DEF MemInv
<1> DEFINE V == IF Nth(t).isStore /\ mode = "Speculative" /\ ~Faulty(acc)
                THEN Violated(t, acc) ELSE {}
<1>2. PICK s : s = Slot(t)
  OBVIOUS
<1>3. /\ s \in LsqSlots /\ Nth(t) = lsq[s] /\ s \in LiveSlots
      /\ lsq \in [LsqSlots -> LsqEntries] /\ LiveSlots \subseteq LsqSlots
  BY <1>1, <1>2, QueueTypes, SlotsLive DEF QueueShape
<1>4. /\ ~AddrValid(t) /\ lsq' = [lsq EXCEPT ![s].acc = acc]
      /\ lsqCount' = (IF V = {} THEN lsqCount ELSE CHOOSE v \in V : \A w \in V : v <= w)
      /\ UNCHANGED lsqHead
  BY <1>2 DEF ResolveAddress
<1>5. lsqCount' \in 0 .. lsqCount /\ t < lsqCount'
  <2>1. Ages = 0 .. lsqCount - 1 /\ lsqCount \in Nat
    BY <1>1, AgesRange
  <2>2. V \subseteq Ages /\ \A v \in V : v > t
    BY DEF Violated, AccessedLoads
  <2>3. CASE V = {}
    BY <1>4, <2>1, <2>3
  <2>4. CASE V # {}
    <3> HIDE DEF V
    <3>1. V \subseteq Nat
      BY <2>1, <2>2
    <3>2. \E v \in V : \A w \in V : v <= w
      BY <2>4, <3>1, MinExists
    <3>3. lsqCount' \in V
      BY <1>4, <2>4, <3>2
    <3> QED BY <2>1, <2>2, <3>3
  <2> QED BY <2>3, <2>4
<1> HIDE DEF V
<1>6. PICK n, S : n = lsqCount' /\ S = Youngest(n)
  OBVIOUS
<1>7. LiveSlots' = LiveSlots \ S /\ S \subseteq LiveSlots
  BY <1>1, <1>4, <1>5, <1>6, FewerLive
<1>8. s \notin S
  <2>1. PICK m : m = lsqCount
    OBVIOUS
  <2>2. m \in Nat /\ m <= LsqSize /\ LsqSize \in Nat /\ n \in 0 .. m /\ t \in 0 .. m - 1 /\ t < n
    BY <1>1, <1>5, <1>6, <2>1, QueueTypes, AgesRange
  <2>3. ASSUME NEW k \in n .. m - 1 PROVE k \in 0 .. LsqSize - 1 /\ t \in 0 .. LsqSize - 1 /\ k # t
    BY <2>2
  <2>4. \A k \in n .. m - 1 : Slot(k) # Slot(t)
    BY <1>1, <2>3, QueueTypes
  <2> QED BY <1>2, <1>6, <2>1, <2>4 DEF Youngest
<1>9. /\ lsq'[s] = [lsq[s] EXCEPT !.acc = acc]
      /\ \A u \in LsqSlots : u # s => lsq'[u] = lsq[u]
  BY <1>3, <1>4
<1>10. EntryOK(lsq[s]) /\ lsq[s].acc = NoAccess
  BY <1>1, <1>3, <1>4 DEF QueueOK, AddrValid
<1>11. PICK r : r = lsq'
  OBVIOUS
<1>12. /\ r[s] = [lsq[s] EXCEPT !.acc = acc]
       /\ \A u \in LiveSlots : u # s => r[u] = lsq[u]
  BY <1>3, <1>9, <1>11
<1>13. PICK w : w = AfterResolve(work, s, acc)
  OBVIOUS
<1>14. Exact(w, r, LiveSlots)
  BY <1>1, <1>3, <1>10, <1>12, <1>13, ResolveWork
<1>15. \A u \in S : r[u] = lsq[u]
  BY <1>7, <1>8, <1>12
<1>16. Exact(AfterRemove(w, S), r, LiveSlots \ S)
  BY <1>1, <1>7, <1>14, <1>15, RemoveWork
<1>17. work' = AfterRemove(w, S)
  BY <1>2, <1>6, <1>13 DEF AfterSquash, Youngest
<1> QED BY <1>7, <1>11, <1>16, <1>17

LEMMA UpdateSets ==
  ASSUME MemInv, Exact(work, lsq, LiveSlots), NEW k \in Ages,
         \/ CaptureData(k) /\ work' = AfterCapture(work, Slot(k))
         \/ ReportLoad(k) /\ work' = AfterReport(work, Slot(k))
  PROVE  Exact(work', lsq', LiveSlots')
<1>1. QueueShape /\ QueueOK(lsq)
  BY QueueIsOK DEF MemInv
<1>2. PICK s : s = Slot(k)
  OBVIOUS
<1>3. /\ s \in LsqSlots /\ Nth(k) = lsq[s] /\ s \in LiveSlots
      /\ lsq \in [LsqSlots -> LsqEntries] /\ LiveSlots \subseteq LsqSlots
      /\ EntryOK(lsq[s])
  BY <1>1, <1>2, QueueTypes, SlotsLive DEF QueueShape, QueueOK
<1>4. LiveSlots' = LiveSlots
  BY DEF CaptureData, ReportLoad, LiveSlots, Ages, Slot
<1>5. PICK r : r = lsq'
  OBVIOUS
<1>6. CASE CaptureData(k) /\ work' = AfterCapture(work, Slot(k))
  <2>1. /\ lsq[s].isStore /\ ~lsq[s].dataReady
        /\ r = [lsq EXCEPT ![s].dataReady = TRUE]
    BY <1>2, <1>3, <1>5, <1>6 DEF CaptureData
  <2>2. r[s] = [lsq[s] EXCEPT !.dataReady = TRUE] /\ \A u \in LiveSlots : u # s => r[u] = lsq[u]
    BY <1>3, <2>1
  <2>3. Captured(lsq[s], r[s])
    BY <1>3, <2>1, <2>2 DEF Captured
  <2>4. Exact(AfterCapture(work, s), r, LiveSlots)
    BY <1>1, <1>3, <2>2, <2>3, CaptureWork
  <2> QED BY <1>2, <1>4, <1>5, <1>6, <2>4
<1>7. CASE ReportLoad(k) /\ work' = AfterReport(work, Slot(k))
  <2>1. /\ lsq[s].done /\ ~lsq[s].reported
        /\ r = [lsq EXCEPT ![s].reported = TRUE]
    BY <1>2, <1>3, <1>5, <1>7 DEF ReportLoad
  <2>2. r[s] = [lsq[s] EXCEPT !.reported = TRUE] /\ \A u \in LiveSlots : u # s => r[u] = lsq[u]
    BY <1>3, <2>1
  <2>3. Reported(lsq[s], r[s])
    BY <1>3, <2>1, <2>2 DEF Reported
  <2>4. Exact(AfterReport(work, s), r, LiveSlots)
    BY <1>1, <1>3, <2>2, <2>3, ReportWork
  <2> QED BY <1>2, <1>4, <1>5, <1>7, <2>4
<1> QED BY <1>6, <1>7

LEMMA CommitSets ==
  ASSUME MemInv, Exact(work, lsq, LiveSlots), CommitLoad \/ CommitStore,
         work' = AfterRemove(work, {lsqHead})
  PROVE  Exact(work', lsq', LiveSlots')
<1>1. QueueShape /\ QueueOK(lsq)
  BY QueueIsOK DEF MemInv
<1>2. PopLsq /\ lsqCount > 0 /\ lsq' = lsq
  BY DEF CommitLoad, CommitStore
<1>3. PICK S : S = {lsqHead}
  OBVIOUS
<1>4. S \subseteq LiveSlots /\ LiveSlots' = LiveSlots \ S
  BY <1>1, <1>2, <1>3, HeadGone
<1>5. Exact(AfterRemove(work, S), lsq, LiveSlots \ S)
  BY <1>1, <1>4, RemoveWork
<1> QED BY <1>2, <1>3, <1>4, <1>5

(* What the walk and an answer do to the queue: c is lsq with some loads   *)
(* complete, r is c with at most one issued.                               *)
Walked(c) ==
  \A s \in LsqSlots : c[s] = lsq[s] \/ (s \in LiveSlots /\ Completes(lsq[s], c[s]))
Launched(c, r, u) ==
  /\ u \in LiveSlots /\ c[u] = lsq[u] /\ Issues(c[u], r[u])
  /\ \A s \in LsqSlots : s # u => r[s] = c[s]

LEMMA AccessSets ==
  ASSUME QueueShape, QueueOK(lsq), Exact(work, lsq, LiveSlots), NEW c, Walked(c), NEW r, r = lsq',
         (\A s \in LsqSlots : r[s] = c[s]) \/ (\E u : Launched(c, r, u))
  PROVE  Exact(AfterAccess, r, LiveSlots)
<1> DEFINE C == {s \in LsqSlots : r[s].done # lsq[s].done}
           I == {s \in LsqSlots : r[s].issued # lsq[s].issued}
<1>1. LiveSlots \subseteq LsqSlots
  BY SlotsLive
<1>2. ASSUME NEW s \in LsqSlots
      PROVE  /\ c[s].issued = lsq[s].issued
             /\ c[s].done # lsq[s].done => s \in LiveSlots /\ Completes(lsq[s], c[s])
             /\ c[s].done = lsq[s].done => c[s] = lsq[s]
  BY DEF Walked, Completes
<1>3. ASSUME NEW s \in LsqSlots PROVE r[s].done = c[s].done
  <2>1. CASE \A t \in LsqSlots : r[t] = c[t]
    BY <2>1
  <2>2. CASE \E u : Launched(c, r, u)
    <3>1. PICK u : Launched(c, r, u)
      BY <2>2
    <3>2. CASE s = u
      <4>1. PICK e, f : e = c[u] /\ f = r[u]
        OBVIOUS
      <4>2. e \in LsqEntries /\ f = [e EXCEPT !.issued = TRUE]
        BY <3>1, <4>1 DEF Launched, Issues
      <4>3. f.done = e.done
        BY <4>2 DEF LsqEntries
      <4> QED BY <3>2, <4>1, <4>3
    <3>3. CASE s # u
      BY <3>1, <3>3 DEF Launched
    <3> QED BY <3>2, <3>3
  <2> QED BY <2>1, <2>2
<1>4. C \subseteq LiveSlots /\ \A s \in C : Completes(lsq[s], c[s])
  BY <1>2, <1>3
<1>5. \A s \in LiveSlots \ C : c[s] = lsq[s]
  BY <1>1, <1>2, <1>3
<1> HIDE DEF C
<1>6. Exact(AfterComplete(work, C), c, LiveSlots)
  BY <1>4, <1>5, CompleteWork
<1>7. AfterAccess = AfterIssue(AfterComplete(work, C), I)
  BY DEF AfterAccess, C
<1>8. CASE \A s \in LsqSlots : r[s] = c[s]
  <2>1. I = {}
    BY <1>2, <1>8
  <2>2. PICK w : w = AfterComplete(work, C)
    OBVIOUS
  <2>3. Exact(w, c, LiveSlots)
    BY <1>6, <2>2
  <2>4. AfterIssue(w, {}) = w
    <3>1. w \in WorkState
      BY <2>3 DEF Exact
    <3>2. Cardinality({}) = 0
      BY FS_EmptySet
    <3>3. /\ w.candidates \ {} = w.candidates /\ w.pending \cup {} = w.pending
          /\ w.accessedLoads \cup {} = w.accessedLoads
          /\ w.pendingLoads + Cardinality({}) = w.pendingLoads
      BY <3>1, <3>2 DEF WorkState
    <3>4. AfterIssue(w, {}) = [w EXCEPT !.candidates = w.candidates, !.pending = w.pending,
                                        !.accessedLoads = w.accessedLoads,
                                        !.pendingLoads = w.pendingLoads]
      BY <3>3 DEF AfterIssue
    <3> QED BY <3>1, <3>4 DEF WorkState
  <2>5. \A s \in LiveSlots : r[s] = c[s]
    BY <1>1, <1>8
  <2>6. Exact(w, r, LiveSlots)
    BY <2>3, <2>5, ExactCarries
  <2> HIDE DEF I
  <2> QED BY <1>7, <2>1, <2>2, <2>4, <2>6
<1>9. CASE \E u : Launched(c, r, u)
  <2>1. PICK u : Launched(c, r, u)
    BY <1>9
  <2>2. /\ u \in LiveSlots /\ u \in LsqSlots /\ Issues(c[u], r[u]) /\ c[u] = lsq[u]
        /\ \A s \in LsqSlots : s # u => r[s] = c[s]
    BY <1>1, <2>1 DEF Launched
  <2>3. c[u].issued # r[u].issued
    <3>1. PICK e, f : e = c[u] /\ f = r[u]
      OBVIOUS
    <3>2. e \in LsqEntries /\ ~e.issued /\ f = [e EXCEPT !.issued = TRUE]
      BY <2>2, <3>1 DEF Issues
    <3>3. f.issued
      BY <3>2 DEF LsqEntries
    <3> QED BY <3>1, <3>2, <3>3
  <2>4. I = {u}
    BY <1>2, <2>2, <2>3
  <2>5. PICK w, L : w = AfterComplete(work, C) /\ L = LiveSlots
    OBVIOUS
  <2>6. Exact(w, c, L) /\ u \in L /\ \A t \in L : t # u => r[t] = c[t]
    BY <1>1, <1>6, <2>2, <2>5
  <2>7. Exact(AfterIssue(w, {u}), r, L)
    BY <2>2, <2>6, IssueWork
  <2> HIDE DEF I
  <2> QED BY <1>7, <2>4, <2>5, <2>7
<1> QED BY <1>8, <1>9

LEMMA MemAccessSets ==
  ASSUME MemInv, Exact(work, lsq, LiveSlots), MemAccess, work' = AfterAccess
  PROVE  Exact(work', lsq', LiveSlots')
<1>1. QueueShape /\ QueueOK(lsq)
  BY QueueIsOK DEF MemInv
<1>2. PICK flagged : /\ NoSend(flagged) \/ SendStore(flagged) \/ SendLoad(flagged)
                     /\ UNCHANGED <<lsqHead, lsqCount>>
  BY DEF MemAccess
<1>3. LiveSlots' = LiveSlots
  BY <1>2 DEF LiveSlots, Ages, Slot
<1>4. PICK c, r : c = Completed(flagged) /\ r = lsq'
  OBVIOUS
<1>5. /\ c \in [LsqSlots -> LsqEntries]
      /\ \A s \in LsqSlots : (\A k \in Ages : s # Slot(k)) => c[s] = lsq[s]
      /\ \A k \in Ages : WalkedTo(k, flagged, c[Slot(k)])
  BY <1>4, WalkIs DEF MemInv
<1>6. \A k \in Visited(flagged) : k \in Ages /\ k \in Candidates
  BY DEF Visited, Candidates
<1>7. \A k \in Ages : Slot(k) \in LsqSlots /\ Slot(k) \in LiveSlots /\ Nth(k) = lsq[Slot(k)]
                      /\ EntryOK(lsq[Slot(k)])
  BY <1>1, QueueTypes, SlotsLive DEF QueueOK
<1>8. Walked(c)
  <2> SUFFICES ASSUME NEW s \in LsqSlots, c[s] # lsq[s]
               PROVE  s \in LiveSlots /\ Completes(lsq[s], c[s])
    BY DEF Walked
  <2>1. PICK k \in Ages : s = Slot(k)
    BY <1>5
  <2>2. PICK e, f : e = lsq[s] /\ f = c[s]
    OBVIOUS
  <2>3. PICK v : v = Ids(Supplier(k).acc, Supplier(k).id)
    OBVIOUS
  <2>4. /\ k \in Visited(flagged)
        /\ f = [e EXCEPT !.done = TRUE] \/ f = [e EXCEPT !.done = TRUE, !.val = v]
    BY <1>5, <2>1, <2>2, <2>3 DEF WalkedTo
  <2>5. EntryOK(e) /\ ~e.isStore /\ e.acc # NoAccess /\ ~e.done /\ f \in LsqEntries
    BY <1>5, <1>6, <1>7, <2>1, <2>2, <2>4 DEF Candidates, AddrValid
  <2>6. /\ ~f.isStore /\ f.acc = e.acc /\ f.issued = e.issued /\ f.done /\ ~f.reported
    BY <2>4, <2>5 DEF EntryOK, LsqEntries
  <2> QED BY <1>7, <2>1, <2>2, <2>5, <2>6 DEF Completes
<1>9. (\A s \in LsqSlots : r[s] = c[s]) \/ (\E u : Launched(c, r, u))
  <2>1. CASE NoSend(flagged) \/ SendStore(flagged)
    BY <1>4, <2>1 DEF NoSend, SendStore
  <2>2. CASE SendLoad(flagged)
    <3>1. PICK k \in PortCandidates(flagged) : r = [c EXCEPT ![Slot(k)].issued = TRUE]
      BY <1>4, <2>2 DEF SendLoad
    <3>2. /\ k \in Visited(flagged) /\ k \in Ages /\ k \in Candidates
          /\ ~Fault(k) /\ ~Forwards(k, flagged)
      BY <1>6, <3>1 DEF PortCandidates, Goes, Searches, Forwards
    <3>3. PICK u : u = Slot(k)
      OBVIOUS
    <3>4. u \in LiveSlots /\ u \in LsqSlots /\ c[u] = lsq[u]
      BY <1>5, <1>7, <3>2, <3>3 DEF WalkedTo
    <3>5. r[u] = [c[u] EXCEPT !.issued = TRUE] /\ \A s \in LsqSlots : s # u => r[s] = c[s]
      BY <1>5, <3>1, <3>3, <3>4
    <3>6. EntryOK(lsq[u]) /\ ~lsq[u].isStore /\ lsq[u].acc # NoAccess /\ ~lsq[u].issued
          /\ ~lsq[u].done
      BY <1>7, <3>2, <3>3 DEF Candidates, AddrValid
    <3>7. Issues(c[u], r[u])
      BY <3>4, <3>5, <3>6 DEF Issues, EntryOK
    <3> QED BY <3>4, <3>5, <3>7 DEF Launched
  <2> QED BY <1>2, <2>1, <2>2
<1>10. Exact(AfterAccess, r, LiveSlots)
  BY <1>1, <1>4, <1>8, <1>9, AccessSets
<1> QED BY <1>3, <1>4, <1>10

LEMMA RespondSets ==
  ASSUME MemInv, MemInv', Exact(work, lsq, LiveSlots), NEW i \in 1 .. Len(port), Respond(i),
         work' = AfterAccess
  PROVE  Exact(work', lsq', LiveSlots')
<1>1. QueueShape /\ QueueOK(lsq) /\ QueueShape'
  BY QueueIsOK DEF MemInv
<1>2. LiveSlots' = LiveSlots
  BY DEF Respond, LiveSlots, Ages, Slot
<1>3. PICK r : r = lsq'
  OBVIOUS
<1>4. Walked(r)
  <2>1. CASE port[i].isStore \/ ~LoadMatches(port[i])
    BY <1>3, <2>1 DEF Respond, Walked
  <2>2. CASE ~port[i].isStore /\ LoadMatches(port[i])
    <3>1. i \in LoadRequests
      BY <2>2 DEF LoadRequests
    <3>2. PICK k \in Pending : LoadAsks(i, k)
      BY <2>2, <3>1, LoadOwner
    <3>3. PICK s, v : s = port[i].slot /\ v = port[i].val
      OBVIOUS
    <3>4. k \in Ages /\ s = Slot(k) /\ s \in LsqSlots /\ s \in LiveSlots /\ Nth(k) = lsq[s]
      BY <1>1, <3>2, <3>3, QueueTypes, SlotsLive DEF LoadAsks, Pending
    <3>5. r = [lsq EXCEPT ![s].done = TRUE, ![s].val = v]
      BY <1>3, <2>2, <3>3 DEF Respond
    <3>6. lsq \in [LsqSlots -> LsqEntries] /\ r \in [LsqSlots -> LsqEntries]
      BY <1>1, <1>3 DEF QueueShape
    <3>7. /\ r[s] = [lsq[s] EXCEPT !.done = TRUE, !.val = v]
          /\ \A u \in LsqSlots : u # s => r[u] = lsq[u]
      BY <3>4, <3>5, <3>6
    <3>8. PICK e, f : e = lsq[s] /\ f = r[s]
      OBVIOUS
    <3>9. EntryOK(e) /\ e.issued /\ ~e.done /\ f \in LsqEntries
          /\ f = [e EXCEPT !.done = TRUE, !.val = v]
      BY <1>1, <3>2, <3>4, <3>6, <3>7, <3>8 DEF QueueOK, Pending
    <3>10. /\ ~e.isStore /\ e.acc # NoAccess /\ ~f.isStore /\ f.acc = e.acc
           /\ f.issued = e.issued /\ f.done /\ ~f.reported
      BY <3>9 DEF EntryOK, LsqEntries
    <3>11. Completes(lsq[s], r[s])
      BY <3>8, <3>9, <3>10 DEF Completes
    <3> QED BY <3>4, <3>7, <3>11 DEF Walked
  <2> QED BY <2>1, <2>2
<1>5. \A s \in LsqSlots : r[s] = r[s]
  OBVIOUS
<1>6. Exact(AfterAccess, r, LiveSlots)
  BY <1>1, <1>3, <1>4, <1>5, AccessSets
<1> QED BY <1>2, <1>3, <1>6

-----------------------------------------------------------------------------
(* Words *)

LEMMA WordOf ==
  ASSUME NEW w \in Nat \ {0}, NEW z \in Nat
  PROVE  /\ z % w \in 0 .. w - 1 /\ z \div w \in Int
         /\ z = w * (z \div w) + (z % w)
OBVIOUS

LEMMA SameWord ==
  ASSUME NEW w \in Nat \ {0}, NEW q \in Int, NEW z \in Nat, w * q <= z, z < w * q + w
  PROVE  z \div w = q
<1>1. PICK p, r : p = z \div w /\ r = z % w
  OBVIOUS
<1>2. p \in Int /\ r \in 0 .. w - 1 /\ z = w * p + r
  BY <1>1, WordOf
<1>3. CASE p < q
  <2>1. w * (p + 1) <= w * q
    BY <1>2, <1>3
  <2>2. w * (p + 1) = w * p + w
    BY <1>2
  <2>3. w * p \in Int /\ w * q \in Int
    BY <1>2
  <2> QED BY <1>2, <2>1, <2>2, <2>3
<1>4. CASE q < p
  <2>1. w * (q + 1) <= w * p
    BY <1>2, <1>4
  <2>2. w * (q + 1) = w * q + w
    OBVIOUS
  <2>3. w * p \in Int /\ w * q \in Int
    BY <1>2
  <2> QED BY <1>2, <2>1, <2>2, <2>3
<1> QED BY <1>1, <1>2, <1>3, <1>4

(* An aligned access that divides a word lies in one word.                 *)
LEMMA AlignedInWord ==
  ASSUME NEW w \in Nat \ {0}, NEW y \in Nat, NEW n \in {1, 2, 4}, y % n = 0, w % n = 0
  PROVE  y + n <= w * (y \div w) + w
<1>1. PICK q, r : q = y \div w /\ r = y % w
  OBVIOUS
<1>2. q \in Int /\ r \in 0 .. w - 1 /\ y = w * q + r
  BY <1>1, WordOf
<1>3. PICK c, d : c = y \div n /\ d = w \div n
  OBVIOUS
<1>4. c \in Int /\ d \in Int /\ y = n * c /\ w = n * d
  <2>1. y \div n \in Int /\ y = n * (y \div n) + (y % n)
    BY WordOf
  <2>2. w \div n \in Int /\ w = n * (w \div n) + (w % n)
    BY WordOf
  <2>3. n * (y \div n) \in Int /\ n * (w \div n) \in Int
    BY <2>1, <2>2
  <2> QED BY <1>3, <2>1, <2>2, <2>3
<1>5. PICK m : m = d * q
  OBVIOUS
<1>6. m \in Int /\ w * q = n * m
  BY <1>2, <1>4, <1>5
<1>7. y + n <= n * m + w
  <2>1. CASE n = 1
    BY <1>2, <1>4, <1>6, <2>1
  <2>2. CASE n = 2
    BY <1>2, <1>4, <1>6, <2>2
  <2>3. CASE n = 4
    BY <1>2, <1>4, <1>6, <2>3
  <2> QED BY <2>1, <2>2, <2>3
<1> QED BY <1>1, <1>6, <1>7

(* A store that overlaps a load counts in the load's word.                 *)
LEMMA StoreCountsThere ==
  ASSUME NEW a \in Accesses, NEW l \in Accesses, Overlaps(a, l), ~Faulty(l)
  PROVE  wordBucket(l[1]) \in Touched(a)
<1>1. PICK w, x, m, y, n : w = WordBytes /\ x = a[1] /\ m = a[2] /\ y = l[1] /\ n = l[2]
  OBVIOUS
<1>2. /\ w \in Nat \ {0} /\ w % m = 0 /\ w % n = 0
  BY <1>1, LsqSetsAssumption
<1>3. /\ x \in Nat /\ y \in Nat /\ m \in {1, 2, 4} /\ n \in {1, 2, 4}
  BY <1>1, AccessBytes
<1>4. y % n = 0 /\ x + m > y /\ y + n > x
  BY <1>1 DEF Overlaps, Faulty
<1>5. PICK q, b : q = y \div w /\ b = w * q
  OBVIOUS
<1>6. q \in Int /\ b \in Int /\ b <= y /\ y < b + w
  BY <1>2, <1>3, <1>5, WordOf
<1>7. y + n <= b + w
  BY <1>2, <1>3, <1>4, <1>5, AlignedInWord
<1>8. m <= w
  <2>1. w = m * (w \div m) + (w % m) /\ w \div m \in Int
    BY <1>2, <1>3, WordOf
  <2>2. PICK d : d = w \div m
    OBVIOUS
  <2>3. d \in Int /\ w = m * d
    BY <1>2, <1>3, <2>1, <2>2
  <2>4. CASE m = 1
    BY <1>2, <2>3, <2>4
  <2>5. CASE m = 2
    BY <1>2, <2>3, <2>5
  <2>6. CASE m = 4
    BY <1>2, <2>3, <2>6
  <2> QED BY <1>3, <2>4, <2>5, <2>6
<1>9. x \div w = q \/ (x + m - 1) \div w = q
  <2>1. CASE b <= x
    <3>1. x < b + w
      BY <1>2, <1>3, <1>4, <1>6, <1>7
    <3> QED BY <1>2, <1>3, <1>5, <1>6, <2>1, <3>1, SameWord
  <2>2. CASE x < b
    <3>1. x + m - 1 \in Nat /\ b <= x + m - 1 /\ x + m - 1 < b + w
      BY <1>2, <1>3, <1>4, <1>6, <1>8, <2>2
    <3> QED BY <1>2, <1>5, <1>6, <3>1, SameWord
  <2> QED BY <1>3, <1>6, <2>1, <2>2
<1> QED BY <1>1, <1>5, <1>9 DEF Touched, wordBucket

-----------------------------------------------------------------------------
(* The sets name the ages the properties are about *)

Matches(K, S) == S \subseteq Ages /\ \A k \in Ages : k \in S <=> Nth(k) \in K

LEMMA SlotsCount ==
  ASSUME QueueShape, NEW K, NEW S, Matches(K, S)
  PROVE  /\ SlotsOf(S) = In(K, lsq, LiveSlots)
         /\ Cardinality(S) = Num(K, lsq, LiveSlots) /\ IsFiniteSet(S)
<1>1. S \subseteq Ages /\ \A k \in Ages : k \in S <=> Nth(k) \in K
  BY DEF Matches
<1>2. \A k \in Ages : Slot(k) \in LiveSlots /\ Nth(k) = lsq[Slot(k)]
  BY QueueTypes, SlotsLive
<1>3. \A s \in LiveSlots : \E k \in Ages : s = Slot(k)
  BY SlotsLive
<1>4. SlotsOf(S) = In(K, lsq, LiveSlots)
  BY <1>1, <1>2, <1>3 DEF SlotsOf, In
<1>5. \A j, k \in S : Slot(j) = Slot(k) => j = k
  BY <1>1, QueueTypes
<1>6. IsFiniteSet(S)
  <2>1. lsqCount \in Nat /\ Ages = 0 .. lsqCount - 1
    BY AgesRange
  <2>2. IsFiniteSet(Ages)
    BY <2>1, FS_Interval
  <2> QED BY <1>1, <2>2, FS_Subset
<1>7. PICK T : T = SlotsOf(S)
  OBVIOUS
<1> DEFINE f == [k \in S |-> Slot(k)]
<1>8. f \in Surjection(S, T)
  BY <1>7 DEF SlotsOf, Surjection
<1>9. f \in Injection(S, T)
  BY <1>5, <1>8 DEF Surjection, Injection, IsInjective
<1>10. ExistsBijection(S, T)
  BY <1>8, <1>9 DEF ExistsBijection, Bijection
<1>11. Cardinality(T) = Cardinality(S)
  BY <1>6, <1>10, FS_Bijection
<1> QED BY <1>4, <1>6, <1>7, <1>11 DEF Num

(* A bucket that counts nothing has nothing in it.                         *)
LEMMA NoneCounted ==
  ASSUME MemInv, NEW k \in Candidates, ~Fault(k), NEW b, b = wordBucket(Nth(k).acc[1]),
         NEW S, S = {j \in KnownStores : b \in Touched(Nth(j).acc)}, S = {}
  PROVE  OlderStores(k) = {}
<1>1. k \in Ages /\ AddrValid(k) /\ QueueShape
  BY DEF Candidates, MemInv
<1>2. Nth(k).acc \in Accesses /\ ~Faulty(Nth(k).acc)
  BY <1>1, AddressTypes DEF Fault
<1>3. ASSUME NEW j \in OlderStores(k) PROVE FALSE
  <2>1. j \in KnownStores /\ j \in Ages /\ AddrValid(j) /\ Overlaps(Nth(j).acc, Nth(k).acc)
    BY DEF OlderStores, KnownStores
  <2>2. Nth(j).acc \in Accesses
    BY <1>1, <2>1, AddressTypes
  <2>3. b \in Touched(Nth(j).acc)
    BY <1>2, <2>1, <2>2, StoreCountsThere
  <2> QED BY <2>1, <2>3
<1> QED BY <1>3

LEMMA SetsInvExact == SetsInv => SetsExact
<1> SUFFICES ASSUME MemInv, Exact(work, lsq, LiveSlots) PROVE SetsExact
  BY DEF SetsInv
<1>1. QueueShape
  BY DEF MemInv
<1>2. \A k \in Ages : Nth(k) \in LsqEntries
  BY <1>1, QueueTypes
<1>3. /\ Matches(Unsent, Candidates) /\ Matches(Sent, Pending)
      /\ Matches(Accessed, AccessedLoads) /\ Matches(Arrived, Unreported)
      /\ Matches(Dataless, Waiting) /\ Matches(Known, KnownStores)
      /\ Matches(Unknown, UnknownStores)
  <2>1. Matches(Unsent, Candidates) /\ Matches(Sent, Pending)
    BY <1>2 DEF Matches, Unsent, Candidates, AddrValid, Sent, Pending
  <2>2. Matches(Accessed, AccessedLoads) /\ Matches(Arrived, Unreported)
    BY <1>2 DEF Matches, Accessed, AccessedLoads, Arrived, Unreported
  <2>3. Matches(Dataless, Waiting)
    BY <1>2 DEF Matches, Dataless, Waiting
  <2>4. Matches(Known, KnownStores) /\ Matches(Unknown, UnknownStores)
    BY <1>2 DEF Matches, Known, KnownStores, Unknown, UnknownStores, AddrValid
  <2> QED BY <2>1, <2>2, <2>3, <2>4
<1>4. ASSUME NEW K, NEW S, Matches(K, S)
      PROVE  /\ SlotsOf(S) = In(K, lsq, LiveSlots)
             /\ Cardinality(S) = Num(K, lsq, LiveSlots) /\ IsFiniteSet(S)
  BY <1>1, <1>4, SlotsCount
<1>5. /\ work.candidates = SlotsOf(Candidates) /\ work.pending = SlotsOf(Pending)
      /\ work.knownStores = SlotsOf(KnownStores)
      /\ work.unknownStores = SlotsOf(UnknownStores)
      /\ work.accessedLoads = SlotsOf(AccessedLoads)
  BY <1>3, <1>4 DEF Exact
<1>6. work.updates = SlotsOf(Unreported \cup Waiting)
  <2>1. work.updates = SlotsOf(Unreported) \cup SlotsOf(Waiting)
    BY <1>3, <1>4 DEF Exact
  <2> QED BY <2>1 DEF SlotsOf
<1>7. /\ work.pendingLoads = Cardinality(Pending)
      /\ work.unreportedLoads = Cardinality(Unreported)
      /\ work.waitingStores = Cardinality(Waiting)
  BY <1>3, <1>4 DEF Exact
<1> DEFINE Counted(b) == {k \in KnownStores : b \in Touched(Nth(k).acc)}
<1>8. ASSUME NEW b \in 0 .. Buckets - 1
      PROVE  work.storeWords[b] = Cardinality(Counted(b)) /\ IsFiniteSet(Counted(b))
  <2>1. Matches(KnownOn(b), Counted(b))
    BY <1>2 DEF Matches, KnownOn, Known, KnownStores, AddrValid
  <2> HIDE DEF Counted
  <2> QED BY <1>4, <2>1 DEF Exact
<1>9. ASSUME NEW k \in Candidates, ~Fault(k), work.storeWords[wordBucket(Nth(k).acc[1])] = 0
      PROVE  OlderStores(k) = {}
  <2>1. PICK b, S : b = wordBucket(Nth(k).acc[1]) /\ S = Counted(b)
    OBVIOUS
  <2>2. b \in 0 .. Buckets - 1
    <3>1. k \in Ages /\ AddrValid(k)
      BY DEF Candidates
    <3>2. Nth(k).acc \in Accesses
      BY <1>1, <3>1, AddressTypes
    <3> QED BY <2>1, <3>2, BucketOf DEF Touched
  <2>3. S = {}
    <3> HIDE DEF Counted
    <3>1. Cardinality(S) = 0 /\ IsFiniteSet(S)
      BY <1>8, <1>9, <2>1, <2>2
    <3> QED BY <3>1, FS_EmptySet
  <2> QED BY <1>9, <2>1, <2>3, NoneCounted
<1>10. \A b \in 0 .. Buckets - 1 :
         work.storeWords[b] = Cardinality({k \in KnownStores : b \in Touched(Nth(k).acc)})
  BY <1>8
<1> QED BY <1>5, <1>6, <1>7, <1>9, <1>10 DEF SetsExact
-----------------------------------------------------------------------------
LEMMA SetsInvStarts == SetsInit => SetsInv
<1> SUFFICES ASSUME MemInit, work = NoWork PROVE SetsInv
  BY DEF SetsInit
<1>1. MemInv
  BY MemInvStarts
<1>2. LiveSlots = {}
  BY DEF MemInit, LiveSlots, Ages
<1>3. \A K : In(K, lsq, {}) = {} /\ Num(K, lsq, {}) = 0
  BY FS_EmptySet DEF In, Num
<1>4. NoWork \in WorkState
  <2>1. [b \in 0 .. Buckets - 1 |-> 0] \in [0 .. Buckets - 1 -> Int]
    OBVIOUS
  <2>2. {} \in SUBSET LsqSlots
    OBVIOUS
  <2> QED BY <2>1, <2>2 DEF NoWork, WorkState
<1>5. /\ work.candidates = {} /\ work.pending = {} /\ work.updates = {}
      /\ work.knownStores = {} /\ work.unknownStores = {} /\ work.accessedLoads = {}
      /\ work.storeWords = [b \in 0 .. Buckets - 1 |-> 0]
      /\ work.pendingLoads = 0 /\ work.unreportedLoads = 0 /\ work.waitingStores = 0
  BY DEF NoWork
<1>6. Exact(work, lsq, {})
  <2>1. \A b \in 0 .. Buckets - 1 : work.storeWords[b] = 0
    BY <1>5
  <2> QED BY <1>3, <1>4, <1>5, <2>1 DEF Exact
<1> QED BY <1>1, <1>2, <1>6 DEF SetsInv

LEMMA SetsInvNext ==
  ASSUME MaxOps < GenMod
  PROVE  SetsInv /\ [SetsNext]_setsVars => SetsInv'
<1> SUFFICES ASSUME MemInv, Exact(work, lsq, LiveSlots), [SetsNext]_setsVars
             PROVE  MemInv' /\ Exact(work', lsq', LiveSlots')
  BY DEF SetsInv
<1>1. [MemNext]_memVars
  BY DEF SetsNext, setsVars, MemNext
<1>2. MemInv'
  BY <1>1, MemInvNext
<1>3. ASSUME NEW isStore \in BOOLEAN, NEW ready \in BOOLEAN, Dispatch(isStore, ready),
             work' = IF isStore THEN AfterSource(work, Slot(lsqCount), ready) ELSE work
      PROVE  Exact(work', lsq', LiveSlots')
  BY <1>2, <1>3, DispatchSets
<1>4. ASSUME NEW k \in Ages, NEW acc \in Accesses, ResolveAddress(k, acc),
             work' = AfterSquash(AfterResolve(work, Slot(k), acc), lsqCount')
      PROVE  Exact(work', lsq', LiveSlots')
  BY <1>4, ResolveSets
<1>5. ASSUME NEW k \in Ages, Squash(k), work' = AfterSquash(work, k)
      PROVE  Exact(work', lsq', LiveSlots')
  BY <1>5, SquashSets
<1>6. ASSUME NEW k \in Ages, \/ CaptureData(k) /\ work' = AfterCapture(work, Slot(k))
                             \/ ReportLoad(k) /\ work' = AfterReport(work, Slot(k))
      PROVE  Exact(work', lsq', LiveSlots')
  BY <1>6, UpdateSets
<1>7. CASE MemAccess /\ work' = AfterAccess
  BY <1>2, <1>7, MemAccessSets
<1>8. ASSUME NEW i \in 1 .. Len(port), Respond(i), work' = AfterAccess
      PROVE  Exact(work', lsq', LiveSlots')
  BY <1>2, <1>8, RespondSets
<1>9. CASE (CommitLoad \/ CommitStore) /\ work' = AfterRemove(work, {lsqHead})
  BY <1>2, <1>9, CommitSets
<1>10. ASSUME UNCHANGED work, UNCHANGED lsqVars
       PROVE  Exact(work', lsq', LiveSlots')
  <2>1. work' = work /\ lsq' = lsq /\ LiveSlots' = LiveSlots
    BY <1>10 DEF lsqVars, LiveSlots, Ages, Slot
  <2> QED BY <2>1
<1>11. CASE \/ \E i \in 1 .. Len(port) : PortPerform(i) /\ UNCHANGED work
            \/ SbPop /\ UNCHANGED work
            \/ UNCHANGED setsVars
  <2>1. UNCHANGED work /\ UNCHANGED lsqVars
    BY <1>11 DEF PortPerform, SbPop, setsVars, memVars
  <2> QED BY <1>2, <1>10, <2>1
<1> QED BY <1>2, <1>3, <1>4, <1>5, <1>6, <1>7, <1>8, <1>9, <1>11 DEF SetsNext

(* "kept current as entries change state" (core/lsq.h), for queues of any  *)
(* size in all three modes: after any mix of forwards, faults, answers,    *)
(* replays, squashes and commits, each bitmap and counter says what a      *)
(* search of the live entries would, and where storeWords counts no store  *)
(* in a load's word there is none to forward from (hasOlderStore).         *)
THEOREM SetsAlwaysExact ==
  ASSUME MaxOps < GenMod
  PROVE  SetsSpec => []SetsExact
<1>1. SetsInv /\ [SetsNext]_setsVars => SetsInv'
  BY SetsInvNext
<1> QED BY <1>1, SetsInvStarts, SetsInvExact, PTL DEF SetsSpec
=============================================================================
