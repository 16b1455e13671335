--------------------------- MODULE CacheOverMemory ---------------------------
(***************************************************************************)
(* One cache between a requester and a level below it that may refuse a    *)
(* request, performs what it accepts in order of arrival, and answers      *)
(* refills after any delay and in any order (an L2 answers a hit before an *)
(* older miss).  A request respects the discipline of memory/request.h:    *)
(* canAccept before access.  The data of a write is its tag.               *)
(***************************************************************************)
EXTENDS Cache

CONSTANTS Shapes,       \* the sets of offsets that requests cover
          MaxRequests   \* bound on requests

ASSUME PortAssumption == Shapes \subseteq SUBSET Offsets /\ MaxRequests \in Nat

VARIABLES cache,
          below,        \* the level below: line -> offset -> datum
          flight,       \* refills on their way: [tag, data]
          asked         \* requests made so far

cvars == <<cache, below, flight, asked>>

CInit ==
  /\ cache = EmptyCache
  /\ below = [l \in LineSet |-> [o \in Offsets |-> 0]]
  /\ flight = {}
  /\ asked = 0

Request(write, l, bytes) ==
  /\ asked < MaxRequests /\ CanAccept(cache)
  /\ asked' = asked + 1
  /\ cache' = Access(cache,
       [write |-> write, line |-> l, bytes |-> bytes, src |-> 0, tag |-> asked + 1,
        data |-> [o \in IF write THEN bytes ELSE {} |-> asked + 1]])
  /\ UNCHANGED <<below, flight>>

(* frontResponse and popResponse. *)
Take ==
  /\ cache.resp # <<>>
  /\ cache' = [cache EXCEPT !.resp = Tail(@)]
  /\ UNCHANGED <<below, flight, asked>>

Refilled(r) ==
  /\ cache' = DeliverBelowResponse(cache, r.tag, r.data)
  /\ flight' = flight \ {r}
  /\ UNCHANGED <<below, asked>>

(* tick: n hits become ready, delayed installs are retried, and one        *)
(* request goes below if the level below accepts one.                      *)
TickRefused(n) ==
  /\ cache' = Advanced(cache, n)
  /\ UNCHANGED <<below, flight, asked>>

TickWriteback(n) ==
  LET c == Advanced(cache, n)
      wb == Outgoing(c) IN
  /\ SendsWriteback(c)
  /\ cache' = AfterSending(c)
  /\ below' = [below EXCEPT ![wb.line] = wb.data]
  /\ UNCHANGED <<flight, asked>>

TickRefill(n) ==
  LET c == Advanced(cache, n)
      rd == Outgoing(c) IN
  /\ SendsRefill(c)
  /\ cache' = AfterSending(c)
  /\ flight' = flight \cup {[tag |-> rd.tag, data |-> below[rd.line]]}
  /\ UNCHANGED <<below, asked>>

Tick(n) == TickRefused(n) \/ TickWriteback(n) \/ TickRefill(n)

CNext ==
  \/ \E write \in BOOLEAN, l \in LineSet, bytes \in Shapes : Request(write, l, bytes)
  \/ Take
  \/ \E r \in flight : Refilled(r)
  \/ \E n \in 0 .. Len(cache.hits) : Tick(n)

CSpec == CInit /\ [][CNext]_cvars
-----------------------------------------------------------------------------
(* Properties *)

Datum == 0 .. MaxRequests
LineData == [Offsets -> Datum]

CacheTypeOK ==
  /\ \A s \in 0 .. Sets - 1 :
       /\ Len(cache.arrays[s]) <= Ways
       /\ \A e \in Range(cache.arrays[s]) :
            e.data \in LineData /\ e.dirty \in BOOLEAN /\ SetOf(e.line) = s
  /\ \A i \in MshrIds : cache.mshrs[i].valid <=> cache.mshrs[i].waiting # <<>>
  /\ Len(cache.wbq) <= WbCap
  /\ below \in [LineSet -> LineData]
  /\ \A r \in flight : r.data \in LineData
  /\ asked \in 0 .. MaxRequests

(* A line never has two homes among the arrays, the writeback queue and    *)
(* the outstanding misses, so a write can never go to one copy while a     *)
(* read uses another, and peek8 may search them in any order               *)
(* (cache.cpp:293).                                                        *)
OneHome ==
  /\ CacheTypeOK
  /\ \A l \in LineSet : Homes(cache, l) <= 1

(* What may be dropped without a writeback is the same below: clean lines, *)
(* and refills however long they have been on their way.                   *)
CleanMeansCurrent ==
  /\ \A s \in 0 .. Sets - 1 : \A e \in Range(cache.arrays[s]) :
       e.dirty \/ e.data = below[e.line]
  /\ \A r \in flight : r.data = below[cache.mshrs[r.tag].line]
  /\ \A w \in Range(cache.installs) : w.data = below[cache.mshrs[w.mshr].line]

(* Where a line is, and which copies of it count (cache.cpp:141).          *)
CopiesSound == OneHome /\ CleanMeansCurrent

(* The answer a waiting request will get: the requests before it on the    *)
(* same list are performed first, on the line as the level below has it.   *)
WaitingAnswers ==
  UNION {{Answer(m.waiting[j], Overlaid(SubSeq(m.waiting, 1, j - 1), below[m.line])) :
            j \in DOMAIN m.waiting} : m \in Range(cache.mshrs)}

Owed ==
  {[tag |-> a.tag, data |-> a.data] :
     a \in Range(cache.hits) \cup Range(cache.resp) \cup WaitingAnswers}

Newest == [l \in LineSet |-> Peek(cache, l, below[l])]

Arrival == INSTANCE ArrivalMemory WITH
  Initial <- [l \in LineSet |-> [o \in Offsets |-> 0]],
  arrived <- asked, amem <- Newest, owed <- Owed

(* The cache is one memory on which each request takes effect when it      *)
(* arrives: whatever is evicted, restored, merged, refilled or delayed,    *)
(* reads get the value of their moment of arrival, every request gets one  *)
(* answer, and peek8 always names the newest byte.                         *)
RefinesArrival == Arrival!ASpec
=============================================================================
