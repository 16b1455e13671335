-------------------------------- MODULE Cache --------------------------------
(***************************************************************************)
(* One cache of memory/cache.cpp as operators on its state: L1I, L1D and   *)
(* L2 are three instances.                                                 *)
(*                                                                         *)
(* Kept: hits, restores from the writeback queue, whole-line writes,       *)
(* misses and merges; victims and least-recently-used order; delayed       *)
(* installs; the choice between a refill and a writeback at a tick.        *)
(*                                                                         *)
(* Abstracted: a set is the sequence of its lines, least recently used     *)
(* first, since no request can tell which way holds a line.  An address is *)
(* a line number and a set of offsets in it; a request that covers every   *)
(* offset is a whole-line one.  The number of hits whose latency has       *)
(* elapsed at a tick is free, in order.  Statistics are left out.          *)
(***************************************************************************)
EXTENDS Integers, Sequences, FiniteSets, SequencesExt

CONSTANTS Lines,          \* lines are 0 .. Lines - 1
          Offsets,        \* positions of the data in a line
          Sets, Ways,     \* geometry
          Mshrs, WbCap,   \* CacheConfig::mshrs, CacheConfig::wbq
          Combinational,  \* hitLatency = 1: a hit is answered at once
          SrcId           \* what the cache calls itself in requests below

ASSUME CacheAssumption ==
  /\ Lines \in Nat \ {0} /\ Sets \in Nat \ {0} /\ Ways \in Nat \ {0}
  /\ Mshrs \in Nat \ {0} /\ WbCap \in Nat \ {0}
  /\ Combinational \in BOOLEAN

LineSet == 0 .. Lines - 1
SetOf(l) == l % Sets
MshrIds == 0 .. Mshrs - 1
WbTag == -1               \* kWbTag: acknowledgements nobody waits for

(* A request is [write, line, data, bytes, src, tag]: data holds the bytes *)
(* a write puts at its offsets, and is empty for a read.                   *)
WholeLine(req) == req.bytes = Offsets

Written(req, line) ==
  [o \in Offsets |-> IF req.write /\ o \in req.bytes THEN req.data[o] ELSE line[o]]

Answer(req, line) ==
  [src |-> req.src, tag |-> req.tag,
   data |-> [o \in IF req.write THEN {} ELSE req.bytes |-> line[o]]]

FreeMshr == [valid |-> FALSE, line |-> 0, sent |-> FALSE, waiting |-> <<>>]

EmptyCache ==
  [arrays   |-> [s \in 0 .. Sets - 1 |-> <<>>],
   mshrs    |-> [i \in MshrIds |-> FreeMshr],
   wbq      |-> <<>>,   \* dirty victims, oldest first
   installs |-> <<>>,   \* refills that found no room for their victim
   hits     |-> <<>>,   \* answers waiting out the hit latency
   resp     |-> <<>>]   \* answers the requester may take

Occupied(c)  == {i \in MshrIds : c.mshrs[i].valid}
MshrFor(c, l) == {i \in Occupied(c) : c.mshrs[i].line = l}
InArrays(c, l) == {k \in DOMAIN c.arrays[SetOf(l)] : c.arrays[SetOf(l)][k].line = l}
InWbq(c, l)  == {i \in DOMAIN c.wbq : c.wbq[i].line = l}

(* How many places hold the line or await it.                              *)
Homes(c, l) ==
  Cardinality(InArrays(c, l)) + Cardinality(InWbq(c, l)) + Cardinality(MshrFor(c, l))

First(S) == CHOOSE x \in S : \A y \in S : x <= y
Final(S) == CHOOSE x \in S : \A y \in S : x >= y

(* canAccept: room is demanded even for what turns out to be a hit.        *)
CanAccept(c) == Cardinality(Occupied(c)) < Mshrs /\ Len(c.wbq) < WbCap
-----------------------------------------------------------------------------
(* Performing a request on a line that is present *)

(* performOnLine at position k of set s; the line becomes the most recent. *)
Perform(c, s, k, req) ==
  LET e == c.arrays[s][k]
  IN  [answer |-> Answer(req, e.data),
       cache  |-> [c EXCEPT !.arrays[s] = Append(RemoveAt(@, k),
                     [e EXCEPT !.data = Written(req, @), !.dirty = @ \/ req.write])]]

ReserveHit(c, answer) ==
  IF Combinational THEN [c EXCEPT !.resp = Append(@, answer)]
                   ELSE [c EXCEPT !.hits = Append(@, answer)]

(* installLine: a free way first, else the least recently used; a dirty    *)
(* victim needs room in the writeback queue, else nothing changes.  Every  *)
(* caller touches the line it installed, hence the end of the sequence.    *)
InstallLine(c, l, data, dirty) ==
  LET s     == SetOf(l)
      full  == Len(c.arrays[s]) = Ways
      evict == full /\ Head(c.arrays[s]).dirty
      victim == Head(c.arrays[s])
      kept  == IF full THEN Tail(c.arrays[s]) ELSE c.arrays[s]
  IN  IF evict /\ Len(c.wbq) >= WbCap
      THEN [ok |-> FALSE, way |-> 1, cache |-> c]
      ELSE [ok |-> TRUE, way |-> Len(kept) + 1,
            cache |-> [c EXCEPT
              !.wbq = IF evict THEN Append(@, [line |-> victim.line, data |-> victim.data])
                      ELSE @,
              !.arrays[s] = Append(kept, [line |-> l, data |-> data, dirty |-> dirty])]]
-----------------------------------------------------------------------------
(* access *)

ServeHit(c, s, k, req) ==
  LET p == Perform(c, s, k, req) IN ReserveHit(p.cache, p.answer)

(* The restored line stays in the writeback queue as well.                 *)
BugRestoreKeeps(c, i, req) ==
  LET p == InstallLine(c, req.line, c.wbq[i].data, TRUE)
  IN  ServeHit(p.cache, SetOf(req.line), p.way, req)

(* The line is still in the writeback queue: the level below is stale.     *)
Restore(c, i, req) ==
  LET p == InstallLine(c, req.line, c.wbq[i].data, TRUE)
  IN  ServeHit([p.cache EXCEPT !.wbq = RemoveAt(@, i)], SetOf(req.line), p.way, req)

InstallWhole(c, req) ==
  ReserveHit(InstallLine(c, req.line, req.data, TRUE).cache, Answer(req, req.data))

Merge(c, i, req) == [c EXCEPT !.mshrs[i].waiting = Append(@, req)]

StartMiss(c, req) ==
  [c EXCEPT !.mshrs[First(MshrIds \ Occupied(c))] =
     [valid |-> TRUE, line |-> req.line, sent |-> FALSE, waiting |-> <<req>>]]

(* A whole-line write ignores a refill of its line in flight.              *)
BugMiss(c, req) ==
  IF req.write /\ WholeLine(req) THEN InstallWhole(c, req)
  ELSE IF MshrFor(c, req.line) # {} THEN Merge(c, First(MshrFor(c, req.line)), req)
  ELSE StartMiss(c, req)

(* A whole-line write needs no refill, but joins one in flight: a direct   *)
(* install would later be overwritten by it.                               *)
Miss(c, req) ==
  IF MshrFor(c, req.line) # {} THEN Merge(c, First(MshrFor(c, req.line)), req)
  ELSE IF req.write /\ WholeLine(req) THEN InstallWhole(c, req)
  ELSE StartMiss(c, req)

Access(c, req) ==
  IF InArrays(c, req.line) # {}
  THEN ServeHit(c, SetOf(req.line), First(InArrays(c, req.line)), req)
  ELSE IF InWbq(c, req.line) # {} THEN Restore(c, First(InWbq(c, req.line)), req)
  ELSE Miss(c, req)
-----------------------------------------------------------------------------
(* Refills, and the tick *)

Replay(c, s, way, req) ==
  LET p == Perform(c, s, way, req) IN [p.cache EXCEPT !.resp = Append(@, p.answer)]

(* The newest waiting request is performed first.                          *)
BugReplayed(c, s, way, waiting) ==
  LET after[j \in 0 .. Len(waiting)] ==
        IF j = 0 THEN c ELSE Replay(after[j - 1], s, way, waiting[Len(waiting) - j + 1])
  IN  after[Len(waiting)]

(* The waiting requests are performed in arrival order.                    *)
Replayed(c, s, way, waiting) ==
  LET after[j \in 0 .. Len(waiting)] ==
        IF j = 0 THEN c ELSE Replay(after[j - 1], s, way, waiting[j])
  IN  after[Len(waiting)]

TryInstall(c, i, data) ==
  LET m == c.mshrs[i]
      p == InstallLine(c, m.line, data, FALSE)
      r == Replayed(p.cache, SetOf(m.line), p.way, m.waiting)
  IN  [ok |-> p.ok, cache |-> IF p.ok THEN [r EXCEPT !.mshrs[i] = FreeMshr] ELSE c]

(* A refill that finds no room is forgotten.                               *)
BugDeliverBelowResponse(c, tag, data) ==
  IF tag = WbTag THEN c ELSE TryInstall(c, tag, data).cache

DeliverBelowResponse(c, tag, data) ==
  IF tag = WbTag THEN c
  ELSE LET t == TryInstall(c, tag, data)
       IN  IF t.ok THEN t.cache
           ELSE [c EXCEPT !.installs = Append(@, [mshr |-> tag, data |-> data])]

Ripen(c, n) ==
  [c EXCEPT !.resp = @ \o SubSeq(c.hits, 1, n),
            !.hits = SubSeq(@, n + 1, Len(@))]

(* A delayed install is never retried.                                     *)
BugRetryInstalls(c) == c

Retry(a, w) ==
  LET t == TryInstall(a.cache, w.mshr, w.data)
  IN  IF a.stuck \/ ~t.ok THEN [a EXCEPT !.stuck = TRUE]
      ELSE [a EXCEPT !.cache = [t.cache EXCEPT !.installs = Tail(@)]]

(* Delayed installs are retried in order until one finds no room.          *)
RetryInstalls(c) ==
  LET after[j \in 0 .. Len(c.installs)] ==
        IF j = 0 THEN [stuck |-> FALSE, cache |-> c] ELSE Retry(after[j - 1], c.installs[j])
  IN  after[Len(c.installs)].cache

Unsent(c) == {i \in Occupied(c) : ~c.mshrs[i].sent}

(* tick, up to the transaction with the level below.                       *)
Advanced(c, n) == RetryInstalls(Ripen(c, n))

(* The one transaction of a tick: a refill, unless the writeback queue is  *)
(* full, which gates installs.                                             *)
SendsWriteback(c) == c.wbq # <<>> /\ (Len(c.wbq) >= WbCap \/ Unsent(c) = {})
SendsRefill(c)    == ~SendsWriteback(c) /\ Unsent(c) # {}
Sends(c)          == SendsWriteback(c) \/ SendsRefill(c)

Outgoing(c) ==
  IF SendsWriteback(c)
  THEN [write |-> TRUE, line |-> Head(c.wbq).line, bytes |-> Offsets,
        data |-> Head(c.wbq).data, src |-> SrcId, tag |-> WbTag]
  ELSE LET i == First(Unsent(c))
       IN  [write |-> FALSE, line |-> c.mshrs[i].line, bytes |-> Offsets,
            data |-> <<>>, src |-> SrcId, tag |-> i]

AfterSending(c) ==
  IF SendsWriteback(c) THEN [c EXCEPT !.wbq = Tail(@)]
                       ELSE [c EXCEPT !.mshrs[First(Unsent(c))].sent = TRUE]
-----------------------------------------------------------------------------
(* peek8 for every offset of a line: the newest copy this cache owns, else *)
(* what the level below says.                                              *)
WritesTo(o, waiting) ==
  {j \in DOMAIN waiting : waiting[j].write /\ o \in waiting[j].bytes}

(* Scanning from the newest, a waiting write covering the byte names it.   *)
Overlaid(waiting, line) ==
  [o \in Offsets |-> LET W == WritesTo(o, waiting)
                     IN  IF W = {} THEN line[o] ELSE waiting[Final(W)].data[o]]

Peek(c, l, below) ==
  LET A == InArrays(c, l)
      B == InWbq(c, l)
      M == MshrFor(c, l)
  IN  IF A # {} THEN c.arrays[SetOf(l)][First(A)].data
      ELSE IF B # {} THEN c.wbq[First(B)].data
      ELSE IF M # {} THEN Overlaid(c.mshrs[First(M)].waiting, below)
      ELSE below
=============================================================================
