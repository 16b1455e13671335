------------------------------ MODULE LsqSets ------------------------------
(***************************************************************************)
(* The bookkeeping of core/lsq.h beside the memory engine: one bitmap over *)
(* slots for each question the core asks every cycle, the counters that    *)
(* say whether there is anything to do, and the number of resolved stores  *)
(* per word bucket that lets a load skip the search for a store.  MemOrder *)
(* asks the entries themselves; here each of its steps also calls the      *)
(* methods that keep the sets current.                                     *)
(***************************************************************************)
EXTENDS MemOrder, FiniteSets

CONSTANTS WordBytes,    \* bytes of a word (4)
          Buckets       \* size of storeWords (64)

(* An aligned access never spans two words.                                *)
ASSUME LsqSetsAssumption ==
  /\ WordBytes \in Nat \ {0} /\ Buckets \in Nat \ {0}
  /\ \A acc \in Accesses : WordBytes % acc[2] = 0

VARIABLE work           \* the sets, counters and storeWords

setsVars == <<memVars, work>>

wordBucket(addr) == (addr \div WordBytes) % Buckets

(* A misaligned store is counted in both words it touches.                 *)
Touched(acc) == {wordBucket(acc[1]), wordBucket(acc[1] + acc[2] - 1)}

NoWork ==
  [candidates |-> {}, pending |-> {}, updates |-> {}, knownStores |-> {},
   unknownStores |-> {}, accessedLoads |-> {},
   storeWords |-> [b \in 0 .. Buckets - 1 |-> 0],
   pendingLoads |-> 0, unreportedLoads |-> 0, waitingStores |-> 0]

SetsInit == MemInit /\ work = NoWork
-----------------------------------------------------------------------------
(* The methods of LSQ, on the sets w and the entry in slot s; where a step *)
(* calls one of them for several entries, on the entries in the slots S.   *)

AfterIssue(w, S) ==
  [w EXCEPT !.candidates = @ \ S, !.pending = @ \cup S,
            !.accessedLoads = @ \cup S, !.pendingLoads = @ + Cardinality(S)]

(* completeLoad: a forward and a fault complete a load that never issued.  *)
AfterComplete(w, S) ==
  [w EXCEPT !.candidates = @ \ S, !.pending = @ \ S,
            !.updates = @ \cup S, !.accessedLoads = @ \cup S,
            !.pendingLoads = @ - Cardinality({s \in S : lsq[s].issued}),
            !.unreportedLoads = @ + Cardinality(S)]

AfterReport(w, s) ==
  [w EXCEPT !.updates = @ \ {s}, !.unreportedLoads = @ - 1]

AfterSource(w, s, ready) ==
  [w EXCEPT !.unknownStores = @ \cup {s},
            !.updates = IF ready THEN @ ELSE @ \cup {s},
            !.waitingStores = IF ready THEN @ ELSE @ + 1]

AfterCapture(w, s) ==
  [w EXCEPT !.updates = @ \ {s}, !.waitingStores = @ - 1]

AfterResolve(w, s, acc) ==
  IF lsq[s].isStore
  THEN [w EXCEPT !.unknownStores = @ \ {s}, !.knownStores = @ \cup {s},
                 !.storeWords = [b \in DOMAIN @ |-> IF b \in Touched(acc) THEN @[b] + 1 ELSE @[b]]]
  ELSE [w EXCEPT !.candidates = @ \cup {s}]

(* Only the first word of a misaligned store is taken off.                 *)
BugUncounted(words, S) ==
  [b \in DOMAIN words |->
     words[b] - Cardinality({s \in S : b = wordBucket(lsq[s].acc[1])})]

Uncounted(words, S) ==
  [b \in DOMAIN words |-> words[b] - Cardinality({s \in S : b \in Touched(lsq[s].acc)})]

(* remove: a retired or squashed entry leaves everything it is in.         *)
AfterRemove(w, S) ==
  [w EXCEPT !.candidates = @ \ S, !.pending = @ \ S, !.updates = @ \ S,
            !.knownStores = @ \ S, !.unknownStores = @ \ S,
            !.accessedLoads = @ \ S,
            !.storeWords = Uncounted(@, {s \in S : lsq[s].isStore /\ lsq[s].acc # NoAccess}),
            !.pendingLoads = @ - Cardinality({s \in S : lsq[s].issued /\ ~lsq[s].done}),
            !.unreportedLoads = @ - Cardinality({s \in S : ~lsq[s].isStore /\ lsq[s].done
                                                            /\ ~lsq[s].reported}),
            !.waitingStores = @ - Cardinality({s \in S : lsq[s].isStore /\ ~lsq[s].dataReady})]

(* recover() pops the youngest entries until n are left.                   *)
AfterSquash(w, n) == AfterRemove(w, {Slot(k) : k \in n .. lsqCount - 1})

(* The walk over the candidates and an answer complete loads, the walk     *)
(* issues one.                                                             *)
AfterAccess ==
  AfterIssue(AfterComplete(work, {s \in LsqSlots : lsq'[s].done # lsq[s].done}),
             {s \in LsqSlots : lsq'[s].issued # lsq[s].issued})
-----------------------------------------------------------------------------
SetsNext ==
  \/ \E isStore, ready \in BOOLEAN :
       /\ Dispatch(isStore, ready)
       /\ work' = IF isStore THEN AfterSource(work, Slot(lsqCount), ready) ELSE work
  \/ \E k \in Ages, acc \in Accesses :
       /\ ResolveAddress(k, acc)
       /\ work' = AfterSquash(AfterResolve(work, Slot(k), acc), lsqCount')
  \/ \E k \in Ages :
       \/ Squash(k) /\ work' = AfterSquash(work, k)
       \/ CaptureData(k) /\ work' = AfterCapture(work, Slot(k))
       \/ ReportLoad(k) /\ work' = AfterReport(work, Slot(k))
  \/ MemAccess /\ work' = AfterAccess
  \/ \E i \in 1 .. Len(port) :
       \/ PortPerform(i) /\ UNCHANGED work
       \/ Respond(i) /\ work' = AfterAccess
  \/ SbPop /\ UNCHANGED work
  \/ (CommitLoad \/ CommitStore) /\ work' = AfterRemove(work, {lsqHead})

SetsSpec == SetsInit /\ [][SetsNext]_setsVars
SetsFairSpec == SetsSpec /\ WF_memVars(Progress)
-----------------------------------------------------------------------------
(* Properties *)

SlotsOf(S) == {Slot(k) : k \in S}
Unreported == {k \in Ages : ~Nth(k).isStore /\ Nth(k).done /\ ~Nth(k).reported}
Waiting    == {k \in Ages : Nth(k).isStore /\ ~Nth(k).dataReady}

(* "kept current as entries change state" (core/lsq.h): after any mix of   *)
(* forwards, faults, answers, replays and commits the sets and counters    *)
(* are those of the live entries, so nothing of a squashed one is left for *)
(* the slot's next occupant; and a load that skips the search because its  *)
(* word counts no store has no older store to find (core/lsq.h:168).        *)
SetsExact ==
  /\ work.candidates = SlotsOf(Candidates)
  /\ work.pending = SlotsOf(Pending)
  /\ work.updates = SlotsOf(Unreported \cup Waiting)
  /\ work.knownStores = SlotsOf(KnownStores)
  /\ work.unknownStores = SlotsOf(UnknownStores)
  /\ work.accessedLoads = SlotsOf(AccessedLoads)
  /\ work.pendingLoads = Cardinality(Pending)
  /\ work.unreportedLoads = Cardinality(Unreported)
  /\ work.waitingStores = Cardinality(Waiting)
  /\ \A b \in 0 .. Buckets - 1 :
       work.storeWords[b] = Cardinality({k \in KnownStores : b \in Touched(Nth(k).acc)})
  /\ \A k \in Candidates :
       ~Fault(k) /\ work.storeWords[wordBucket(Nth(k).acc[1])] = 0 => OlderStores(k) = {}
=============================================================================
