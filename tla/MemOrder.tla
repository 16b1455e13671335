------------------------------ MODULE MemOrder ------------------------------
(***************************************************************************)
(* The memory engine of the core: the load/store queue and store buffer of *)
(* core/lsq.h and the functions of core/ooo.cpp that drive them (aguDrain, *)
(* violationScan, drainDataResponses, lsqOperate, and the memory part of   *)
(* dispatchStage, commitStage and recover), in its three ordering modes.   *)
(*                                                                         *)
(* Kept: every state a load or store goes through, which older store may   *)
(* supply, block or be overtaken by a load, replay, generations and stale  *)
(* responses, out-of-order acknowledgement of stores.                      *)
(*                                                                         *)
(* Abstracted: the cycle.  Each step of a stage is an action that may      *)
(* happen whenever the code's condition for it holds, which covers every   *)
(* number of ports and units and every latency.  Operands come from        *)
(* outside: an address or a datum may become available at any time, and    *)
(* any suffix of the queue may turn out to be on a wrong path.  The data   *)
(* of a store is its identity.  The dependence table only chooses which    *)
(* loads are cautious, so that choice is free.  Age order stands for       *)
(* sequence numbers.                                                       *)
(*                                                                         *)
(* The data port (the L1D) is external here: it performs a request at any  *)
(* time after accepting it, keeping order only between requests that share *)
(* a byte, and answers in any order.                                       *)
(***************************************************************************)
EXTENDS Integers, Sequences, SequencesExt, Ring

CONSTANTS LsqSize, SbSize,  \* SimConfig::lsqSize, sbSize
          Modes,            \* the values of SimConfig::memOrder to consider
          GenMod,           \* generations are counted modulo this (2^16)
          MemBytes,         \* size of the backing memory
          Accesses,         \* the <<address, size>> pairs programs use
          PortCap,          \* bound on requests inside the port
          MaxOps            \* bound on dispatched memory operations

ASSUME MemOrderAssumption ==
  /\ LsqSize \in Nat \ {0} /\ SbSize \in Nat \ {0} /\ GenMod \in Nat \ {0}
  /\ Modes \subseteq {"Conservative", "Bypass", "Speculative"}
  /\ MemBytes \in Nat \ {0} /\ PortCap \in Nat \ {0} /\ MaxOps \in Nat
  /\ Accesses \subseteq Nat \X {1, 2, 4}

VARIABLES mode,                    \* SimConfig::memOrder, fixed at the start
          lsq, lsqHead, lsqCount,  \* the load/store queue (a ring)
          genCtr,                  \* LSQ::genCtr, per slot
          sb, sbHead, sbCount,     \* the store buffer (a ring)
          sbIssued,                \* StoreBuffer::issued: a prefix is at the port
          sbTxnCtr,                \* tags store requests
          port,                    \* requests at the data port, oldest first
          mem,                     \* what the data port has performed
          arch,                    \* what program order says memory holds
          obs,                     \* the last committed operation
          ops                      \* operations dispatched so far

lsqVars == <<lsq, lsqHead, lsqCount, genCtr>>
sbVars  == <<sb, sbHead, sbCount, sbIssued, sbTxnCtr>>
archVars == <<arch, obs>>
memVars == <<mode, lsqVars, sbVars, port, mem, archVars, ops>>

LsqSlots == 0 .. LsqSize - 1
SbSlots  == 0 .. SbSize - 1
Bytes    == 0 .. MemBytes - 1
NoAccess == <<0, 0>>

BytesOf(acc) == acc[1] .. acc[1] + acc[2] - 1

(* Do two accesses touch any byte in common?                               *)
Overlaps(a, b) == a[1] + a[2] > b[1] /\ b[1] + b[2] > a[1]

(* aguDrain: misaligned, or outside memory.                                *)
Faulty(acc) == acc[1] % acc[2] # 0 \/ acc[1] + acc[2] > MemBytes

NoLsqEntry == [isStore |-> FALSE, id |-> 0, gen |-> 0, acc |-> NoAccess,
               dataReady |-> TRUE, issued |-> FALSE, done |-> FALSE,
               reported |-> FALSE, val |-> <<>>]
NoSbEntry == [acc |-> NoAccess, id |-> 0, inflight |-> FALSE, acked |-> FALSE,
              txn |-> 0]

Slot(k)   == IndexOf(LsqSize, lsqHead, k)
Nth(k)    == lsq[Slot(k)]
Ages      == 0 .. lsqCount - 1
SbSlot(k) == IndexOf(SbSize, sbHead, k)
SbNth(k)  == sb[SbSlot(k)]
SbAges    == 0 .. sbCount - 1

AddrValid(k) == Nth(k).acc # NoAccess
Fault(k)     == AddrValid(k) /\ Faulty(Nth(k).acc)

(* LSQ work sets: each is a bitmap in the code, visited oldest first.      *)
KnownStores   == {k \in Ages : Nth(k).isStore /\ AddrValid(k)}
UnknownStores == {k \in Ages : Nth(k).isStore /\ ~AddrValid(k)}
Candidates    == {k \in Ages : /\ ~Nth(k).isStore /\ AddrValid(k)
                               /\ ~Nth(k).issued /\ ~Nth(k).done}
Pending       == {k \in Ages : Nth(k).issued /\ ~Nth(k).done}
AccessedLoads == {k \in Ages : Nth(k).issued \/ Nth(k).done}

MemInit ==
  /\ mode \in Modes
  /\ lsq = [s \in LsqSlots |-> NoLsqEntry] /\ lsqHead = 0 /\ lsqCount = 0
  /\ genCtr = [s \in LsqSlots |-> 0]
  /\ sb = [s \in SbSlots |-> NoSbEntry] /\ sbHead = 0 /\ sbCount = 0
  /\ sbIssued = 0 /\ sbTxnCtr = 0
  /\ port = <<>>
  /\ mem = [b \in Bytes |-> 0]
  /\ arch = [b \in Bytes |-> 0] /\ obs = [op |-> "none"]
  /\ ops = 0
-----------------------------------------------------------------------------
(* Dispatch, address generation and replay *)

(* LSQ::alloc and setStoreSource.  ready: had the datum of a store already *)
(* been written back?                                                      *)
Dispatch(isStore, ready) ==
  /\ ops < MaxOps
  /\ lsqCount < LsqSize
  /\ isStore \/ ready
  /\ LET s == Slot(lsqCount)
         g == (genCtr[s] + 1) % GenMod
     IN  /\ genCtr' = [genCtr EXCEPT ![s] = g]
         /\ lsq' = [lsq EXCEPT ![s] = [NoLsqEntry EXCEPT
                      !.isStore = isStore, !.id = ops + 1, !.gen = g,
                      !.dataReady = ready]]
  /\ lsqCount' = lsqCount + 1
  /\ ops' = ops + 1
  /\ UNCHANGED <<lsqHead, sbVars, port, mem, archVars, mode>>

(* A scan that looks only at loads whose value has arrived.                *)
BugViolated(k, acc) ==
  {j \in Ages : Nth(j).done /\ j > k /\ Overlaps(acc, Nth(j).acc)}

(* violationScan: the oldest younger load that already read memory the     *)
(* store overlaps.  It replays even if it happened to read the right data. *)
Violated(k, acc) ==
  {j \in AccessedLoads : j > k /\ Overlaps(acc, Nth(j).acc)}

(* aguDrain: an address operand arrives.  In Speculative mode a store then *)
(* scans for ordering violations, and recover() squashes from the victim.  *)
ResolveAddress(k, acc) ==
  /\ ~AddrValid(k)
  /\ lsq' = [lsq EXCEPT ![Slot(k)].acc = acc]
  /\ LET victims == IF Nth(k).isStore /\ mode = "Speculative" /\ ~Faulty(acc)
                    THEN Violated(k, acc) ELSE {}
     IN  lsqCount' = IF victims = {} THEN lsqCount
                     ELSE CHOOSE v \in victims : \A w \in victims : v <= w
  /\ UNCHANGED <<lsqHead, genCtr, sbVars, port, mem, archVars, ops, mode>>

(* recover() after a mispredicted branch: the entries from age k on are    *)
(* younger than the branch.  Their requests stay in the port.              *)
Squash(k) ==
  /\ lsqCount' = k
  /\ UNCHANGED <<lsq, lsqHead, genCtr, sbVars, port, mem, archVars, ops, mode>>
-----------------------------------------------------------------------------
(* lsqOperate: updates *)

(* The producer of a store's datum has written back.                       *)
CaptureData(k) ==
  /\ Nth(k).isStore /\ ~Nth(k).dataReady
  /\ lsq' = [lsq EXCEPT ![Slot(k)].dataReady = TRUE]
  /\ UNCHANGED <<lsqHead, lsqCount, genCtr, sbVars, port, mem, archVars, ops, mode>>

(* A completed load is handed to writeback.                                *)
ReportLoad(k) ==
  /\ Nth(k).done /\ ~Nth(k).reported
  /\ lsq' = [lsq EXCEPT ![Slot(k)].reported = TRUE]
  /\ UNCHANGED <<lsqHead, lsqCount, genCtr, sbVars, port, mem, archVars, ops, mode>>
-----------------------------------------------------------------------------
(* lsqOperate: one use of the data port *)

(* The nearest older store that shares a byte with load k: an LSQ entry,   *)
(* else a store buffer entry (all committed, hence older).                 *)
OlderStores(k) == {j \in KnownStores : j < k /\ Overlaps(Nth(j).acc, Nth(k).acc)}
Buffered(k)    == {j \in SbAges : Overlaps(SbNth(j).acc, Nth(k).acc)}
BugNewest(S) == CHOOSE m \in S : \A x \in S : m <= x
Newest(S) == CHOOSE m \in S : \A x \in S : x <= m

Supplier(k) ==
  IF OlderStores(k) # {}
  THEN LET st == Nth(Newest(OlderStores(k)))
       IN  [acc |-> st.acc, id |-> st.id, ready |-> st.dataReady]
  ELSE LET st == SbNth(Newest(Buffered(k)))
       IN  [acc |-> st.acc, id |-> st.id, ready |-> TRUE]
HasSupplier(k) == OlderStores(k) # {} \/ Buffered(k) # {}

BehindUnknown(k) == \E j \in UnknownStores : j < k

(* A wall only for the loads the dependence table flags, in every mode.    *)
BugWalled(k, flagged) == k \in flagged /\ BehindUnknown(k)

(* An older store with an unknown address is a wall for a cautious load.   *)
(* flagged: what the dependence table says, which only matters there.      *)
Walled(k, flagged) ==
  BehindUnknown(k) /\ (mode # "Speculative" \/ k \in flagged)

(* What the walk over the candidates does with load k.                     *)
Searches(k, flagged) == ~Fault(k) /\ ~Walled(k, flagged)
Forwards(k, flagged) ==
  /\ Searches(k, flagged) /\ HasSupplier(k)
  /\ Supplier(k).ready /\ Supplier(k).acc = Nth(k).acc
Goes(k, flagged) == Searches(k, flagged) /\ ~HasSupplier(k)

(* The walk stops at the load that gets the port; Conservative mode also   *)
(* stops at a load that forwarded or is blocked.                           *)
Stops(k, flagged) ==
  \/ Goes(k, flagged)
  \/ mode = "Conservative" /\ Searches(k, flagged)

Visited(flagged) ==
  {k \in Candidates :
     /\ mode = "Conservative" => \A j \in Pending : ~(k > j)
     /\ \A j \in Candidates : j < k => ~Stops(j, flagged)}

Ids(acc, id) == [b \in BytesOf(acc) |-> id]

(* LSQ::completeLoad for every visited load that needs no port: a fault    *)
(* produces a zero, a forward produces the store's datum.                  *)
Completed(flagged) ==
  [s \in LsqSlots |->
     IF \E k \in Visited(flagged) : s = Slot(k) /\ Fault(k)
     THEN [lsq[s] EXCEPT !.done = TRUE]
     ELSE IF \E k \in Visited(flagged) : s = Slot(k) /\ Forwards(k, flagged)
     THEN LET k == CHOOSE k \in Visited(flagged) : s = Slot(k)
          IN  [lsq[s] EXCEPT !.done = TRUE, !.val = Ids(Supplier(k).acc, Supplier(k).id)]
     ELSE lsq[s]]

PortCandidates(flagged) == {k \in Visited(flagged) : Goes(k, flagged)}
StoreWaiting == sbIssued < sbCount
StoreGoesFirst(flagged) ==
  StoreWaiting /\ (sbCount = SbSize \/ PortCandidates(flagged) = {})

CanAccept == Len(port) < PortCap

NoSend(flagged) ==
  /\ lsq' = Completed(flagged)
  /\ UNCHANGED <<sbVars, port>>

SendStore(flagged) ==
  /\ StoreGoesFirst(flagged) /\ CanAccept
  /\ lsq' = Completed(flagged)
  /\ LET s == SbSlot(sbIssued) IN
       /\ port' = Append(port,
            [isStore |-> TRUE, slot |-> s, tag |-> sbTxnCtr, acc |-> sb[s].acc,
             id |-> sb[s].id, performed |-> FALSE, val |-> <<>>])
       /\ sb' = [sb EXCEPT ![s].txn = sbTxnCtr, ![s].inflight = TRUE]
  /\ sbTxnCtr' = sbTxnCtr + 1
  /\ sbIssued' = sbIssued + 1
  /\ UNCHANGED <<sbHead, sbCount>>

SendLoad(flagged) ==
  /\ ~StoreGoesFirst(flagged) /\ CanAccept
  /\ \E k \in PortCandidates(flagged) :
       /\ port' = Append(port,
            [isStore |-> FALSE, slot |-> Slot(k), tag |-> Nth(k).gen,
             acc |-> Nth(k).acc, id |-> Nth(k).id, performed |-> FALSE, val |-> <<>>])
       /\ lsq' = [Completed(flagged) EXCEPT ![Slot(k)].issued = TRUE]
  /\ UNCHANGED sbVars

(* The port may refuse for reasons of its own, so NoSend is always there.  *)
MemAccess ==
  \E flagged \in SUBSET {k \in Candidates : BehindUnknown(k)} :
    /\ NoSend(flagged) \/ SendStore(flagged) \/ SendLoad(flagged)
    /\ UNCHANGED <<lsqHead, lsqCount, genCtr, mem, archVars, ops, mode>>
-----------------------------------------------------------------------------
(* The data port, and drainDataResponses *)

(* External: the port performs a request.                                  *)
PortPerform(i) ==
  LET r == port[i] IN
    /\ ~r.performed
    /\ \A j \in 1 .. i - 1 : Overlaps(port[j].acc, r.acc) => port[j].performed
    /\ IF r.isStore
       THEN /\ mem' = [b \in Bytes |-> IF b \in BytesOf(r.acc) THEN r.id ELSE mem[b]]
            /\ port' = [port EXCEPT ![i].performed = TRUE]
       ELSE /\ port' = [port EXCEPT ![i].performed = TRUE,
                                    ![i].val = [b \in BytesOf(r.acc) |-> mem[b]]]
            /\ UNCHANGED mem
    /\ UNCHANGED <<lsqVars, sbVars, archVars, ops, mode>>

(* An acknowledgement heard only by the head, and a response matched by    *)
(* slot alone.                                                             *)
BugAckMatches(r) ==
  /\ sbCount > 0 /\ r.slot = sbHead
  /\ sb[r.slot].inflight /\ ~sb[r.slot].acked /\ sb[r.slot].txn = r.tag
BugLoadMatches(r) ==
  /\ Live(LsqSize, lsqHead, lsqCount, r.slot)
  /\ ~lsq[r.slot].isStore /\ lsq[r.slot].issued /\ ~lsq[r.slot].done

(* Does the tag of a response still name a live, waiting entry?            *)
AckMatches(r) ==
  /\ Live(SbSize, sbHead, sbCount, r.slot)
  /\ sb[r.slot].inflight /\ ~sb[r.slot].acked /\ sb[r.slot].txn = r.tag
LoadMatches(r) ==
  /\ Live(LsqSize, lsqHead, lsqCount, r.slot)
  /\ ~lsq[r.slot].isStore /\ lsq[r.slot].issued /\ ~lsq[r.slot].done
  /\ lsq[r.slot].gen = r.tag

(* drainDataResponses, one response.                                       *)
Respond(i) ==
  LET r == port[i] IN
    /\ r.performed
    /\ port' = RemoveAt(port, i)
    /\ sb' = IF r.isStore /\ AckMatches(r)
             THEN [sb EXCEPT ![r.slot].acked = TRUE] ELSE sb
    /\ lsq' = IF ~r.isStore /\ LoadMatches(r)
              THEN [lsq EXCEPT ![r.slot].done = TRUE, ![r.slot].val = r.val] ELSE lsq
    /\ UNCHANGED <<lsqHead, lsqCount, genCtr, sbHead, sbCount, sbIssued, sbTxnCtr,
                   mem, archVars, ops, mode>>

(* A store that leaves the buffer as soon as the port has accepted it.     *)
BugSbPop ==
  /\ sbCount > 0 /\ SbNth(0).inflight
  /\ sbHead' = IndexOf(SbSize, sbHead, 1)
  /\ sbCount' = sbCount - 1
  /\ sbIssued' = sbIssued - 1
  /\ UNCHANGED <<lsqVars, sb, sbTxnCtr, port, mem, archVars, ops, mode>>

(* Acks arrive out of order; entries pop in order.                         *)
SbPop ==
  /\ sbCount > 0 /\ SbNth(0).acked
  /\ sbHead' = IndexOf(SbSize, sbHead, 1)
  /\ sbCount' = sbCount - 1
  /\ sbIssued' = sbIssued - 1
  /\ UNCHANGED <<lsqVars, sb, sbTxnCtr, port, mem, archVars, ops, mode>>
-----------------------------------------------------------------------------
(* Commit *)

(* LSQ::popHead.                                                           *)
PopLsq ==
  /\ lsqHead' = IndexOf(LsqSize, lsqHead, 1)
  /\ lsqCount' = lsqCount - 1

(* A faulted operation that reaches commit ends the program, so the        *)
(* actions below exclude it.                                               *)
CommitLoad ==
  /\ lsqCount > 0 /\ Nth(0).reported /\ ~Fault(0)
  /\ PopLsq
  /\ obs' = [op |-> "load", acc |-> Nth(0).acc, val |-> Nth(0).val]
  /\ UNCHANGED <<lsq, genCtr, sbVars, port, mem, arch, ops, mode>>

CommitStore ==
  /\ lsqCount > 0 /\ Nth(0).isStore
  /\ AddrValid(0) /\ Nth(0).dataReady /\ ~Fault(0)
  /\ sbCount < SbSize
  /\ PopLsq
  /\ sb' = [sb EXCEPT ![SbSlot(sbCount)] =
              [NoSbEntry EXCEPT !.acc = Nth(0).acc, !.id = Nth(0).id]]
  /\ sbCount' = sbCount + 1
  /\ obs' = [op |-> "store", acc |-> Nth(0).acc, id |-> Nth(0).id]
  /\ arch' = [b \in Bytes |-> IF b \in BytesOf(Nth(0).acc) THEN Nth(0).id ELSE arch[b]]
  /\ UNCHANGED <<lsq, genCtr, sbHead, sbIssued, sbTxnCtr, port, mem, ops, mode>>

MemNext ==
  \/ \E isStore, ready \in BOOLEAN : Dispatch(isStore, ready)
  \/ \E k \in Ages, acc \in Accesses : ResolveAddress(k, acc)
  \/ \E k \in Ages : Squash(k) \/ CaptureData(k) \/ ReportLoad(k)
  \/ MemAccess
  \/ \E i \in 1 .. Len(port) : PortPerform(i) \/ Respond(i)
  \/ SbPop
  \/ CommitLoad
  \/ CommitStore

MemSpec == MemInit /\ [][MemNext]_memVars

(* lsqOperate and aguDrain run every cycle, operands of the oldest         *)
(* operation always arrive, and the port always answers: as long as one of *)
(* these steps can be taken, one is.  Nothing is assumed of dispatch and   *)
(* of squashes, nor of which of the steps goes first.                      *)
Progress ==
  \/ \E k \in Ages, acc \in Accesses : ResolveAddress(k, acc)
  \/ \E k \in Ages : CaptureData(k) \/ ReportLoad(k)
  \/ MemAccess
  \/ \E i \in 1 .. Len(port) : PortPerform(i) \/ Respond(i)
  \/ SbPop \/ CommitLoad \/ CommitStore

MemFairSpec == MemSpec /\ WF_memVars(Progress)
-----------------------------------------------------------------------------
(* Properties *)

OpIds == 0 .. MaxOps

(* Type invariant: the shape of the entries of core/lsq.h and of the       *)
(* requests of memory/request.h.                                           *)
MemTypeOK ==
  /\ \A s \in LsqSlots :
       /\ lsq[s].id \in OpIds /\ lsq[s].gen \in 0 .. GenMod - 1
       /\ lsq[s].acc \in Accesses \cup {NoAccess}
       /\ \A f \in {"isStore", "dataReady", "issued", "done", "reported"} :
            lsq[s][f] \in BOOLEAN
       /\ lsq[s].val # <<>> => lsq[s].val \in [BytesOf(lsq[s].acc) -> OpIds]
  /\ lsqHead \in LsqSlots /\ lsqCount \in 0 .. LsqSize
  /\ genCtr \in [LsqSlots -> 0 .. GenMod - 1]
  /\ \A s \in SbSlots : sb[s].acc \in Accesses \cup {NoAccess} /\ sb[s].id \in OpIds
  /\ sbHead \in SbSlots /\ sbCount \in 0 .. SbSize /\ sbIssued \in 0 .. sbCount
  /\ sbTxnCtr \in Nat /\ ops \in OpIds
  /\ Len(port) <= PortCap
  /\ mem \in [Bytes -> OpIds] /\ arch \in [Bytes -> OpIds]

(* Committed loads and stores behave as one memory touched in program      *)
(* order, however far loads ran ahead, whatever was squashed, and in       *)
(* whatever order the port answered.                                       *)
InProgramOrder == INSTANCE SeqMemory WITH
  smem <- arch, seen <- obs, Stores <- 1 .. MaxOps
RefinesSeqMemory == InProgramOrder!SSpec

(* What program order gives load k: the newest older store to each byte,   *)
(* else committed memory.                                                  *)
ProgramValue(k) ==
  [b \in BytesOf(Nth(k).acc) |->
     LET S == {j \in KnownStores : j < k /\ b \in BytesOf(Nth(j).acc)}
     IN  IF S = {} THEN arch[b]
         ELSE Nth(CHOOSE m \in S : \A x \in S : x <= m).id]

(* violationScan leaves no wrong guess behind: once every older store has  *)
(* its address, a load that completed, from the cache or by forwarding,    *)
(* holds the value of program order, long before it commits.  A faulted    *)
(* store ends the program and needs no scan.                               *)
SpeculationRepaired ==
  \A k \in Ages :
    (/\ ~Nth(k).isStore /\ Nth(k).done /\ ~Fault(k)
     /\ \A j \in 0 .. k - 1 : Nth(j).isStore => AddrValid(j) /\ ~Fault(j))
      => Nth(k).val = ProgramValue(k)

(* The store buffer holds exactly the difference between memory as the     *)
(* port has it and memory as committed: an entry leaves only when the      *)
(* write is done, though acknowledgements come back in any order.          *)
BufferedMemory ==
  /\ MemTypeOK
  /\ \A b \in Bytes :
       LET S == {j \in SbAges : b \in BytesOf(SbNth(j).acc)}
       IN  arch[b] = IF S = {} THEN mem[b]
                     ELSE SbNth(CHOOSE m \in S : \A x \in S : x <= m).id

(* "stale responses to this slot die here" (core/lsq.h): every load in     *)
(* flight, and every unacknowledged store, is answered by its own request  *)
(* and by no other, though squashes reuse slots while requests are out.    *)
Owned(slot, r) == IF r.isStore THEN sb[slot].id ELSE lsq[slot].id
ResponsesFindTheirOwner ==
  /\ \A i \in 1 .. Len(port) :
       LET r == port[i] IN
         (IF r.isStore THEN AckMatches(r) ELSE LoadMatches(r)) => Owned(r.slot, r) = r.id
  /\ \A k \in Pending : \E i \in 1 .. Len(port) :
       ~port[i].isStore /\ port[i].slot = Slot(k) /\ LoadMatches(port[i])
  /\ \A j \in SbAges : (SbNth(j).inflight /\ ~SbNth(j).acked) =>
       \E i \in 1 .. Len(port) :
         port[i].isStore /\ port[i].slot = SbSlot(j) /\ AckMatches(port[i])

(* Conservative and Bypass never guess: no load has read memory or a store *)
(* while an older store's address is unknown, so nothing ever replays.     *)
NeverPassesUnknownStore ==
  mode # "Speculative" =>
    \A k \in AccessedLoads : Fault(k) \/ \A j \in UnknownStores : j > k

(* "A full store buffer ... always drains eventually" (core/lsq.h), and    *)
(* with it the whole engine: loads blocked by partial overlaps, walls,     *)
(* stores waiting for room and the shared port never wait on each other in *)
(* a circle.  Only a fault reaching commit stops it.                       *)
EngineDrains == (lsqCount > 0 \/ sbCount > 0) ~>
  ((lsqCount = 0 \/ Fault(0)) /\ sbCount = 0)

(* "Conservative, which also issues loads one at a time" (core/lsq.h).     *)
OneLoadInFlight == \A j, k \in Pending : j = k
=============================================================================
