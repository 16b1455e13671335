------------------------------- MODULE Units -------------------------------
(***************************************************************************)
(* The functional units (core/fu.h), the writeback candidates and their    *)
(* arbitration (issueStage, writebackStage, recover and the clock edge of  *)
(* core/ooo.cpp).                                                          *)
(*                                                                         *)
(* Kept: the circular pipeline and its count, the unit that is busy for    *)
(* its whole latency, the output slot that freezes a unit, the vector of   *)
(* pointers to completed slots with its swap-and-pop, oldest first, the    *)
(* squash that may hit an operation anywhere.                              *)
(*                                                                         *)
(* Abstracted: results and operands.  Dispatch is one number; an           *)
(* instruction is issued, or its load completes, when it likes.  Address   *)
(* units, which aguDrain empties without a port, are Backend's.            *)
(***************************************************************************)
EXTENDS Integers, Sequences, SequencesExt, FiniteSets

CONSTANTS Units,         \* alus, brUnit, mulUnit, divUnit
          LoadOuts,      \* load completion slots
          Latency, Pipelined,
          WbPorts,
          MaxOps         \* bound on dispatched instructions

ASSUME UnitsAssumption ==
  /\ IsFiniteSet(Units) /\ IsFiniteSet(LoadOuts) /\ Units \cap LoadOuts = {}
  /\ Latency \in [Units -> Nat \ {0}] /\ Pipelined \in [Units -> BOOLEAN]
  /\ WbPorts \in Nat \ {0} /\ MaxOps \in Nat

VARIABLES stage,     \* the stage of stepCycle that runs next
          unit,      \* unit[u]: FuUnit
          out,       \* out[x]: the operation in an output slot, or 0
          wbReady,   \* pointers to the slots that compete for ports
          won,       \* ports used in this cycle
          fate       \* fate[s]: what became of the s-th instruction

uvars == <<stage, unit, out, wbReady, won, fate>>

Ops == 1 .. MaxOps
Slots == Units \cup LoadOuts

(* 0 is an empty stage: sequence numbers count from 1 here.                *)
Idle(u) == [stages |-> [i \in 0 .. Latency[u] - 1 |-> 0], inputSlot |-> 0,
            inFlight |-> 0, cur |-> 0, remaining |-> 0]

UInit ==
  /\ stage = "writeback"
  /\ unit = [u \in Units |-> Idle(u)]
  /\ out = [x \in Slots |-> 0]
  /\ wbReady = <<>>
  /\ won = 0
  /\ fate = [s \in Ops |-> "undispatched"]
-----------------------------------------------------------------------------
(* FuUnit *)

Busy(u) == IF Pipelined[u] THEN unit[u].inFlight # 0 ELSE unit[u].cur # 0

CanAccept(u) ==
  IF Pipelined[u] THEN unit[u].stages[unit[u].inputSlot] = 0
  ELSE unit[u].cur = 0 /\ out[u] = 0

Accepted(u, s) ==
  IF Pipelined[u]
  THEN [unit[u] EXCEPT !.stages[unit[u].inputSlot] = s, !.inFlight = @ + 1]
  ELSE [unit[u] EXCEPT !.cur = s, !.remaining = Latency[u]]

BugFrozen(u) == FALSE

(* An occupied output slot holds the whole pipe.                           *)
Frozen(u) == Pipelined[u] /\ out[u] # 0

(* tick: the unit after a cycle and what, if anything, it puts out.        *)
Ticked(u) ==
  LET f == unit[u]
      last == IF f.inputSlot = 0 THEN Latency[u] - 1 ELSE f.inputSlot - 1
  IN  CASE ~Busy(u) \/ Frozen(u) -> [unit |-> f, puts |-> 0]
        [] Pipelined[u] /\ Busy(u) /\ ~Frozen(u) ->
             LET op == f.stages[last] IN
             [unit |-> [f EXCEPT !.inputSlot = last, !.stages[last] = 0,
                                 !.inFlight = IF op = 0 THEN @ ELSE @ - 1],
              puts |-> op]
        [] OTHER ->
             IF f.remaining = 1
             THEN [unit |-> [f EXCEPT !.cur = 0, !.remaining = 0], puts |-> f.cur]
             ELSE [unit |-> [f EXCEPT !.remaining = @ - 1], puts |-> 0]

Keep(op, s) == IF op > s THEN 0 ELSE op

BugKilled(u, s) ==
  Cardinality({i \in DOMAIN unit[u].stages : unit[u].stages[i] > s})
  + (IF Pipelined[u] /\ out[u] > s THEN 1 ELSE 0)

(* The output slot is not part of the pipe's count.                        *)
Killed(u, s) == Cardinality({i \in DOMAIN unit[u].stages : unit[u].stages[i] > s})

(* flushYounger                                                            *)
Flushed(u, s) ==
  [unit[u] EXCEPT !.stages = [i \in DOMAIN @ |-> Keep(@[i], s)],
                  !.inFlight = @ - Killed(u, s),
                  !.cur = Keep(@, s),
                  !.remaining = IF unit[u].cur > s THEN 0 ELSE @]
-----------------------------------------------------------------------------
(* The core *)

BugValidOnly(ready, slots) == ready

(* remove_if: what it has kept of the first n pointers.                    *)
Kept(ready, slots) ==
  LET kept[n \in 0 .. Len(ready)] ==
        IF n = 0 THEN <<>>
        ELSE IF slots[ready[n]] # 0 THEN Append(kept[n - 1], ready[n])
        ELSE kept[n - 1]
  IN  kept

(* The pointers whose slot still holds a valid operation.                  *)
ValidOnly(ready, slots) == Kept(ready, slots)[Len(ready)]

(* recover: everything younger than s, wherever it is.                     *)
Recover(s, slots, ready) ==
  /\ unit' = [u \in Units |-> Flushed(u, s)]
  /\ out' = [x \in Slots |-> Keep(slots[x], s)]
  /\ wbReady' = ValidOnly(ready, out')

Squashed(s) ==
  [t \in Ops |-> IF t > s /\ fate[t] \in {"waiting", "executing", "done"}
                 THEN "squashed" ELSE fate[t]]

Winner ==
  CHOOSE i \in DOMAIN wbReady :
    \A j \in DOMAIN wbReady : out[wbReady[i]] <= out[wbReady[j]]

(* *oldest = cands.back(); cands.pop_back()                                *)
SwapAndPop(s, i) == Front([s EXCEPT ![i] = Last(s)])

(* The oldest candidate writes back; a wrong branch flushes the younger    *)
(* ones and ends the stage.                                                *)
Writeback ==
  /\ stage = "writeback" /\ won < WbPorts /\ wbReady # <<>>
  /\ LET x == wbReady[Winner]
         s == out[x]
         rest == SwapAndPop(wbReady, Winner)
     IN  \/ /\ out' = [out EXCEPT ![x] = 0]
            /\ wbReady' = rest
            /\ won' = won + 1
            /\ fate' = [fate EXCEPT ![s] = "done"]
            /\ UNCHANGED <<stage, unit>>
         \/ /\ x \in Units
            /\ Recover(s, [out EXCEPT ![x] = 0], rest)
            /\ fate' = [Squashed(s) EXCEPT ![s] = "done"]
            /\ stage' = "agu" /\ won' = 0

EndWriteback ==
  /\ stage = "writeback" /\ (won = WbPorts \/ wbReady = <<>>)
  /\ stage' = "agu" /\ won' = 0
  /\ UNCHANGED <<unit, out, wbReady, fate>>

(* A load replays: it and everything younger is squashed.                  *)
Replay(s) ==
  /\ stage = "agu"
  /\ fate[s] \in {"executing", "done"}
  /\ Recover(s - 1, out, wbReady)
  /\ fate' = Squashed(s - 1)
  /\ UNCHANGED <<stage, won>>

(* lsqOperate reports a finished load in a free completion slot.           *)
ReportLoad(x, s) ==
  /\ stage = "lsq" /\ out[x] = 0 /\ fate[s] = "waiting"
  /\ out' = [out EXCEPT ![x] = s]
  /\ wbReady' = Append(wbReady, x)
  /\ fate' = [fate EXCEPT ![s] = "executing"]
  /\ UNCHANGED <<stage, unit, won>>

Issue(u, s) ==
  /\ stage = "issue" /\ fate[s] = "waiting" /\ CanAccept(u)
  /\ unit' = [unit EXCEPT ![u] = Accepted(u, s)]
  /\ fate' = [fate EXCEPT ![s] = "executing"]
  /\ UNCHANGED <<stage, out, wbReady, won>>

Dispatch(s) ==
  /\ stage = "dispatch" /\ fate[s] = "undispatched"
  /\ \A t \in 1 .. s - 1 : fate[t] # "undispatched"
  /\ fate' = [fate EXCEPT ![s] = "waiting"]
  /\ UNCHANGED <<stage, unit, out, wbReady, won>>

StageAfter == [agu |-> "lsq", lsq |-> "issue", issue |-> "dispatch",
               dispatch |-> "edge"]

EndStage ==
  /\ stage \in DOMAIN StageAfter
  /\ stage' = StageAfter[stage]
  /\ UNCHANGED <<unit, out, wbReady, won, fate>>

(* The clock edge: every unit ticks, and new outputs become candidates.    *)
Edge ==
  /\ stage = "edge" /\ stage' = "writeback"
  /\ LET new == {u \in Units : Ticked(u).puts # 0} IN
     /\ unit' = [u \in Units |-> Ticked(u).unit]
     /\ out' = [x \in Slots |-> IF x \in new THEN Ticked(x).puts ELSE out[x]]
     /\ wbReady' = wbReady \o SetToSeq(new)
  /\ UNCHANGED <<won, fate>>

Progress == Writeback \/ EndWriteback \/ EndStage \/ Edge

UNext ==
  \/ Progress
  \/ \E s \in Ops :
       \/ Replay(s) \/ Dispatch(s)
       \/ \E x \in LoadOuts : ReportLoad(x, s)
       \/ \E u \in Units : Issue(u, s)

USpec == UInit /\ [][UNext]_uvars

(* stepCycle runs until the program ends.                                  *)
UFairSpec == USpec /\ WF_uvars(Progress)
-----------------------------------------------------------------------------
(* Properties *)

UnitsTypeOK ==
  /\ stage \in DOMAIN StageAfter \cup {"writeback", "edge"}
  /\ \A u \in Units :
       /\ unit[u].stages \in [0 .. Latency[u] - 1 -> {0} \cup Ops]
       /\ unit[u].inputSlot \in 0 .. Latency[u] - 1
       /\ unit[u].inFlight \in 0 .. Latency[u]
       /\ unit[u].cur \in {0} \cup Ops /\ unit[u].remaining \in 0 .. Latency[u]
  /\ out \in [Slots -> {0} \cup Ops]
  /\ won \in 0 .. WbPorts

(* Where an instruction is: a pipeline stage, a busy unit, an output slot. *)
Places(s) ==
  Cardinality({u \in Units : unit[u].cur = s}) + Cardinality({x \in Slots : out[x] = s})
  + Cardinality({p \in UNION {{u} \X DOMAIN unit[u].stages : u \in Units} :
                   unit[p[1]].stages[p[2]] = s})

(* An instruction that executes is in exactly one place; one that wrote    *)
(* back or was squashed, even together with others in one pipe, is in none *)
(* and can never write a register that has a new owner (fu.h:112).         *)
NoneLostOrDoubled ==
  /\ UnitsTypeOK
  /\ \A s \in Ops : Places(s) = IF fate[s] = "executing" THEN 1 ELSE 0

(* The candidates are the full output slots, each once: no port is spent   *)
(* on an empty or refilled slot, no result is overlooked (ooo.cpp:305).    *)
WbReadyExact ==
  /\ {wbReady[i] : i \in DOMAIN wbReady} = {x \in Slots : out[x] # 0}
  /\ Len(wbReady) = Cardinality({x \in Slots : out[x] # 0})

(* The circular buffer and the busy counter are delay lines: an operation  *)
(* needs exactly its latency however the pipe froze or was punched.        *)
Remaining(u, i) ==
  LET d == unit[u].inputSlot - i IN IF d > 0 THEN d ELSE d + Latency[u]

Line(u) ==
  {[seq |-> unit[u].stages[i], left |-> Remaining(u, i)] :
     i \in {j \in DOMAIN unit[u].stages : unit[u].stages[j] # 0}}
  \cup {[seq |-> c, left |-> unit[u].remaining] : c \in {unit[u].cur} \ {0}}

Lines == INSTANCE DelayLines
           WITH line <- [u \in Units |-> Line(u)],
                slot <- [u \in Units |-> {out[u]} \ {0}]

RefinesDelayLines == Lines!LSpec

(* No instruction stays in a unit: it writes back or is squashed.          *)
EveryOpLeaves == \A s \in Ops : (fate[s] = "executing") ~> (fate[s] # "executing")
=============================================================================
