------------------------------ MODULE FrontEnd ------------------------------
(***************************************************************************)
(* Fetch, and the speculative state of the predictor: fetchStage,          *)
(* processFetch, the redirect at the end of stepCycle and what recovery    *)
(* does to them (core/ooo.cpp), with history and return-stack depth of     *)
(* core/predictor.cpp.                                                     *)
(*                                                                         *)
(* Kept: the order of the stages within a cycle, the one fetch in flight   *)
(* and its stale flag, the fetch queue, redirects from branches and        *)
(* replays, checkpoints, the ring of history bits and the folds derived    *)
(* from it, return-stack depth.                                            *)
(*                                                                         *)
(* Abstracted: addresses are word numbers.  What the tables predict is     *)
(* free: an instruction may hit or miss in the BTB, a conditional may go   *)
(* either way, a return may go to any return address.  A fold is the sum   *)
(* of its window, updated as fold() does from the bit that enters and the  *)
(* one that leaves; without tables (ghr) there is nothing to keep in step. *)
(* A branch to a misaligned address is left out.  The back end resolves    *)
(* branches and replays loads at will, in the stages where it does.  The   *)
(* instruction port answers after any number of cycles, the cycle of the   *)
(* request included.  The machine starts somewhere in a run: what is       *)
(* trained may be in the BTB.  In flat memory the program may rewrite its  *)
(* own code, which the BTB does not notice.                                *)
(***************************************************************************)
EXTENDS Integers, Sequences, FiniteSets

CONSTANTS Words,                 \* memory is words 0 .. Words - 1
          BlockWords,            \* words of a fetch block
          Kind,                  \* pc -> "plain", "cond", "jump", "call" or "ret"
          Target,                \* pc -> static target
          Patches,               \* rewrites the program makes: pc, kind, target
          Returns,               \* where returns may go
          FetchQSize, RobSize,
          MaxHist,               \* tageMaxHist
          RasRepair,             \* SimConfig::rasRepair
          MaxBlocks              \* bound on fetches

Pcs == 0 .. Words - 1
Kinds == {"plain", "cond", "jump", "call", "ret"}

ASSUME FrontEndAssumption ==
  /\ Words \in Nat \ {0} /\ BlockWords \in Nat \ {0} /\ Words % BlockWords = 0
  /\ FetchQSize \in Nat /\ FetchQSize >= BlockWords /\ RobSize \in Nat \ {0} /\ MaxHist \in Nat \ {0}
  /\ RasRepair \in BOOLEAN /\ MaxBlocks \in Nat
  /\ Kind \in [Pcs -> Kinds] /\ Target \in [Pcs -> Nat]
  /\ Patches \subseteq [pc : Pcs, kind : Kinds, target : Nat]
  /\ Returns \subseteq Nat /\ Returns # {}

VARIABLES stage,     \* which stage of stepCycle runs next
          fe,        \* pc, outstanding, stale, fetchPc, q, pend, target
          pr,        \* the predictor: pos, bits, folds, rasN
          rob,       \* dispatched instructions, oldest first
          ready,     \* imem->hasResponse()
          blocks,    \* fetches so far
          code,      \* pc -> kind and target, as memory has them
          trained,   \* pc -> the instructions a BTB entry may stem from
          arch,      \* committed: next pc, history bits, return-stack depth
          fault      \* failOutOfRange ended the run

text == <<code, trained>>
fvars == <<stage, fe, pr, rob, ready, blocks, text, arch, fault>>

BugHistRing == MaxHist

(* The ring of history bits outlasts whatever is in flight and the longest *)
(* history (the code adds 64 and rounds up to a power of two).             *)
HistRing == MaxHist + 2 * (RobSize + FetchQSize)

BlockOf(pc) == pc - (pc % BlockWords)
Instr(kind, target) == [kind |-> kind, target |-> target]
-----------------------------------------------------------------------------
(* Predictor *)

(* pushHistory: one bit enters the ring and each fold, one leaves the fold *)
PushHistory(p, bit) ==
  LET pos == p.pos + 1
      bits == [p.bits EXCEPT ![pos % HistRing] = bit]
      out == bits[(pos - MaxHist) % HistRing]
  IN  [p EXCEPT !.pos = pos, !.bits = bits,
                !.folds[pos % HistRing] = p.folds[p.pos % HistRing] + bit - out]

(* What one instruction does to the speculative state.                     *)
Apply(p, eff) ==
  CASE eff = "taken"    -> PushHistory(p, 1)
    [] eff = "nottaken" -> PushHistory(p, 0)
    [] eff = "push"     -> [p EXCEPT !.rasN = @ + 1]
    [] eff = "pop"      -> [p EXCEPT !.rasN = IF @ > 0 THEN @ - 1 ELSE 0]
    [] OTHER            -> p

Miss == [taken |-> FALSE, target |-> 0, eff |-> "none"]
Hit(taken, target, eff) == [taken |-> taken, target |-> target, eff |-> eff]

(* What a BTB hit leads to depends on the kind of the instruction that     *)
(* trained the entry.                                                      *)
Hits(I) ==
  CASE I.kind = "cond" -> {Hit(TRUE, I.target, "taken"), Hit(FALSE, I.target, "nottaken")}
    [] I.kind = "call" -> {Hit(TRUE, I.target, "push")}
    [] I.kind = "jump" -> {Hit(TRUE, I.target, "none")}
    [] I.kind = "ret"  -> {Hit(TRUE, t, "pop") : t \in Returns}
    [] OTHER           -> {}

Predict(pc) == {Miss} \cup UNION {Hits(I) : I \in trained[pc]}

Restore(p, e) ==
  [p EXCEPT !.pos = e.hist, !.rasN = IF RasRepair THEN e.rasN ELSE @]

(* The effect replay() applies after restore(), with the real outcome.     *)
ReplayEffect(e, taken) ==
  CASE code[e.pc].kind = "cond" -> IF taken THEN "taken" ELSE "nottaken"
    [] code[e.pc].kind = "call" /\ RasRepair -> "push"
    [] code[e.pc].kind = "ret"  /\ RasRepair -> "pop"
    [] OTHER -> "none"
-----------------------------------------------------------------------------
(* Fetch *)

To(taken, next) == [taken |-> taken, next |-> next]

Fetched(p, pc, c) ==
  [pc |-> pc, taken |-> c.taken, target |-> c.target, eff |-> c.eff,
   hist |-> p.pos, rasN |-> p.rasN, resolved |-> FALSE, actual |-> To(FALSE, 0)]

BlockRest(pc) == pc .. BlockOf(pc) + BlockWords - 1

BlockChoices(pc) ==
  {c \in [BlockRest(pc) -> UNION {Predict(w) : w \in BlockRest(pc)}] :
     \A w \in BlockRest(pc) : c[w] \in Predict(w)}

(* The predictor before each word of a block, and behind the last one.     *)
Before(p, first, last, choice) ==
  LET at[w \in first .. last + 1] ==
        IF w = first THEN p ELSE Apply(at[w - 1], choice[w - 1].eff)
  IN  at

LastFetched(pc, choice) ==
  LET ends == {w \in BlockRest(pc) : choice[w].taken}
  IN  IF ends = {} THEN BlockOf(pc) + BlockWords - 1
      ELSE CHOOSE w \in ends : \A x \in ends : w <= x

(* processFetch: the words from fetchPc to the end of the block or the     *)
(* first one predicted taken enter the queue; choice holds the outcomes.   *)
ProcessFetch(f, p, choice) ==
  LET first == f.fetchPc
      last  == LastFetched(first, choice)
      at    == Before(p, first, last, choice)
  IN  [pr |-> at[last + 1],
       fe |-> [f EXCEPT !.q = @ \o [i \in 1 .. last - first + 1 |->
                          Fetched(at[first + i - 1], first + i - 1, choice[first + i - 1])],
                        !.pc = IF choice[last].taken THEN choice[last].target ELSE last + 1]]

(* consume: the answer of a fetch overtaken by a squash is dropped.        *)
Consume(f, p, choice) ==
  LET r == IF f.stale THEN [fe |-> f, pr |-> p] ELSE ProcessFetch(f, p, choice)
  IN  [r EXCEPT !.fe.outstanding = FALSE, !.fe.stale = FALSE]

Idle(f) == /\ ~f.outstanding /\ ~f.pend
           /\ Len(f.q) + BlockWords <= FetchQSize

MayRequest(f) == Idle(f) /\ f.pc < Words

BugFaults(f, r) == Idle(f) /\ f.pc >= Words /\ f.q = <<>>

(* A pc outside memory waits to be squashed, unless nothing older is left. *)
Faults(f, r) == Idle(f) /\ f.pc >= Words /\ r = <<>> /\ f.q = <<>>

FInit ==
  /\ stage = "commit"
  /\ fe = [pc |-> 0, outstanding |-> FALSE, stale |-> FALSE, fetchPc |-> 0,
           q |-> <<>>, pend |-> FALSE, target |-> 0]
  /\ pr = [pos |-> 0, bits |-> [i \in 0 .. HistRing - 1 |-> 0],
           folds |-> [i \in 0 .. HistRing - 1 |-> 0], rasN |-> 0]
  /\ rob = <<>>
  /\ ready = FALSE
  /\ blocks = 0
  /\ code = [w \in Pcs |-> Instr(Kind[w], Target[w])]
  /\ trained = [w \in Pcs |-> {code[w]}]
  /\ arch = [next |-> 0, hist |-> [i \in 1 .. MaxHist |-> 0], rasN |-> 0]
  /\ fault = FALSE

(* What consume leaves, if an answer has come.                             *)
AfterAnswer ==
  IF ready
  THEN {Consume(fe, pr, c) : c \in BlockChoices(fe.fetchPc)}
  ELSE {[fe |-> fe, pr |-> pr]}

Requested(f) == [f EXCEPT !.outstanding = TRUE, !.fetchPc = f.pc]

FetchStage ==
  /\ stage = "fetch" /\ stage' = "edge"
  /\ \E a \in AfterAnswer :
       \/ \* nothing can be asked, or the port refuses
          /\ ~Faults(a.fe, rob)
          /\ fe' = a.fe /\ pr' = a.pr /\ ready' = FALSE
          /\ UNCHANGED <<blocks, fault>>
       \/ /\ Faults(a.fe, rob)
          /\ fault' = TRUE
          /\ fe' = a.fe /\ pr' = a.pr /\ ready' = FALSE
          /\ UNCHANGED blocks
       \/ \* a request that is not answered in this cycle
          /\ MayRequest(a.fe) /\ blocks < MaxBlocks
          /\ fe' = Requested(a.fe) /\ pr' = a.pr /\ ready' = FALSE
          /\ blocks' = blocks + 1
          /\ UNCHANGED fault
       \/ \* a port with latency 1 answers at once
          /\ MayRequest(a.fe) /\ blocks < MaxBlocks
          /\ \E c \in BlockChoices(a.fe.pc) :
               LET b == Consume(Requested(a.fe), a.pr, c)
               IN  fe' = b.fe /\ pr' = b.pr
          /\ ready' = FALSE
          /\ blocks' = blocks + 1
          /\ UNCHANGED fault
  /\ UNCHANGED <<rob, text, arch>>

(* The redirect is applied, and the memory system ticks.                   *)
Edge ==
  /\ stage = "edge" /\ ~fault /\ stage' = "commit"
  /\ fe' = IF fe.pend THEN [fe EXCEPT !.pc = fe.target, !.pend = FALSE,
                                      !.stale = @ \/ fe.outstanding]
           ELSE fe
  /\ ready' \in {FALSE, fe.outstanding}
  /\ UNCHANGED <<pr, rob, blocks, text, arch, fault>>
-----------------------------------------------------------------------------
(* The back end, as far as the front end sees it *)

Outcomes(pc) ==
  CASE code[pc].kind = "cond" -> {To(FALSE, pc + 1), To(TRUE, code[pc].target)}
    [] code[pc].kind \in {"jump", "call"} -> {To(TRUE, code[pc].target)}
    [] code[pc].kind = "ret"  -> {To(TRUE, t) : t \in Returns}
    [] OTHER             -> {}

(* Where an instruction goes.  Only a branch is checked against what fetch *)
(* assumed (ooo.cpp:261).                                                  *)
NextOf(e) ==
  IF e.resolved THEN e.actual.next
  ELSE IF e.taken /\ Outcomes(e.pc) # {} THEN e.target ELSE e.pc + 1

Mispredicted(e, o) == o.taken # e.taken \/ (o.taken /\ o.next # e.target)

(* What an instruction means for history and return stack, and what is     *)
(* kept of it: the prediction's effect unless that was wrong.              *)
RealEffect(pc, taken) ==
  CASE code[pc].kind = "cond" -> IF taken THEN "taken" ELSE "nottaken"
    [] code[pc].kind = "call" -> "push"
    [] code[pc].kind = "ret"  -> "pop"
    [] OTHER -> "none"

EffectOf(e) ==
  IF e.resolved /\ Mispredicted(e, e.actual) THEN RealEffect(e.pc, e.actual.taken)
  ELSE e.eff

Bit(eff) == IF eff = "taken" THEN <<1>> ELSE IF eff = "nottaken" THEN <<0>> ELSE <<>>
LastBits(s) == SubSeq(s, Len(s) - MaxHist + 1, Len(s))

Depth(n, eff) ==
  IF eff = "push" THEN n + 1 ELSE IF eff = "pop" /\ n > 0 THEN n - 1 ELSE n

CommitHead ==
  /\ stage = "commit" /\ rob # <<>>
  /\ LET e == Head(rob) IN
     /\ Outcomes(e.pc) = {} \/ e.resolved
     /\ arch' = [next |-> NextOf(e), hist |-> LastBits(arch.hist \o Bit(EffectOf(e))),
                 rasN |-> Depth(arch.rasN, RealEffect(e.pc, TRUE))]
  /\ rob' = Tail(rob)
  /\ UNCHANGED <<stage, fe, pr, ready, blocks, text, fault>>

BugSquashed(f, target) == [f EXCEPT !.q = <<>>, !.pend = TRUE, !.target = target]

(* What recover() does to fetch.                                           *)
Squashed(f, target) ==
  [f EXCEPT !.q = <<>>, !.stale = @ \/ f.outstanding,
            !.pend = TRUE, !.target = target]

(* writebackStage: a branch learns its outcome; a wrong one ends the stage *)
Resolve(k) ==
  /\ stage = "writeback" /\ ~rob[k].resolved
  /\ \E o \in Outcomes(rob[k].pc) :
       LET e == rob[k]
           wrong == Mispredicted(e, o)
           r == [rob EXCEPT ![k].resolved = TRUE, ![k].actual = o]
       IN  IF wrong
           THEN /\ rob' = SubSeq(r, 1, k)
                /\ pr' = Apply(Restore(pr, e), ReplayEffect(e, o.taken))
                /\ fe' = Squashed(fe, o.next)
                /\ stage' = "agu"
           ELSE rob' = r /\ UNCHANGED <<pr, fe, stage>>
  /\ UNCHANGED <<ready, blocks, text, arch, fault>>

(* violationScan: a load younger than some store is refetched.             *)
Violate(k) ==
  /\ stage = "agu" /\ code[rob[k].pc].kind = "plain"
  /\ \E j \in 1 .. k - 1 : code[rob[j].pc].kind = "plain"
  /\ rob' = SubSeq(rob, 1, k - 1)
  /\ pr' = Restore(pr, rob[k])
  /\ fe' = Squashed(fe, rob[k].pc)
  /\ UNCHANGED <<stage, ready, blocks, text, arch, fault>>

Dispatch ==
  /\ stage = "dispatch" /\ fe.q # <<>> /\ Len(rob) < RobSize
  /\ rob' = Append(rob, Head(fe.q))
  /\ fe' = [fe EXCEPT !.q = Tail(@)]
  /\ UNCHANGED <<stage, pr, ready, blocks, text, arch, fault>>

StageAfter == [commit |-> "writeback", writeback |-> "agu", agu |-> "dispatch",
               dispatch |-> "fetch"]

(* A stage has done what its width allows.                                 *)
EndStage ==
  /\ stage \in DOMAIN StageAfter
  /\ stage' = StageAfter[stage]
  /\ UNCHANGED <<fe, pr, rob, ready, blocks, text, arch, fault>>

(* A committed store reaches flat memory while a FENCE behind it waits for *)
(* the machine to drain.  The program is one that does not fetch the word  *)
(* before that.                                                            *)
Rewrite(patch) ==
  LET I == Instr(patch.kind, patch.target) IN
  /\ stage = "commit" /\ rob = <<>> /\ code[patch.pc] # I
  /\ \A i \in 1 .. Len(fe.q) : fe.q[i].pc # patch.pc
  /\ fe.outstanding => patch.pc \notin BlockRest(fe.fetchPc)
  /\ code' = [code EXCEPT ![patch.pc] = I]
  /\ trained' = [trained EXCEPT ![patch.pc] = @ \cup {I}]
  /\ UNCHANGED <<stage, fe, pr, rob, ready, blocks, arch, fault>>

FNext ==
  \/ FetchStage \/ Edge \/ CommitHead \/ Dispatch \/ EndStage
  \/ \E k \in 1 .. Len(rob) : Resolve(k) \/ Violate(k)
  \/ \E patch \in Patches : Rewrite(patch)

FSpec == FInit /\ [][FNext]_fvars
-----------------------------------------------------------------------------
(* Properties *)

Stream == rob \o fe.q

FrontTypeOK ==
  /\ stage \in DOMAIN StageAfter \cup {"fetch", "edge"}
  /\ Len(fe.q) <= FetchQSize /\ Len(rob) <= RobSize
  /\ fe.outstanding \in BOOLEAN /\ fe.stale \in BOOLEAN /\ fe.pend \in BOOLEAN
  /\ fe.fetchPc \in Pcs
  /\ pr.bits \in [0 .. HistRing - 1 -> {0, 1}]
  /\ pr.rasN \in Nat /\ pr.pos \in Nat
  /\ \A i \in DOMAIN pr.folds : pr.folds[i] \in 0 .. MaxHist

(* From the last committed instruction to the one being fetched, the       *)
(* instructions in flight form one path with no gap and no repetition:     *)
(* each is where the one before it goes, as resolved or else as predicted, *)
(* and fetch continues from the youngest.  A block of an abandoned path    *)
(* that arrives late, in the cycle of the squash or any later one, never   *)
(* gets in (ooo.cpp:320).                                                  *)
OnePath ==
  LET next(k) == IF k = 0 THEN arch.next ELSE NextOf(Stream[k])
      end == next(Len(Stream))
  IN  /\ \A k \in 1 .. Len(Stream) : Stream[k].pc = next(k - 1)
      /\ IF fe.pend THEN fe.target = end
         ELSE fe.pc = end /\ (fe.outstanding /\ ~fe.stale => fe.fetchPc = end)
      /\ fe.stale => fe.outstanding

(* What the program makes of history and call depth, from a on.            *)
Advance(a, eff) ==
  [hist |-> LastBits(a.hist \o Bit(eff)), rasN |-> Depth(a.rasN, eff)]

Program(a, effs) ==
  LET at[k \in 0 .. Len(effs)] ==
        IF k = 0 THEN [hist |-> a.hist, rasN |-> a.rasN] ELSE Advance(at[k - 1], effs[k])
  IN  at

InFlight == [k \in 1 .. Len(Stream) |-> EffectOf(Stream[k])]

Ones(h) == Cardinality({i \in 1 .. MaxHist : h[i] = 1})

(* The history at pos is the one of program order, bits and folds.         *)
HistoryIs(pos, h) ==
  /\ \A i \in 0 .. MaxHist - 1 : pr.bits[(pos - i) % HistRing] = h[MaxHist - i]
  /\ pr.folds[pos % HistRing] = Ones(h)

(* Speculative history holds exactly the surviving instructions, with the  *)
(* real outcome of those that were mispredicted; and the checkpoint of     *)
(* every instruction in flight still leads to the bits and folds its       *)
(* prediction used, for a flush and for training at commit                 *)
(* (predictor.cpp:21: the ring outlasts whatever is in flight).            *)
HistoryExact ==
  LET at == Program(arch, InFlight)
  IN  /\ HistoryIs(pr.pos, at[Len(Stream)].hist)
      /\ \A k \in 1 .. Len(Stream) : HistoryIs(Stream[k].hist, at[k - 1].hist)

(* With rasRepair the depth of the return stack is the call depth of the   *)
(* committed program, plus the calls and returns in flight, however many   *)
(* were fetched on wrong paths and undone (predictor.cpp:220).             *)
ReturnDepthExact ==
  RasRepair => pr.rasN = Program(arch, InFlight)[Len(Stream)].rasN

(* Nothing a wrong path or a replayed load did to the predictor's          *)
(* speculative state survives (predictor.cpp:213).                         *)
SpeculationUndone == FrontTypeOK /\ HistoryExact /\ ReturnDepthExact

(* A fetch outside memory ends the run only when the committed program     *)
(* itself goes there (ooo.cpp:816).                                        *)
FaultIsReal == fault => fe.pc = arch.next /\ arch.next >= Words

(* "A program that rewrites one of its own instructions runs the new one"  *)
(* (tests/interface.py): what commits next is always where the code, as it *)
(* is now, goes.                                                           *)
RunsTheNewCode == [][CommitHead => Head(rob).pc = arch.next]_fvars
=============================================================================
