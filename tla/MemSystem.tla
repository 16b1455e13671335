------------------------------ MODULE MemSystem ------------------------------
(***************************************************************************)
(* The memory system of memory/system.cpp in cache mode: L1I and L1D over  *)
(* one L2 over DRAM, the two ports the core talks to, and the bottom-up    *)
(* tick with its routing of answers.                                       *)
(*                                                                         *)
(* Abstracted: latencies are free (any number of ripe answers may leave a  *)
(* pipe at a tick, in order).  The two L1s have the same size.  Some       *)
(* offsets of a line hold code, which stores leave alone: a line may hold  *)
(* both, so that fetches and stores meet in the L2.                        *)
(***************************************************************************)
EXTENDS Integers, Sequences, FiniteSets, SequencesExt

CONSTANTS Lines, Offsets,
          Code,                          \* offsets of a line that hold code
          L1Sets, L1Ways, L1Mshrs, L1Wbq, L1Fast,
          L2Sets, L2Ways, L2Mshrs, L2Wbq, L2Fast,
          DramFast,                      \* DRAM latency 1
          MaxData, MaxFetches            \* bounds on requests at the two ports

SRC_L1I == 0
SRC_L1D == 1
SRC_L2  == 2

L1(src) == INSTANCE Cache WITH
  Sets <- L1Sets, Ways <- L1Ways, Mshrs <- L1Mshrs, WbCap <- L1Wbq,
  Combinational <- L1Fast, SrcId <- src
L2 == INSTANCE Cache WITH
  Sets <- L2Sets, Ways <- L2Ways, Mshrs <- L2Mshrs, WbCap <- L2Wbq,
  Combinational <- L2Fast, SrcId <- SRC_L2

VARIABLES hier,      \* l1: the two L1s by source, l2, and dram
          asked,     \* data requests so far, which number them
          fetched,   \* fetches so far
          block      \* the last block the fetch port answered

mvars == <<hier, asked, fetched, block>>

LineSet == 0 .. Lines - 1
L1s == {SRC_L1I, SRC_L1D}

(* First contents: no two places alike, none of them the number of a store *)
Initial == [l \in LineSet |-> [o \in Offsets |-> -(2 * l + o + 1)]]

MInit ==
  /\ hier = [l1 |-> [s \in L1s |-> L1(s)!EmptyCache], l2 |-> L2!EmptyCache,
             dram |-> [mem |-> Initial, accepted |-> FALSE,
                       inflight |-> <<>>, resp |-> <<>>]]
  /\ asked = 0
  /\ fetched = 0
  /\ block = [tag |-> 0, data |-> Initial[0]]
-----------------------------------------------------------------------------
(* memory/dram.cpp: writes and reads happen on arrival, answers later.     *)

DramAnswer(d, req) ==
  [src |-> req.src, tag |-> req.tag,
   data |-> IF req.write THEN <<>> ELSE d.mem[req.line]]

DramAccess(d, req) ==
  LET a == DramAnswer(d, req)
      e == [d EXCEPT !.accepted = TRUE,
                     !.mem[req.line] = IF req.write THEN req.data ELSE @]
  IN  IF DramFast THEN [e EXCEPT !.resp = Append(@, a)]
                  ELSE [e EXCEPT !.inflight = Append(@, a)]

DramTick(h, n) ==
  [h EXCEPT !.dram.accepted = FALSE,
            !.dram.resp = @ \o SubSeq(h.dram.inflight, 1, n),
            !.dram.inflight = SubSeq(@, n + 1, Len(@))]

(* The routing passes of MemorySystem::tick.                               *)
DrainDram(h) ==
  [h EXCEPT !.l2 = FoldLeft(LAMBDA c, r : L2!DeliverBelowResponse(c, r.tag, r.data),
                            @, h.dram.resp),
            !.dram.resp = <<>>]

(* Answers go to the right MSHR index of the wrong L1.                     *)
BugDrainL2(h) ==
  LET To(s, c) ==
        FoldLeft(LAMBDA a, r : IF r.src = s \/ r.tag = L2!WbTag THEN a
                               ELSE L1(s)!DeliverBelowResponse(a, r.tag, r.data),
                 c, h.l2.resp)
  IN  [h EXCEPT !.l1 = [s \in L1s |-> To(s, @[s])], !.l2.resp = <<>>]

DrainL2(h) ==
  LET To(s, c) ==
        FoldLeft(LAMBDA a, r : IF r.src = s THEN L1(s)!DeliverBelowResponse(a, r.tag, r.data)
                                            ELSE a,
                 c, h.l2.resp)
  IN  [h EXCEPT !.l1 = [s \in L1s |-> To(s, @[s])], !.l2.resp = <<>>]

(* Cache::tick of each level, with the access below it makes.              *)
TickL2(h, n) ==
  LET c == L2!Advanced(h.l2, n)
  IN  IF L2!Sends(c) /\ ~h.dram.accepted
      THEN [h EXCEPT !.l2 = L2!AfterSending(c),
                     !.dram = DramAccess(@, L2!Outgoing(c))]
      ELSE [h EXCEPT !.l2 = c]

TickL1(h, s, n) ==
  LET c == L1(s)!Advanced(h.l1[s], n)
  IN  IF L1(s)!Sends(c) /\ L2!CanAccept(h.l2)
      THEN [h EXCEPT !.l1[s] = L1(s)!AfterSending(c),
                     !.l2 = L2!Access(@, L1(s)!Outgoing(c))]
      ELSE [h EXCEPT !.l1[s] = c]

Upper(h, n) == DrainL2(TickL1(TickL1(DrainL2(h), SRC_L1I, n[SRC_L1I]),
                              SRC_L1D, n[SRC_L1D]))
Lower(h, nd, n2) == DrainDram(TickL2(DrainDram(DramTick(h, nd)), n2))

(* MemorySystem::tick; the numbers say how many answers ripen where.       *)
Ticked(nd, n2, n) == Upper(Lower(hier, nd, n2), n)

Cycle(nd, n2, n) ==
  /\ hier' = Ticked(nd, n2, n)
  /\ UNCHANGED <<asked, fetched, block>>
-----------------------------------------------------------------------------
(* The core's two ports *)

Data(write, l, o) ==
  /\ asked < MaxData /\ L1(SRC_L1D)!CanAccept(hier.l1[SRC_L1D])
  /\ asked' = asked + 1
  /\ hier' = [hier EXCEPT !.l1[SRC_L1D] = L1(SRC_L1D)!Access(@,
       [write |-> write, line |-> l, bytes |-> {o}, src |-> 0, tag |-> asked + 1,
        data |-> [x \in IF write THEN {o} ELSE {} |-> asked + 1]])]
  /\ UNCHANGED <<fetched, block>>

Fetch(l) ==
  /\ fetched < MaxFetches /\ L1(SRC_L1I)!CanAccept(hier.l1[SRC_L1I])
  /\ fetched' = fetched + 1
  /\ hier' = [hier EXCEPT !.l1[SRC_L1I] = L1(SRC_L1I)!Access(@,
       [write |-> FALSE, line |-> l, bytes |-> Offsets, src |-> 0, tag |-> l,
        data |-> <<>>])]
  /\ UNCHANGED <<asked, block>>

TakeData ==
  /\ hier.l1[SRC_L1D].resp # <<>>
  /\ hier' = [hier EXCEPT !.l1[SRC_L1D].resp = Tail(@)]
  /\ UNCHANGED <<asked, fetched, block>>

TakeBlock ==
  LET r == hier.l1[SRC_L1I].resp IN
  /\ r # <<>>
  /\ block' = [tag |-> Head(r).tag, data |-> Head(r).data]
  /\ hier' = [hier EXCEPT !.l1[SRC_L1I].resp = Tail(@)]
  /\ UNCHANGED <<asked, fetched>>

Ripe(pipe) == 0 .. Len(pipe)

MNext ==
  \/ \E write \in BOOLEAN, l \in LineSet, o \in Offsets \ Code : Data(write, l, o)
  \/ \E l \in LineSet : Fetch(l)
  \/ TakeData
  \/ TakeBlock
  \/ \E nd \in Ripe(hier.dram.inflight), n2 \in Ripe(hier.l2.hits),
        ni \in Ripe(hier.l1[SRC_L1I].hits), n1 \in Ripe(hier.l1[SRC_L1D].hits) :
       Cycle(nd, n2, (SRC_L1I :> ni) @@ (SRC_L1D :> n1))

MSpec == MInit /\ [][MNext]_mvars

(* A cycle in which everything that can ripen does.                        *)
RipeTicked == Ticked(Len(hier.dram.inflight), Len(hier.l2.hits),
                     [s \in L1s |-> Len(hier.l1[s].hits)])
RipeCycle == hier' = RipeTicked /\ UNCHANGED <<asked, fetched, block>>

(* The simulator ticks the hierarchy every cycle and what waits in a pipe  *)
(* ripens; the core takes the answers it finds.  Nothing makes it ask.     *)
(* The last conjunct is WF_mvars(RipeCycle), written out: such a cycle is  *)
(* disabled only when it would change nothing.                             *)
MFairSpec ==
  /\ MSpec
  /\ WF_mvars(TakeData)
  /\ WF_mvars(TakeBlock)
  /\ []<>(RipeTicked = hier) \/ []<><<RipeCycle>>_mvars
-----------------------------------------------------------------------------
(* Properties *)

L2Line(l) == L2!Peek(hier.l2, l, hier.dram.mem[l])

(* MemorySystem::peek8 for every offset of a line: L1D, then L2, then the  *)
(* backing store.                                                          *)
Peek(l) == L1(SRC_L1D)!Peek(hier.l1[SRC_L1D], l, L2Line(l))

(* Requests of one L1 inside the L2, and answers to them on their way: the *)
(* refills an L1 is waiting for.                                           *)
InL2(s) ==
  LET Mine(seq) == SelectSeq(seq, LAMBDA r : r.src = s /\ r.tag # L2!WbTag)
  IN  Mine(hier.l2.hits) \o Mine(hier.l2.resp)
        \o FlattenSeq([i \in 1 .. L2Mshrs |-> Mine(hier.l2.mshrs[i - 1].waiting)])

(* What the DRAM still has to answer: the refills the L2 is waiting for.   *)
InDram == SelectSeq(hier.dram.inflight \o hier.dram.resp, LAMBDA r : r.tag # L2!WbTag)

TagsOf(answers, installs) ==
  [k \in DOMAIN answers |-> answers[k].tag] \o [k \in DOMAIN installs |-> installs[k].mshr]

(* A refill names an MSHR by index only (cache.cpp:266), and the L2 sends  *)
(* each answer to the L1 that asked for it (system.cpp:40).  Every refill  *)
(* a level waits for is at exactly one place below it or stalled on its    *)
(* way into the arrays, and nobody below holds an answer that nobody waits *)
(* for: an index is never reused too early.                                *)
EachRefillHasOneAnswer ==
  /\ \A s \in L1s :
       LET c == hier.l1[s]
           tags == TagsOf(InL2(s), c.installs)
       IN  IsInjective(tags) /\ Range(tags) = L1(s)!Occupied(c) \ L1(s)!Unsent(c)
  /\ LET tags == TagsOf(InDram, hier.l2.installs)
     IN  IsInjective(tags) /\ Range(tags) = L2!Occupied(hier.l2) \ L2!Unsent(hier.l2)

(* A fetch gets the code of its own line, whatever stores do to the rest   *)
(* of that line meanwhile, and in whichever order the two L1s reach L2.    *)
FetchesGetTheirCode ==
  \A o \in Code : block.data[o] = Initial[block.tag][o]

OwedData ==
  LET c == hier.l1[SRC_L1D]
      waiting == UNION {{L1(SRC_L1D)!Answer(m.waiting[j],
                           L1(SRC_L1D)!Overlaid(SubSeq(m.waiting, 1, j - 1), L2Line(m.line))) :
                           j \in DOMAIN m.waiting} : m \in Range(c.mshrs)}
  IN  {[tag |-> a.tag, data |-> a.data] :
         a \in Range(c.hits) \cup Range(c.resp) \cup waiting}

Arrival == INSTANCE ArrivalMemory WITH
  Shapes <- {{o} : o \in Offsets \ Code}, arrived <- asked,
  amem <- [l \in LineSet |-> Peek(l)], owed <- OwedData

(* Behind the data port the three levels and DRAM are one memory: every    *)
(* load and store takes effect when the L1D accepts it, wherever its line  *)
(* is, and peek8 names the newest byte at every moment, mid-transfer or    *)
(* not.                                                                    *)
RefinesArrival == Arrival!ASpec

(* No level waits for another forever: full MSHRs, full writeback queues   *)
(* and delayed installs all clear, and both ports get all their answers    *)
(* again and again.                                                        *)
EverythingAnswered ==
  []<>(/\ OwedData = {}
       /\ L1(SRC_L1I)!Occupied(hier.l1[SRC_L1I]) = {})
=============================================================================
