--------------------------- MODULE LauncherProofs ---------------------------
(***************************************************************************)
(* The launcher leaves no process behind and tells the truth about how the *)
(* two ended; no whole frame is missed at end of file; no key sticks or is *)
(* released twice: whatever the processes do, for every size of pipe,      *)
(* frame, event and queue.                                                 *)
(*                                                                         *)
(* The first needs one fact about the pipes: a viewer ends without an      *)
(* error and without being closed only after its simulator has, because it *)
(* reads end of file only when nobody else holds the other end.            *)
(*                                                                         *)
(* The last follows the bytes.  While both processes are there, what is in *)
(* the simulator's hands, in the pipe and in the viewer's queue are whole  *)
(* words, whose events lead from what the guest was told to what is        *)
(* pressed: the viewer appends words that lead on (CarriesJoin), writes    *)
(* and partial reads move a cut that the concatenation does not show, and  *)
(* a completed read takes the first event (CarriesOn).                     *)
(***************************************************************************)
EXTENDS Launcher, TLAPS, SequenceTheorems, FiniteSetTheorems

Pcs == {"viewer", "simulator", "close", "clear", "watch", "grace", "stop",
        "terminated", "gone"}

Shape ==
  /\ pc \in Pcs /\ target \in Procs /\ known \subseteq Procs
  /\ status \in [Procs -> {"none", "up", "ok", "closed", "failed"}]
  /\ status["simulator"] # "closed"
  /\ code \in Nat

(* A process runs only from its Popen on, and is then known.               *)
KnownAreSpawned ==
  /\ \A p \in Procs : status[p] # "none" <=> p \in known
  /\ pc = "viewer" => known = {}
  /\ pc = "simulator" => known = {"viewer"}
  /\ pc \in {"close", "clear", "watch", "grace"} => known = Procs

(* The launcher's own pipe ends keep end of file away until both run.      *)
ViewerEndsLast ==
  /\ pc \in {"viewer", "simulator", "close"} => holding
  /\ status["viewer"] = "ok" => ~holding /\ ~Up("simulator")

(* The cleanup has stopped what it passed.                                 *)
StoppedSoFar ==
  /\ pc \in {"stop", "terminated"} /\ target = "viewer" => ~Up("simulator")
  /\ pc = "gone" => \A p \in Procs : ~Up(p)

(* The exit status is fixed when the first of the two ends and after the   *)
(* grace period; what is stopped later does not contradict it.             *)
CodeTrue ==
  /\ pc = "grace" => /\ Gone("simulator")
                     /\ code = 0 => status["simulator"] # "failed"
  /\ pc \in {"stop", "terminated", "gone"} /\ code = 0 =>
       /\ status["viewer"] \in {"ok", "closed"}
       /\ status["simulator"] \in {"up", "failed"} => status["viewer"] = "closed"

LauncherInv ==
  /\ Shape
  /\ ~untimely => KnownAreSpawned /\ ViewerEndsLast /\ StoppedSoFar /\ CodeTrue

(* What the two processes can do to each other's standing: only end, and a *)
(* viewer ends well of itself only when the simulator is gone.             *)
Standing ==
  \/ UNCHANGED status
  \/ \E p \in Procs, s \in {"ok", "closed", "failed"} :
       /\ Up(p) /\ status' = [status EXCEPT ![p] = s]
       /\ s = "closed" => p = "viewer"
       /\ p = "viewer" /\ s = "ok" => ~Open("simulator")

LEMMA LinkStands ==
  ASSUME LinkNext
  PROVE  Standing /\ UNCHANGED holding
<1> USE DEF Standing, Procs
<1>1. ASSUME NEW p \in Procs, NEW s \in {"ok", "closed", "failed"}, Up(p), Ends(p, s),
             s = "closed" => p = "viewer", p = "viewer" /\ s = "ok" => ~Open("simulator")
      PROVE  Standing /\ UNCHANGED holding
  BY <1>1 DEF Ends
<1>2. CASE \E s \in Scans, c \in Codes : KeyDown(s, c)
  BY <1>2 DEF KeyDown, Event
<1>3. CASE \E s \in Scans : KeyUp(s)
  BY <1>3 DEF KeyUp, Event
<1>4. CASE FocusLost
  BY <1>4 DEF FocusLost, Event
<1>5. CASE CloseWindow
  BY <1>1, <1>5 DEF CloseWindow
<1>6. CASE TooManyKeys
  BY <1>1, <1>6 DEF TooManyKeys
<1>7. CASE NoMoreEvents
  BY <1>7 DEF NoMoreEvents, Goto
<1>8. CASE \E n \in 1 .. Len(keys) : WriteKeys(n)
  BY <1>8 DEF WriteKeys
<1>9. CASE NoMoreWrites
  BY <1>9 DEF NoMoreWrites, Goto
<1>10. CASE KeyPipeBroken
  BY <1>1, <1>10 DEF KeyPipeBroken
<1>11. CASE ReadPart
  BY <1>11 DEF ReadPart
<1>12. CASE ReadHeader
  BY <1>1, <1>12 DEF ReadHeader
<1>13. CASE Show
  BY <1>13 DEF Show
<1>14. CASE NothingToRead
  BY <1>14 DEF NothingToRead, Goto
<1>15. CASE EndOfFile
  BY <1>1, <1>15 DEF EndOfFile
<1>16. CASE \E size \in FrameSizes : Present(size)
  BY <1>16 DEF Present
<1>17. CASE \E n \in 1 .. Len(unsent) : WriteFrame(n)
  BY <1>17 DEF WriteFrame
<1>18. CASE FramePipeBroken
  BY <1>18 DEF FramePipeBroken
<1>19. CASE PollKey
  BY <1>1, <1>19 DEF PollKey, Running
<1>20. CASE Exits
  BY <1>1, <1>20 DEF Exits, Running
<1>21. CASE \E p \in Procs : Dies(p)
  BY <1>1, <1>21 DEF Dies
<1> QED
  BY <1>2, <1>3, <1>4, <1>5, <1>6, <1>7, <1>8, <1>9, <1>10, <1>11, <1>12, <1>13,
     <1>14, <1>15, <1>16, <1>17, <1>18, <1>19, <1>20, <1>21 DEF LinkNext

LEMMA LauncherInvStarts == LauncherInit => LauncherInv
BY DEF LauncherInit, DisplayInit, LauncherInv, Shape, Pcs, Procs, KnownAreSpawned,
       ViewerEndsLast, StoppedSoFar, CodeTrue, Up, Gone

LEMMA LauncherInvNext == LauncherInv /\ [LauncherNext]_lvars => LauncherInv'
<1> SUFFICES ASSUME LauncherInv, [LauncherNext]_lvars PROVE LauncherInv'
  OBVIOUS
<1> USE DEF LauncherInv, Shape, Pcs, Procs, KnownAreSpawned, ViewerEndsLast,
            StoppedSoFar, CodeTrue, Up, Gone
<1>1. CASE LinkNext /\ UNCHANGED launcherState
  <2>1. Standing /\ UNCHANGED holding
    BY <1>1, LinkStands
  <2>2. CASE UNCHANGED status
    BY <1>1, <2>1, <2>2 DEF launcherState
  <2>3. ASSUME NEW p \in Procs, NEW s \in {"ok", "closed", "failed"},
               Up(p), status' = [status EXCEPT ![p] = s],
               s = "closed" => p = "viewer", p = "viewer" /\ s = "ok" => ~Open("simulator")
        PROVE  LauncherInv'
    BY <1>1, <2>1, <2>3 DEF launcherState, Open
  <2> QED BY <2>1, <2>2, <2>3 DEF Standing
<1>2. CASE SpawnViewer
  <2>1. pc = "viewer" /\ pc' \in {"simulator", "stop"} /\ UNCHANGED untimely
        /\ code' \in Nat
    BY <1>2 DEF SpawnViewer, Spawn, Cleanup
  <2>2. CASE Cleanup /\ code' = 1 /\ UNCHANGED <<status, known>>
    BY <1>2, <2>1, <2>2 DEF Cleanup
  <2>3. CASE /\ status' = [status EXCEPT !["viewer"] = "up"] /\ known' = known \cup {"viewer"}
             /\ pc' = "simulator" /\ UNCHANGED <<target, code, holding>>
    BY <1>2, <2>1, <2>3
  <2> QED BY <1>2, <2>2, <2>3 DEF SpawnViewer, Spawn
<1>3. CASE SpawnSimulator
  <2>1. pc = "simulator" /\ UNCHANGED untimely
    BY <1>3 DEF SpawnSimulator, Spawn
  <2>2. CASE Cleanup /\ code' = 1 /\ UNCHANGED <<status, known>>
    BY <1>3, <2>1, <2>2 DEF Cleanup
  <2>3. CASE /\ status' = [status EXCEPT !["simulator"] = "up"]
             /\ known' = known \cup {"simulator"}
             /\ pc' = "close" /\ UNCHANGED <<target, code, holding>>
    <3>1. /\ status'["simulator"] = "up" /\ status'["viewer"] = status["viewer"]
          /\ ~untimely => status["viewer"] # "ok"
      BY <2>1, <2>3
    <3> QED BY <2>1, <2>3, <3>1
  <2> QED BY <1>3, <2>2, <2>3 DEF SpawnSimulator, Spawn
<1>4. CASE CloseEnds
  BY <1>4 DEF CloseEnds
<1>5. CASE ClearEnds
  BY <1>5 DEF ClearEnds
<1>6. CASE FirstEnds
  BY <1>6 DEF FirstEnds, Alive, ExitCode, Cleanup
<1>7. CASE GraceEnds
  BY <1>7 DEF GraceEnds, ExitCode, Cleanup
<1>8. CASE Stop
  BY <1>8 DEF Stop, Alive, NextTarget
<1>9. CASE StopEnds
  BY <1>9 DEF StopEnds, Ends, NextTarget, dvars
<1>10. CASE Interrupt
  <2>1. /\ code' = 130 /\ (~untimely' => ~untimely /\ pc \in {"watch", "grace"})
        /\ \/ pc' = "gone" /\ UNCHANGED target
           \/ pc' = "stop" /\ target' = "simulator" /\ holding' = FALSE
        /\ UNCHANGED known
    BY <1>10 DEF Interrupt, Cleanup
  <2>2. \/ UNCHANGED status
        \/ pc \in Procs /\ status' = [status EXCEPT ![pc] = "up"]
    BY <1>10, Zenon DEF Interrupt
  <2>3. Shape'
    BY <2>1, <2>2
  <2>4. CASE ~untimely'
    <3>1. pc \in {"watch", "grace"} /\ pc' = "stop" /\ target' = "simulator"
          /\ holding' = FALSE /\ UNCHANGED status
      BY <1>10, <2>1, <2>4 DEF Interrupt, Cleanup
    <3> QED BY <2>1, <2>3, <3>1
  <2> QED BY <2>3, <2>4
<1>11. CASE UNCHANGED lvars
  BY <1>11 DEF lvars, dvars, launcherState
<1> QED
  BY <1>1, <1>2, <1>3, <1>4, <1>5, <1>6, <1>7, <1>8, <1>9, <1>10, <1>11
  DEF LauncherNext, LauncherStep

(* Whichever of the two ends first, hangs or fails, and whenever an        *)
(* interrupt finds the launcher waiting: when main of doom/run.py returns, *)
(* both processes have ended, and it reports success only if they did well.*)
THEOREM NoOneLeftBehind == LauncherSpec => []NothingLeftBehind
<1>1. LauncherInv => NothingLeftBehind
  BY DEF LauncherInv, Shape, Procs, KnownAreSpawned, StoppedSoFar, CodeTrue,
         NothingLeftBehind, Up
<1> QED BY <1>1, LauncherInvStarts, LauncherInvNext, PTL DEF LauncherSpec
-----------------------------------------------------------------------------
(* End of file *)

(* No bytes hold no packet.                                                *)
LEMMA NoPackets == Packets(<<>>) = <<>>
<1> DEFINE bytes == <<>>
           body(f) ==
             [i \in 1 .. Len(bytes) + 1 |->
                IF i + 1 > Len(bytes) \/ i + 1 + bytes[i + 1] > Len(bytes) THEN <<>>
                ELSE <<SubSeq(bytes, i + Header, i + 1 + bytes[i + 1])>>
                     \o f[i + Header + bytes[i + 1]]]
           from == CHOOSE f : f = body(f)
<1>1. Packets(<<>>) = from[1]
  BY Zenon DEF Packets
<1>2. \A f : body(f) = [i \in {1} |-> <<>>]
  OBVIOUS
<1>3. from = body(from)
  <2>1. \E f : f = body(f)
    <3> WITNESS [i \in {1} |-> <<>>]
    <3> QED BY <1>2
  <2> QED BY <2>1
<1> HIDE DEF body
<1>4. from = [i \in {1} |-> <<>>]
  BY <1>2, <1>3
<1> QED BY <1>1, <1>4

(* A running viewer ends without an error by itself in two ways only.      *)
LEMMA EndsWell ==
  ASSUME Shape, LauncherNext, Up("viewer"), status'["viewer"] = "ok"
  PROVE  KeyPipeBroken \/ EndOfFile
<1> USE DEF Shape, Procs, Up
<1>1. ASSUME NEW p \in Procs, NEW s, Ends(p, s), p = "simulator" \/ s # "ok"
      PROVE  FALSE
  BY <1>1 DEF Ends
<1>2. CASE LinkNext
  <2>1. CASE status' = status
    BY <2>1
  <2>2. CASE CloseWindow \/ TooManyKeys \/ Exits \/ \E p \in Procs : Dies(p)
    BY <1>1, <2>2 DEF CloseWindow, TooManyKeys, Exits, Dies
  <2>3. CASE ReadHeader
    BY <1>1, <2>3 DEF ReadHeader
  <2>4. CASE PollKey
    BY <1>1, <2>4 DEF PollKey
  <2>5. CASE KeyPipeBroken \/ EndOfFile
    BY <2>5
  <2>6. CASE \/ \E s \in Scans, c \in Codes : KeyDown(s, c)
             \/ \E s \in Scans : KeyUp(s)
             \/ FocusLost \/ NoMoreEvents
             \/ \E n \in 1 .. Len(keys) : WriteKeys(n)
             \/ NoMoreWrites \/ ReadPart \/ Show \/ NothingToRead
    BY <2>1, <2>6 DEF KeyDown, KeyUp, FocusLost, Event, NoMoreEvents, NoMoreWrites, Goto,
       WriteKeys, ReadPart, Show, NothingToRead
  <2>7. CASE \/ \E size \in FrameSizes : Present(size)
             \/ \E n \in 1 .. Len(unsent) : WriteFrame(n)
             \/ FramePipeBroken
    BY <2>1, <2>7 DEF Present, WriteFrame, FramePipeBroken
  <2> QED BY <1>2, <2>2, <2>3, <2>4, <2>5, <2>6, <2>7 DEF LinkNext
<1>3. CASE LauncherStep
  <2>1. CASE StopEnds
    BY <1>1, <2>1 DEF StopEnds, dvars
  <2>2. CASE LauncherStep /\ ~StopEnds
    BY <2>2 DEF LauncherStep, SpawnViewer, SpawnSimulator, Spawn, CloseEnds, ClearEnds,
       FirstEnds, GraceEnds, Stop
  <2> QED BY <1>3, <2>1, <2>2
<1>4. CASE Interrupt
  <2>1. \/ UNCHANGED status
        \/ pc \in Procs /\ status' = [status EXCEPT ![pc] = "up"]
    BY <1>4, Zenon DEF Interrupt
  <2> QED BY <2>1
<1> QED BY <1>2, <1>3, <1>4 DEF LauncherNext

(* A viewer of doom/viewer.cpp that exits without an error after a         *)
(* simulator that finished, and with no key events of its own to write,    *)
(* has taken every whole frame out of the pipe and shown it: it sees the   *)
(* end of file only after the last byte, and calls it truncated in the     *)
(* middle of a frame.                                                      *)
THEOREM NoFrameMissed == LauncherSpec => LastFrameShown
<1> DEFINE A == Up("viewer") /\ status'["viewer"] = "ok" /\ status["simulator"] = "ok"
                /\ keys = <<>> => Packets(frame \o framePipe) = <<>>
<1>1. ASSUME LauncherInv, [LauncherNext]_lvars PROVE [A]_dvars
  <2> SUFFICES ASSUME dvars' # dvars, Up("viewer"), status'["viewer"] = "ok", keys = <<>>
               PROVE  Packets(frame \o framePipe) = <<>>
    BY Zenon
  <2>1. LauncherNext
    BY <1>1, Zenon DEF lvars
  <2>2. KeyPipeBroken \/ EndOfFile
    BY <1>1, <2>1, EndsWell DEF LauncherInv
  <2>3. EndOfFile
    BY <2>2 DEF KeyPipeBroken
  <2>4. framePipe = <<>> /\ Ends("viewer", IF frame = <<>> THEN "ok" ELSE "failed")
    BY <2>3 DEF EndOfFile
  <2>5. frame = <<>>
    BY <1>1, <2>4 DEF Ends, LauncherInv, Shape, Procs
  <2>6. frame \o framePipe = <<>>
    BY <2>4, <2>5
  <2> QED BY <2>6, NoPackets
<1> QED BY <1>1, LauncherInvStarts, LauncherInvNext, PTL DEF LauncherSpec, LastFrameShown
-----------------------------------------------------------------------------
(* Words: WordBytes bytes each                                             *)

(* An event as the guest takes it: a code, and whether it is pressed.      *)
Told == Nat \X BOOLEAN

LEMMA Blocks ==
  ASSUME NEW m \in Nat, NEW i \in 1 .. m
  PROVE  /\ WordBytes * m \in Nat /\ WordBytes * (i - 1) \in Nat
         /\ WordBytes * (i - 1) + WordBytes <= WordBytes * m
<1>0. WordBytes \in Nat
  BY DisplayAssumption
<1>1. \A a, b, w \in Nat : a <= b => w * a <= w * b /\ w * a \in Nat /\ w * b \in Nat
  OBVIOUS
<1>2. WordBytes * i = WordBytes * (i - 1) + WordBytes
  BY <1>0
<1> QED BY <1>0, <1>1, <1>2

LEMMA BlockCount ==
  ASSUME NEW m \in Nat PROVE (WordBytes * m) \div WordBytes = m
<1>1. WordBytes \in Nat \ {0}
  BY DisplayAssumption
<1>2. \A a \in Nat, w \in Nat \ {0} : (w * a) \div w = a
  OBVIOUS
<1> QED BY <1>1, <1>2

(* The events of whole words, one behind another.                          *)
LEMMA EventsJoin ==
  ASSUME NEW a \in Seq(Nat), NEW b \in Seq(Nat), NEW m \in Nat, NEW n \in Nat,
         Len(a) = WordBytes * m, Len(b) = WordBytes * n
  PROVE  /\ Events(a) \in Seq(Told) /\ Len(Events(a)) = m
         /\ Events(a \o b) = Events(a) \o Events(b)
         /\ Len(a \o b) = WordBytes * (m + n)
<1>0. WordBytes \in Nat /\ WordBytes >= 2
  BY DisplayAssumption
<1>1. ASSUME NEW x \in Seq(Nat), NEW k \in Nat, Len(x) = WordBytes * k
      PROVE  /\ Events(x) \in Seq(Told) /\ Len(Events(x)) = k
             /\ DOMAIN Events(x) = 1 .. k
             /\ \A i \in 1 .. k :
                  Events(x)[i] = <<x[WordBytes * (i - 1) + 1], x[WordBytes * (i - 1) + 2] = 1>>
  <2>1. Len(x) \div WordBytes = k
    BY <1>1, BlockCount
  <2>2. Events(x) = [i \in 1 .. k |->
                       <<x[WordBytes * (i - 1) + 1], x[WordBytes * (i - 1) + 2] = 1>>]
    BY <2>1 DEF Events
  <2>3. ASSUME NEW i \in 1 .. k
        PROVE  <<x[WordBytes * (i - 1) + 1], x[WordBytes * (i - 1) + 2] = 1>> \in Told
    <3>1. WordBytes * (i - 1) \in Nat /\ WordBytes * (i - 1) + WordBytes <= Len(x)
      BY <1>1, Blocks
    <3>2. WordBytes * (i - 1) + 1 \in 1 .. Len(x)
      BY <1>0, <3>1
    <3>3. x[WordBytes * (i - 1) + 1] \in Nat
      BY <3>2
    <3> QED BY <3>3 DEF Told
  <2> DEFINE e(i) == <<x[WordBytes * (i - 1) + 1], x[WordBytes * (i - 1) + 2] = 1>>
  <2>4. \A i \in 1 .. k : e(i) \in Told
    BY <2>3
  <2>5. Events(x) = [i \in 1 .. k |-> e(i)]
    BY <2>2
  <2> HIDE DEF e
  <2>6. Events(x) \in Seq(Told) /\ Len(Events(x)) = k /\ DOMAIN Events(x) = 1 .. k
        /\ \A i \in 1 .. k : Events(x)[i] = e(i)
    BY <2>4, <2>5
  <2> QED BY <2>6 DEF e
<1>2. Len(a \o b) = WordBytes * (m + n) /\ a \o b \in Seq(Nat)
  <2>1. Len(a \o b) = Len(a) + Len(b) /\ a \o b \in Seq(Nat)
    OBVIOUS
  <2>2. \A w, x, y \in Nat : w * (x + y) = w * x + w * y
    OBVIOUS
  <2>3. WordBytes * (m + n) = WordBytes * m + WordBytes * n
    BY <1>0, <2>2
  <2> QED BY <2>1, <2>3
<1>3. m + n \in Nat
  OBVIOUS
<1> DEFINE s == Events(a)
           t == Events(b)
           u == Events(a \o b)
<1>4. /\ s \in Seq(Told) /\ Len(s) = m
      /\ t \in Seq(Told) /\ Len(t) = n
      /\ u \in Seq(Told) /\ Len(u) = m + n
  <2>1. s \in Seq(Told) /\ Len(s) = m
    BY <1>1
  <2>2. t \in Seq(Told) /\ Len(t) = n
    BY <1>1
  <2>3. u \in Seq(Told) /\ Len(u) = m + n
    BY <1>1, <1>2, <1>3
  <2> QED BY <2>1, <2>2, <2>3
<1>5. ASSUME NEW i \in 1 .. m + n PROVE Events(a \o b)[i] = (Events(a) \o Events(b))[i]
  <2> DEFINE p == WordBytes * (i - 1)
  <2>1. Events(a \o b)[i] = <<(a \o b)[p + 1], (a \o b)[p + 2] = 1>>
    BY <1>1, <1>2, <1>3
  <2>2. CASE i \in 1 .. m
    <3>1. p \in Nat /\ p + WordBytes <= Len(a)
      BY <2>2, Blocks
    <3> HIDE DEF p
    <3>2. p + 1 \in 1 .. Len(a) /\ p + 2 \in 1 .. Len(a)
      BY <1>0, <3>1
    <3>3. (a \o b)[p + 1] = a[p + 1] /\ (a \o b)[p + 2] = a[p + 2]
      BY <3>2
    <3>4. Events(a)[i] = <<a[p + 1], a[p + 2] = 1>>
      BY <1>1, <2>2 DEF p
    <3> HIDE DEF s, t
    <3>5. (s \o t)[i] = s[i]
      BY <1>4, <2>2, ConcatProperties
    <3>6. (Events(a) \o Events(b))[i] = Events(a)[i]
      BY <3>5 DEF s, t
    <3> QED BY <2>1, <3>3, <3>4, <3>6
  <2>3. CASE i \in m + 1 .. m + n
    <3> DEFINE q == WordBytes * ((i - m) - 1)
    <3>0. i - m \in 1 .. n
      BY <2>3
    <3>1. q \in Nat /\ q + WordBytes <= Len(b)
      BY <3>0, Blocks
    <3>2. p = Len(a) + q
      BY <1>0, <3>0, <2>3
    <3>4. Events(b)[i - m] = <<b[q + 1], b[q + 2] = 1>>
      BY <1>1, <3>0
    <3> HIDE DEF p, q
    <3>3. /\ (a \o b)[p + 1] = b[q + 1]
          /\ (a \o b)[p + 2] = b[q + 2]
      BY <1>0, <3>1, <3>2
    <3> HIDE DEF s, t
    <3>5. (s \o t)[i] = t[i - m]
      <4>1. i \in 1 .. Len(s) + Len(t) /\ ~(i <= Len(s))
        BY <1>4, <2>3
      <4> QED BY <1>4, <4>1, ConcatProperties
    <3>6. (Events(a) \o Events(b))[i] = Events(b)[i - m]
      BY <3>5 DEF s, t
    <3> QED BY <2>1, <3>3, <3>4, <3>6
  <2>4. i \in 1 .. m \/ i \in m + 1 .. m + n
    OBVIOUS
  <2> QED BY <2>2, <2>3, <2>4, Zenon
<1>6. u = s \o t
  <2> DEFINE v == s \o t
  <2>1. v \in Seq(Told) /\ Len(v) = m + n
    <3> HIDE DEF s, t
    <3> QED BY <1>4, ConcatProperties
  <2>2. \A i \in 1 .. m + n : u[i] = v[i]
    BY <1>5
  <2> HIDE DEF u, v
  <2>3. u \in Seq(Told) /\ Len(u) = m + n
    BY <1>4 DEF u
  <2>4. u = v
    BY <2>1, <2>2, <2>3, SeqEqual
  <2> QED BY <2>4 DEF u, v
<1> QED BY <1>2, <1>4, <1>6

-----------------------------------------------------------------------------
(* What a guest believes pressed while it takes events                     *)

LEMMA LeadsEmpty ==
  ASSUME NEW a \in SUBSET Codes
  PROVE  Leads(a, <<>>, a)
<1> DEFINE told == [i \in 0 .. 0 |-> a]
<1>1. told \in [0 .. Len(<<>>) -> SUBSET Codes] /\ told[0] = a /\ told[Len(<<>>)] = a
  OBVIOUS
<1>2. Follows(told, <<>>)
  BY DEF Follows
<1> QED BY <1>1, <1>2, Zenon DEF Leads

LEMMA LeadsJoin ==
  ASSUME NEW a, NEW b, NEW c, NEW es \in Seq(Told), NEW fs \in Seq(Told),
         Leads(a, es, b), Leads(b, fs, c)
  PROVE  Leads(a, es \o fs, c)
<1>1. PICK t \in [0 .. Len(es) -> SUBSET Codes] :
        t[0] = a /\ t[Len(es)] = b /\ Follows(t, es)
  BY Zenon DEF Leads
<1>2. PICK u \in [0 .. Len(fs) -> SUBSET Codes] :
        u[0] = b /\ u[Len(fs)] = c /\ Follows(u, fs)
  BY Zenon DEF Leads
<1> DEFINE m == Len(es)
           n == Len(fs)
           es2 == es \o fs
           told == [i \in 0 .. m + n |-> IF i <= m THEN t[i] ELSE u[i - m]]
<1>3. m \in Nat /\ n \in Nat /\ es2 \in Seq(Told) /\ Len(es2) = m + n
      /\ \A i \in 1 .. m + n : es2[i] = IF i <= m THEN es[i] ELSE fs[i - m]
  BY ConcatProperties, LenProperties
<1> HIDE DEF es2
<1>4. told \in [0 .. m + n -> SUBSET Codes]
  BY <1>3
<1>5. /\ told[0] = a /\ told[m + n] = c
      /\ \A i \in 0 .. m : told[i] = t[i]
      /\ \A i \in 0 .. n : told[m + i] = u[i]
  <2>1. \A i \in 0 .. m : told[i] = t[i]
    BY <1>3
  <2>2. ASSUME NEW i \in 0 .. n PROVE told[m + i] = u[i]
    <3>1. m + i \in 0 .. m + n /\ (m + i) - m = i /\ (m + i <= m <=> i = 0)
      BY <1>3
    <3>2. told[m + i] = IF i = 0 THEN t[m] ELSE u[i]
      BY <1>3, <3>1
    <3> HIDE DEF told, m
    <3> QED BY <1>1, <1>2, <3>2 DEF m
  <2>3. told[0] = a
    BY <1>1, <1>3, <2>1
  <2>4. told[m + n] = c
    BY <1>2, <1>3, <2>2
  <2> QED BY <2>1, <2>2, <2>3, <2>4
<1> HIDE DEF told
<1>6. ASSUME NEW i \in 1 .. Len(es2)
      PROVE  LET k == es2[i][1] IN
             IF es2[i][2] THEN k \notin told[i - 1] /\ told[i] = told[i - 1] \cup {k}
             ELSE k \in told[i - 1] /\ told[i] = told[i - 1] \ {k}
  <2>1. CASE i \in 1 .. m
    <3>1. told[i] = t[i] /\ told[i - 1] = t[i - 1] /\ es2[i] = es[i]
      BY <1>3, <1>5, <2>1
    <3>2. LET k == es[i][1] IN
          IF es[i][2] THEN k \notin t[i - 1] /\ t[i] = t[i - 1] \cup {k}
          ELSE k \in t[i - 1] /\ t[i] = t[i - 1] \ {k}
      BY <1>1, <2>1 DEF Follows
    <3> QED BY <3>1, <3>2, Zenon
  <2>2. CASE i \in m + 1 .. m + n
    <3> DEFINE j == i - m
    <3>0. j \in 1 .. n /\ m + j = i /\ m + (j - 1) = i - 1 /\ j - 1 \in 0 .. n
      BY <1>3, <2>2
    <3>1. told[i] = u[j] /\ told[i - 1] = u[j - 1]
      BY <1>5, <3>0
    <3>2. es2[i] = fs[j]
      BY <1>3, <2>2
    <3> HIDE DEF j
    <3>3. LET k == fs[j][1] IN
          IF fs[j][2] THEN k \notin u[j - 1] /\ u[j] = u[j - 1] \cup {k}
          ELSE k \in u[j - 1] /\ u[j] = u[j - 1] \ {k}
      BY <1>2, <3>0 DEF Follows
    <3> QED BY <3>1, <3>2, <3>3, Zenon
  <2>3. i \in 1 .. m \/ i \in m + 1 .. m + n
    BY <1>3
  <2> QED BY <2>1, <2>2, <2>3, Zenon
<1>7. Follows(told, es2)
  BY <1>6 DEF Follows
<1>8. Leads(a, es2, c)
  BY <1>3, <1>4, <1>5, <1>7, Zenon DEF Leads
<1> QED BY <1>8 DEF es2

(* The guest takes the first event.                                        *)
LEMMA LeadsOn ==
  ASSUME NEW a, NEW c, NEW e \in Told, NEW es \in Seq(Told),
         Leads(a, <<e>> \o es, c)
  PROVE  Leads(IF e[2] THEN a \cup {e[1]} ELSE a \ {e[1]}, es, c)
<1> DEFINE n == Len(es)
           es2 == <<e>> \o es
<1>1. n \in Nat /\ Len(es2) = n + 1 /\ es2[1] = e
      /\ \A i \in 1 .. n : es2[i + 1] = es[i]
  OBVIOUS
<1> HIDE DEF es2
<1>2. PICK t \in [0 .. Len(es2) -> SUBSET Codes] :
        t[0] = a /\ t[Len(es2)] = c /\ Follows(t, es2)
  BY Zenon DEF Leads, es2
<1>3. \A i \in 1 .. n + 1 :
        LET k == es2[i][1] IN
        IF es2[i][2] THEN k \notin t[i - 1] /\ t[i] = t[i - 1] \cup {k}
        ELSE k \in t[i - 1] /\ t[i] = t[i - 1] \ {k}
  BY <1>1, <1>2 DEF Follows
<1> DEFINE told == [i \in 0 .. n |-> t[i + 1]]
<1>4. told \in [0 .. n -> SUBSET Codes]
  BY <1>1, <1>2
<1>5. told[n] = c /\ \A i \in 0 .. n : told[i] = t[i + 1]
  BY <1>1, <1>2
<1>6. told[0] = IF e[2] THEN a \cup {e[1]} ELSE a \ {e[1]}
  <2>1. 1 \in 1 .. n + 1 /\ 1 - 1 = 0
    BY <1>1
  <2>2. t[1] = IF e[2] THEN a \cup {e[1]} ELSE a \ {e[1]}
    BY <1>1, <1>2, <1>3, <2>1
  <2> QED BY <1>1, <2>2
<1> HIDE DEF told
<1>7. ASSUME NEW i \in 1 .. n
      PROVE  LET k == es[i][1] IN
             IF es[i][2] THEN k \notin told[i - 1] /\ told[i] = told[i - 1] \cup {k}
             ELSE k \in told[i - 1] /\ told[i] = told[i - 1] \ {k}
  <2> DEFINE j == i + 1
  <2>1. j \in 1 .. n + 1 /\ i - 1 \in 0 .. n /\ i \in 0 .. n /\ (i - 1) + 1 = j - 1
    BY <1>1
  <2>2. told[i] = t[j] /\ told[i - 1] = t[j - 1] /\ es2[j] = es[i]
    BY <1>1, <1>5, <2>1
  <2> HIDE DEF j
  <2>3. LET k == es2[j][1] IN
        IF es2[j][2] THEN k \notin t[j - 1] /\ t[j] = t[j - 1] \cup {k}
        ELSE k \in t[j - 1] /\ t[j] = t[j - 1] \ {k}
    BY <1>3, <2>1
  <2> QED BY <2>2, <2>3, Zenon
<1>8. Follows(told, es)
  BY <1>7 DEF Follows
<1> QED BY <1>4, <1>5, <1>6, <1>8, Zenon DEF Leads

LEMMA LeadsByOne ==
  ASSUME NEW a \in SUBSET Codes, NEW c \in Codes
  PROVE  /\ c \notin a => Leads(a, << <<c, TRUE>> >>, a \cup {c})
         /\ c \in a => Leads(a, << <<c, FALSE>> >>, a \ {c})
<1>1. ASSUME NEW p \in BOOLEAN, NEW b \in SUBSET Codes,
             IF p THEN c \notin a /\ b = a \cup {c} ELSE c \in a /\ b = a \ {c}
      PROVE  Leads(a, << <<c, p>> >>, b)
  <2> DEFINE es == << <<c, p>> >>
             told == [i \in 0 .. 1 |-> IF i = 0 THEN a ELSE b]
  <2>1. Len(es) = 1 /\ es[1] = <<c, p>> /\ es[1][1] = c /\ es[1][2] = p
    OBVIOUS
  <2> HIDE DEF es
  <2>2. told \in [0 .. Len(es) -> SUBSET Codes] /\ told[0] = a /\ told[Len(es)] = b
        /\ told[1] = b
    BY <2>1
  <2> HIDE DEF told
  <2>3. Follows(told, es)
    <3> SUFFICES ASSUME NEW i \in 1 .. 1
        PROVE  LET k == es[i][1] IN
               IF es[i][2] THEN k \notin told[i - 1] /\ told[i] = told[i - 1] \cup {k}
               ELSE k \in told[i - 1] /\ told[i] = told[i - 1] \ {k}
      BY <2>1 DEF Follows
    <3>1. i = 1 /\ i - 1 = 0
      OBVIOUS
    <3> QED BY <1>1, <2>1, <2>2, <3>1
  <2>4. Leads(a, es, b)
    BY <2>2, <2>3, Zenon DEF Leads
  <2> QED BY <2>4 DEF es
<1> QED BY <1>1

(* Releasing every code of a set once leaves none of them.                 *)
LEMMA LeadsToNone ==
  ASSUME NEW n \in Nat, NEW cs \in [1 .. n -> Codes],
         \A i, j \in 1 .. n : i < j => cs[i] # cs[j]
  PROVE  Leads({cs[i] : i \in 1 .. n}, [i \in 1 .. n |-> <<cs[i], FALSE>>], {})
<1> DEFINE es == [i \in 1 .. n |-> <<cs[i], FALSE>>]
           told == [i \in 0 .. n |-> {cs[j] : j \in i + 1 .. n}]
<1>1. /\ Len(es) = n
      /\ \A i \in 1 .. n : es[i][1] = cs[i] /\ es[i][2] = FALSE
  OBVIOUS
<1>2. told \in [0 .. n -> SUBSET Codes]
  OBVIOUS
<1>3. told[0] = {cs[i] : i \in 1 .. n} /\ told[n] = {}
  OBVIOUS
<1>4. ASSUME NEW i \in 1 .. n
      PROVE  cs[i] \in told[i - 1] /\ told[i] = told[i - 1] \ {cs[i]}
  <2>1. told[i] = {cs[j] : j \in i + 1 .. n} /\ told[i - 1] = {cs[j] : j \in i .. n}
    OBVIOUS
  <2>2. cs[i] \in told[i - 1]
    BY <2>1
  <2>3. \A j \in i + 1 .. n : cs[j] # cs[i] /\ j \in i .. n
    OBVIOUS
  <2>4. \A j \in i .. n : j = i \/ j \in i + 1 .. n
    OBVIOUS
  <2> HIDE DEF told
  <2> QED BY <2>1, <2>2, <2>3, <2>4
<1> HIDE DEF es, told
<1>5. Follows(told, es)
  BY <1>1, <1>4 DEF Follows
<1>6. Leads({cs[i] : i \in 1 .. n}, es, {})
  BY <1>1, <1>2, <1>3, <1>5, Zenon DEF Leads
<1> QED BY <1>6 DEF es

-----------------------------------------------------------------------------
(* The words the viewer queues                                             *)

LEMMA BlockPlace ==
  ASSUME NEW m \in Nat, NEW r \in 0 .. WordBytes - 1
  PROVE  (WordBytes * m + r) \div WordBytes = m /\ (WordBytes * m + r) % WordBytes = r
<1>1. WordBytes \in Nat \ {0}
  BY DisplayAssumption
<1>2. \A a \in Nat, w \in Nat \ {0} : \A x \in 0 .. w - 1 :
        (w * a + x) \div w = a /\ (w * a + x) % w = x
  <2> SUFFICES ASSUME NEW a \in Nat, NEW w \in Nat \ {0}, NEW x \in 0 .. w - 1
               PROVE  (w * a + x) \div w = a /\ (w * a + x) % w = x
    OBVIOUS
  <2>1. w * a \in Nat
    OBVIOUS
  <2> QED BY <2>1
<1> QED BY <1>1, <1>2

(* Positions of the codes in a stream of key events.                       *)
CodesFirst(bytes) ==
  \A i \in Nat : WordBytes * i + 1 <= Len(bytes) => bytes[WordBytes * i + 1] \in Codes

LEMMA CodesFirstPrefix ==
  ASSUME NEW a \in Seq(Nat), NEW b \in Seq(Nat), CodesFirst(a \o b)
  PROVE  CodesFirst(a)
<1> SUFFICES ASSUME NEW i \in Nat, WordBytes * i + 1 <= Len(a)
             PROVE  a[WordBytes * i + 1] \in Codes
  BY DEF CodesFirst
<1> DEFINE p == WordBytes * i
<1>1. p \in Nat
  BY DisplayAssumption
<1>2. p + 1 <= Len(a \o b) => (a \o b)[p + 1] \in Codes
  BY DEF CodesFirst
<1> HIDE DEF p
<1>3. p + 1 <= Len(a)
  BY DEF p
<1>4. p + 1 \in 1 .. Len(a) + Len(b) /\ p + 1 <= Len(a \o b)
  BY <1>1, <1>3, ConcatProperties
<1>5. (a \o b)[p + 1] = a[p + 1]
  BY <1>3, <1>4, ConcatProperties
<1> QED BY <1>2, <1>4, <1>5 DEF p

LEMMA CodesFirstJoin ==
  ASSUME NEW a \in Seq(Nat), NEW b \in Seq(Nat), NEW m \in Nat, Len(a) = WordBytes * m
  PROVE  CodesFirst(a \o b) <=> CodesFirst(a) /\ CodesFirst(b)
<1>0. WordBytes \in Nat \ {0}
  BY DisplayAssumption
<1>1. /\ Len(a \o b) = Len(a) + Len(b)
      /\ \A i \in 1 .. Len(a) + Len(b) :
           (a \o b)[i] = IF i <= Len(a) THEN a[i] ELSE b[i - Len(a)]
      /\ Len(a) \in Nat /\ Len(b) \in Nat
  BY ConcatProperties, LenProperties
<1>2. ASSUME CodesFirst(a \o b), NEW j \in Nat, WordBytes * j + 1 <= Len(b)
      PROVE  b[WordBytes * j + 1] \in Codes
  <2> DEFINE p == WordBytes * (m + j)
             q == WordBytes * j
  <2>1. p = Len(a) + q
    <3>1. \A w, x, y \in Nat : w * (x + y) = w * x + w * y
      OBVIOUS
    <3> QED BY <1>0, <3>1
  <2>2. q \in Nat /\ q + 1 <= Len(b)
    BY <1>0, <1>2
  <2>3. m + j \in Nat
    OBVIOUS
  <2>4. p + 1 <= Len(a \o b) => (a \o b)[p + 1] \in Codes
    BY <1>2, <2>3 DEF CodesFirst
  <2> HIDE DEF p, q
  <2>5. p + 1 \in 1 .. Len(a) + Len(b) /\ ~(p + 1 <= Len(a)) /\ (p + 1) - Len(a) = q + 1
    BY <1>1, <2>1, <2>2
  <2>6. (a \o b)[p + 1] = b[q + 1]
    BY <1>1, <2>5
  <2>7. p + 1 <= Len(a \o b)
    BY <1>1, <2>5
  <2> QED BY <2>4, <2>6, <2>7 DEF q
<1>3. CodesFirst(a \o b) => CodesFirst(b)
  BY <1>2 DEF CodesFirst
<1>4. CodesFirst(a \o b) => CodesFirst(a)
  BY CodesFirstPrefix
<1>5. ASSUME CodesFirst(a), CodesFirst(b), NEW i \in Nat, WordBytes * i + 1 <= Len(a \o b)
      PROVE  (a \o b)[WordBytes * i + 1] \in Codes
  <2> DEFINE p == WordBytes * i
  <2>1. p \in Nat /\ p + 1 <= Len(a \o b)
    BY <1>0, <1>5
  <2>2. CASE p + 1 <= Len(a)
    <3>1. a[p + 1] \in Codes
      BY <1>5, <2>2 DEF CodesFirst
    <3> HIDE DEF p
    <3>2. (a \o b)[p + 1] = a[p + 1]
      BY <1>1, <2>1, <2>2
    <3> QED BY <3>1, <3>2 DEF p
  <2>3. CASE ~(p + 1 <= Len(a))
    <3> DEFINE j == i - m
               q == WordBytes * j
    <3>1. j \in Nat
      <4>1. \A w \in Nat \ {0}, x, y \in Nat : x < y => w * x + 1 <= w * y
        <5> SUFFICES ASSUME NEW w \in Nat \ {0}, NEW x \in Nat, NEW y \in Nat, x < y
                     PROVE  w * x + 1 <= w * y
          OBVIOUS
        <5>1. w * (x + 1) = w * x + w /\ w * (x + 1) <= w * y
          OBVIOUS
        <5> QED BY <5>1
      <4> QED BY <1>0, <2>3, <4>1
    <3>2. p = Len(a) + q /\ q \in Nat
      <4>1. \A w, x, y \in Nat : w * (x + y) = w * x + w * y /\ w * y \in Nat
        OBVIOUS
      <4>2. i = m + j
        OBVIOUS
      <4> HIDE DEF j
      <4> QED BY <1>0, <3>1, <4>1, <4>2
    <3>3. q + 1 <= Len(b) => b[q + 1] \in Codes
      BY <1>5, <3>1 DEF CodesFirst
    <3> HIDE DEF p, q
    <3>4. p + 1 \in 1 .. Len(a) + Len(b) /\ (p + 1) - Len(a) = q + 1 /\ q + 1 <= Len(b)
      BY <1>1, <2>1, <3>2
    <3>5. (a \o b)[p + 1] = b[q + 1]
      BY <1>1, <2>3, <3>4
    <3> QED BY <3>3, <3>4, <3>5 DEF p
  <2> QED BY <2>2, <2>3, Zenon
<1>6. CodesFirst(a) /\ CodesFirst(b) => CodesFirst(a \o b)
  BY <1>5 DEF CodesFirst
<1> QED BY <1>3, <1>4, <1>6

LEMMA OfReleases ==
  ASSUME NEW n \in Nat, NEW cs \in [1 .. n -> Codes]
  PROVE  /\ Releases(cs) \in Seq(Nat) /\ Len(Releases(cs)) = WordBytes * n
         /\ Events(Releases(cs)) = [i \in 1 .. n |-> <<cs[i], FALSE>>]
         /\ CodesFirst(Releases(cs))
<1>0. WordBytes \in Nat \ {0} /\ WordBytes >= 2 /\ Codes \subseteq Nat /\ WordBytes * n \in Nat
  BY DisplayAssumption
<1> DEFINE at(b) == Word(cs[((b - 1) \div WordBytes) + 1], 0)[((b - 1) % WordBytes) + 1]
           r == Releases(cs)
<1>1. Len(cs) = n
  OBVIOUS
<1>2. r = [b \in 1 .. WordBytes * n |-> at(b)]
  BY <1>1, Zenon DEF Releases
<1>3. ASSUME NEW b \in 1 .. WordBytes * n PROVE at(b) \in Nat
  <2> DEFINE k == (b - 1) \div WordBytes
             o == (b - 1) % WordBytes
  <2>1. k \in Nat /\ o \in 0 .. WordBytes - 1 /\ b - 1 = WordBytes * k + o
    BY <1>0
  <2>2. k < n
    <3>1. b - 1 < WordBytes * n /\ WordBytes * k <= b - 1
      BY <1>0, <2>1
    <3>2. \A w \in Nat \ {0}, x, y \in Nat : w * x < w * y => x < y
      OBVIOUS
    <3> HIDE DEF k
    <3>3. WordBytes * k < WordBytes * n /\ WordBytes * k \in Nat
      BY <1>0, <2>1, <3>1
    <3> QED BY <1>0, <2>1, <3>2, <3>3
  <2> HIDE DEF k, o
  <2>3. cs[k + 1] \in Nat
    <3>1. k + 1 \in 1 .. n
      BY <2>1, <2>2
    <3> QED BY <1>0, <3>1
  <2>4. Word(cs[k + 1], 0)[o + 1] \in Nat
    BY <1>0, <2>1, <2>3 DEF Word
  <2> QED BY <2>4 DEF k, o
<1>4. ASSUME NEW i \in 1 .. n
      PROVE  at(WordBytes * (i - 1) + 1) = cs[i] /\ at(WordBytes * (i - 1) + 2) = 0
  <2> DEFINE p == WordBytes * (i - 1)
  <2>1. p \in Nat /\ p \div WordBytes = i - 1 /\ p % WordBytes = 0
    <3>1. i - 1 \in Nat /\ 0 \in 0 .. WordBytes - 1 /\ p \in Nat
      BY <1>0
    <3> QED BY <1>0, <3>1, BlockPlace
  <2>2. (p + 1) \div WordBytes = i - 1 /\ (p + 1) % WordBytes = 1
    <3>1. i - 1 \in Nat /\ 1 \in 0 .. WordBytes - 1
      BY <1>0
    <3> QED BY <3>1, BlockPlace
  <2> HIDE DEF p
  <2>3. (p + 1) - 1 = p /\ (p + 2) - 1 = p + 1 /\ (i - 1) + 1 = i
    BY <2>1
  <2>4. at(p + 1) = Word(cs[i], 0)[1] /\ at(p + 2) = Word(cs[i], 0)[2]
    BY <2>1, <2>2, <2>3
  <2>5. Word(cs[i], 0)[1] = cs[i] /\ Word(cs[i], 0)[2] = 0
    BY <1>0 DEF Word
  <2> QED BY <2>4, <2>5 DEF p
<1> HIDE DEF at
<1>5. r \in Seq(Nat) /\ Len(r) = WordBytes * n
  BY <1>0, <1>2, <1>3
<1>6. ASSUME NEW i \in 1 .. n
      PROVE  r[WordBytes * (i - 1) + 1] = cs[i] /\ r[WordBytes * (i - 1) + 2] = 0
  <2> DEFINE p == WordBytes * (i - 1)
  <2>1. p \in Nat /\ p + WordBytes <= WordBytes * n
    BY Blocks
  <2>2. at(p + 1) = cs[i] /\ at(p + 2) = 0
    BY <1>4
  <2> HIDE DEF p, r
  <2>3. p + 1 \in 1 .. WordBytes * n /\ p + 2 \in 1 .. WordBytes * n
    BY <1>0, <2>1
  <2>4. r[p + 1] = at(p + 1) /\ r[p + 2] = at(p + 2)
    BY <1>2, <2>3
  <2> QED BY <2>2, <2>4 DEF p
<1> HIDE DEF r
<1>7. Events(r) = [i \in 1 .. n |-> <<cs[i], FALSE>>]
  <2>1. Len(r) \div WordBytes = n
    BY <1>5, BlockCount
  <2>2. Events(r) = [i \in 1 .. n |->
                       <<r[WordBytes * (i - 1) + 1], r[WordBytes * (i - 1) + 2] = 1>>]
    BY <2>1 DEF Events
  <2>3. \A i \in 1 .. n : <<r[WordBytes * (i - 1) + 1], r[WordBytes * (i - 1) + 2] = 1>>
                          = <<cs[i], FALSE>>
    <3> SUFFICES ASSUME NEW i \in 1 .. n
                 PROVE  r[WordBytes * (i - 1) + 1] = cs[i]
                        /\ (r[WordBytes * (i - 1) + 2] = 1) = FALSE
      BY Zenon
    <3>1. r[WordBytes * (i - 1) + 1] = cs[i] /\ r[WordBytes * (i - 1) + 2] = 0
      BY <1>6
    <3> QED BY <3>1
  <2> QED BY <2>2, <2>3, Zenon
<1>8. CodesFirst(r)
  <2> SUFFICES ASSUME NEW j \in Nat, WordBytes * j + 1 <= Len(r)
               PROVE  r[WordBytes * j + 1] \in Codes
    BY DEF CodesFirst
  <2>1. j < n
    <3>1. WordBytes * j < WordBytes * n /\ WordBytes * j \in Nat
      BY <1>0, <1>5
    <3>2. \A w \in Nat \ {0}, x, y \in Nat : w * x < w * y => x < y
      OBVIOUS
    <3> QED BY <1>0, <3>1, <3>2
  <2>2. j + 1 \in 1 .. n /\ (j + 1) - 1 = j
    BY <2>1
  <2>3. r[WordBytes * j + 1] = cs[j + 1]
    BY <1>6, <2>2
  <2> QED BY <2>2, <2>3
<1> QED BY <1>5, <1>7, <1>8 DEF r

LEMMA OfWord ==
  ASSUME NEW c \in Codes, NEW p \in {0, 1}
  PROVE  /\ Word(c, p) \in Seq(Nat) /\ Len(Word(c, p)) = WordBytes * 1
         /\ Events(Word(c, p)) = << <<c, p = 1>> >>
         /\ CodesFirst(Word(c, p))
<1>0. WordBytes \in Nat /\ WordBytes >= 2 /\ c \in Nat /\ WordBytes * 1 = WordBytes
      /\ WordBytes * (1 - 1) = 0
  BY DisplayAssumption
<1> DEFINE w == Word(c, p)
<1>1. w \in Seq(Nat) /\ Len(w) = WordBytes /\ w[1] = c /\ w[2] = p
  BY <1>0 DEF Word
<1> HIDE DEF w
<1>2. Events(w) = << <<c, p = 1>> >>
  <2>1. Len(w) \div WordBytes = 1
    BY <1>0, <1>1, BlockCount
  <2>2. Events(w) = [i \in 1 .. 1 |->
                       <<w[WordBytes * (i - 1) + 1], w[WordBytes * (i - 1) + 2] = 1>>]
    BY <2>1 DEF Events
  <2>3. \A i \in 1 .. 1 : <<w[WordBytes * (i - 1) + 1], w[WordBytes * (i - 1) + 2] = 1>>
                          = <<c, p = 1>>
    <3> SUFFICES <<w[WordBytes * (1 - 1) + 1], w[WordBytes * (1 - 1) + 2] = 1>> = <<c, p = 1>>
      OBVIOUS
    <3>1. WordBytes * (1 - 1) + 1 = 1 /\ WordBytes * (1 - 1) + 2 = 2
      BY <1>0
    <3> QED BY <1>1, <3>1
  <2>4. Events(w) = [i \in 1 .. 1 |-> <<c, p = 1>>]
    BY <2>2, <2>3, Zenon
  <2> QED BY <2>4
<1>3. CodesFirst(w)
  <2> SUFFICES ASSUME NEW j \in Nat, WordBytes * j + 1 <= Len(w)
               PROVE  w[WordBytes * j + 1] \in Codes
    BY DEF CodesFirst
  <2>1. j = 0
    <3>1. \A x, y \in Nat : y > 0 => x * y >= x
      OBVIOUS
    <3> QED BY <1>0, <1>1, <3>1
  <2>2. WordBytes * j + 1 = 1
    BY <1>0, <2>1
  <2> QED BY <1>1, <2>2
<1> QED BY <1>0, <1>1, <1>2, <1>3 DEF w

-----------------------------------------------------------------------------
(* Whole words whose events lead from one set of pressed codes to another. *)
Carries(bytes, from, to) ==
  /\ bytes \in Seq(Nat) /\ \E k \in Nat : Len(bytes) = WordBytes * k
  /\ CodesFirst(bytes)
  /\ Leads(from, Events(bytes), to)

LEMMA CarriesNothing ==
  ASSUME NEW a \in SUBSET Codes PROVE Carries(<<>>, a, a)
<1>1. Len(<<>>) = WordBytes * 0 /\ WordBytes \in Nat \ {0}
  BY DisplayAssumption
<1>2. Events(<<>>) = <<>>
  BY <1>1 DEF Events
<1>3. CodesFirst(<<>>)
  <2>1. \A w, i \in Nat : w * i + 1 > 0
    OBVIOUS
  <2> QED BY <1>1, <2>1 DEF CodesFirst
<1>4. <<>> \in Seq(Nat) /\ 0 \in Nat
  OBVIOUS
<1> QED BY <1>1, <1>2, <1>3, <1>4, LeadsEmpty DEF Carries

LEMMA CarriesJoin ==
  ASSUME NEW a, NEW b, NEW x, NEW y, NEW z, Carries(a, x, y), Carries(b, y, z)
  PROVE  Carries(a \o b, x, z)
<1>1. PICK m \in Nat : Len(a) = WordBytes * m
  BY DEF Carries
<1>2. PICK n \in Nat : Len(b) = WordBytes * n
  BY DEF Carries
<1>3. a \in Seq(Nat) /\ b \in Seq(Nat)
  BY DEF Carries
<1>4. /\ Events(a) \in Seq(Told) /\ Events(b) \in Seq(Told)
      /\ Events(a \o b) = Events(a) \o Events(b)
      /\ Len(a \o b) = WordBytes * (m + n) /\ m + n \in Nat
  BY <1>1, <1>2, <1>3, EventsJoin
<1>5. Leads(x, Events(a \o b), z)
  <2>1. Leads(x, Events(a), y) /\ Leads(y, Events(b), z)
    BY DEF Carries
  <2>2. Leads(x, Events(a) \o Events(b), z)
    BY <1>4, <2>1, LeadsJoin
  <2> QED BY <1>4, <2>2
<1>6. CodesFirst(a \o b)
  BY <1>1, <1>3, CodesFirstJoin DEF Carries
<1>7. a \o b \in Seq(Nat)
  BY <1>3
<1> QED BY <1>4, <1>5, <1>6, <1>7, Zenon DEF Carries

LEMMA CarriesOn ==
  ASSUME NEW w \in Seq(Nat), NEW b \in Seq(Nat), NEW x, NEW z,
         Len(w) = WordBytes, Carries(w \o b, x, z)
  PROVE  Carries(b, IF w[2] = 1 THEN x \cup {w[1]} ELSE x \ {w[1]}, z)
<1>0. WordBytes \in Nat /\ WordBytes >= 2 /\ WordBytes = WordBytes * 1
      /\ WordBytes * (1 - 1) + 1 = 1 /\ WordBytes * (1 - 1) + 2 = 2
  BY DisplayAssumption
<1>1. PICK k \in Nat : Len(w \o b) = WordBytes * k
  BY DEF Carries
<1>2. Len(w \o b) = WordBytes + Len(b) /\ Len(b) \in Nat
  BY ConcatProperties, LenProperties
<1>3. k >= 1 /\ Len(b) = WordBytes * (k - 1) /\ k - 1 \in Nat
  <2>1. k # 0
    BY <1>0, <1>1, <1>2
  <2>2. \A v, i \in Nat : i # 0 => v * (i - 1) = v * i - v /\ v * i \in Nat
    OBVIOUS
  <2> QED BY <1>0, <1>1, <1>2, <2>1, <2>2
<1>4. /\ Events(w) \in Seq(Told) /\ Len(Events(w)) = 1 /\ Events(b) \in Seq(Told)
      /\ Events(w \o b) = Events(w) \o Events(b)
  <2>1. /\ Events(w) \in Seq(Told) /\ Len(Events(w)) = 1
        /\ Events(w \o b) = Events(w) \o Events(b)
    <3>1. Len(w) = WordBytes * 1 /\ 1 \in Nat
      BY <1>0
    <3>2. PICK n \in Nat : Len(b) = WordBytes * n
      BY <1>3
    <3>3. Events(w) \in Seq(Told) /\ Events(w \o b) = Events(w) \o Events(b)
      BY <3>1, <3>2, EventsJoin
    <3>4. Len(w) \div WordBytes = 1
      BY <1>0
    <3>5. Len(Events(w)) = 1
      BY <3>4 DEF Events
    <3> QED BY <3>3, <3>5
  <2>2. Events(b) \in Seq(Told)
    BY <1>3, EventsJoin
  <2> QED BY <2>1, <2>2
<1>5. Events(w)[1] = <<w[1], w[2] = 1>>
  <2>1. Len(Events(w)) = 1
    BY <1>4
  <2>2. DOMAIN Events(w) = 1 .. Len(w) \div WordBytes
    BY DEF Events
  <2>3. Len(w) \div WordBytes \in Nat
    BY <1>0
  <2>4. 1 \in 1 .. Len(w) \div WordBytes
    BY <1>0
  <2>5. Events(w)[1] = <<w[WordBytes * (1 - 1) + 1], w[WordBytes * (1 - 1) + 2] = 1>>
    BY <2>4 DEF Events
  <2> QED BY <1>0, <2>5
<1> DEFINE e == <<w[1], w[2] = 1>>
<1>6. e \in Told /\ e[1] = w[1] /\ e[2] = (w[2] = 1)
  <2> DEFINE p == (w[2] = 1)
  <2>1. p \in BOOLEAN /\ w[1] \in Nat
    BY <1>0
  <2> HIDE DEF p
  <2>2. <<w[1], p>> \in Told /\ <<w[1], p>>[1] = w[1] /\ <<w[1], p>>[2] = p
    BY <2>1 DEF Told
  <2> QED BY <2>2, Zenon DEF p
<1>7. Events(w) = <<e>>
  <2> DEFINE es == Events(w)
  <2>1. es \in Seq(Told) /\ Len(es) = 1 /\ es[1] = e
    BY <1>4, <1>5
  <2> HIDE DEF es, e
  <2>2. es = <<e>>
    BY <2>1
  <2> QED BY <2>2 DEF es
<1> HIDE DEF e
<1>8. Leads(x, <<e>> \o Events(b), z)
  BY <1>4, <1>7 DEF Carries
<1>9. Leads(IF w[2] = 1 THEN x \cup {w[1]} ELSE x \ {w[1]}, Events(b), z)
  <2>1. Leads(IF e[2] THEN x \cup {e[1]} ELSE x \ {e[1]}, Events(b), z)
    BY <1>4, <1>6, <1>8, LeadsOn
  <2> QED BY <1>6, <2>1
<1>10. CodesFirst(b)
  BY <1>0, CodesFirstJoin DEF Carries
<1> QED BY <1>3, <1>9, <1>10, Zenon DEF Carries

LEMMA CarriesWord ==
  ASSUME NEW a \in SUBSET Codes, NEW c \in Codes
  PROVE  /\ c \notin a => Carries(Word(c, 1), a, a \cup {c})
         /\ c \in a => Carries(Word(c, 0), a, a \ {c})
<1>1. ASSUME NEW p \in {0, 1}, NEW b, Leads(a, << <<c, p = 1>> >>, b)
      PROVE  Carries(Word(c, p), a, b)
  BY <1>1, OfWord, 1 \in Nat, Zenon DEF Carries
<1>2. c \notin a => Leads(a, << <<c, 1 = 1>> >>, a \cup {c})
  BY LeadsByOne
<1>3. c \in a => Leads(a, << <<c, 0 = 1>> >>, a \ {c})
  <2>1. (0 = 1) = FALSE
    OBVIOUS
  <2> QED BY <2>1, LeadsByOne
<1> QED BY <1>1, <1>2, <1>3

LEMMA CarriesReleases ==
  ASSUME NEW S \in SUBSET Codes, NEW cs \in Ascending(S)
  PROVE  Carries(Releases(cs), S, {})
<1>1. IsFiniteSet(S) /\ Cardinality(S) \in Nat
  BY DisplayAssumption, FS_Subset, FS_CardinalityType
<1> DEFINE n == Cardinality(S)
<1>2. /\ cs \in [1 .. n -> Codes] /\ {cs[i] : i \in 1 .. n} = S
      /\ \A i, j \in 1 .. n : i < j => cs[i] < cs[j]
  BY DEF Ascending
<1>3. \A i, j \in 1 .. n : i < j => cs[i] # cs[j]
  <2>1. \A c \in Codes : c \in Nat
    BY DisplayAssumption
  <2> QED BY <1>2, <2>1
<1> HIDE DEF n
<1>4. Leads(S, [i \in 1 .. n |-> <<cs[i], FALSE>>], {})
  BY <1>1, <1>2, <1>3, LeadsToNone DEF n
<1>5. /\ Releases(cs) \in Seq(Nat) /\ Len(Releases(cs)) = WordBytes * n
      /\ Events(Releases(cs)) = [i \in 1 .. n |-> <<cs[i], FALSE>>]
      /\ CodesFirst(Releases(cs)) /\ n \in Nat
  BY <1>1, <1>2, OfReleases DEF n
<1> QED BY <1>4, <1>5, Zenon DEF Carries

-----------------------------------------------------------------------------
(* Bytes and their pieces                                                  *)

LEMMA CutBytes ==
  ASSUME NEW s \in Seq(Nat), NEW n \in 0 .. Len(s)
  PROVE  /\ SubSeq(s, 1, n) \in Seq(Nat) /\ Len(SubSeq(s, 1, n)) = n
         /\ Drop(s, n) \in Seq(Nat) /\ Len(Drop(s, n)) = Len(s) - n
         /\ SubSeq(s, 1, n) \o Drop(s, n) = s
<1> DEFINE a == SubSeq(s, 1, n)
           b == Drop(s, n)
<1>1. Len(s) \in Nat /\ n \in Nat
  OBVIOUS
<1>2. a \in Seq(Nat) /\ Len(a) = n /\ \A i \in 1 .. n : a[i] = s[i]
  BY <1>1, SubSeqProperties
<1>3. b \in Seq(Nat) /\ Len(b) = Len(s) - n /\ \A i \in 1 .. Len(s) - n : b[i] = s[n + i]
  BY <1>1, SubSeqProperties DEF Drop
<1> HIDE DEF a, b
<1>4. a \o b = s
  <2> DEFINE c == a \o b
  <2>1. c \in Seq(Nat) /\ Len(c) = Len(s)
        /\ \A i \in 1 .. Len(s) : c[i] = IF i <= n THEN a[i] ELSE b[i - n]
    <3>1. Len(a) + Len(b) = Len(s) /\ Len(a) = n
      BY <1>1, <1>2, <1>3
    <3>2. c \in Seq(Nat) /\ Len(c) = Len(a) + Len(b)
          /\ \A i \in 1 .. Len(a) + Len(b) :
               c[i] = IF i <= Len(a) THEN a[i] ELSE b[i - Len(a)]
      BY <1>2, <1>3, ConcatProperties
    <3> HIDE DEF c
    <3> QED BY <3>1, <3>2
  <2>2. ASSUME NEW i \in 1 .. Len(s) PROVE c[i] = s[i]
    <3>1. CASE i <= n
      BY <1>1, <1>2, <2>1, <3>1
    <3>2. CASE ~(i <= n)
      <4>1. i - n \in 1 .. Len(s) - n /\ n + (i - n) = i
        BY <1>1, <3>2
      <4>2. c[i] = b[i - n]
        BY <2>1, <3>2
      <4> QED BY <1>3, <4>1, <4>2
    <3> QED BY <3>1, <3>2
  <2> HIDE DEF c
  <2>3. c = s
    BY <2>1, <2>2, SeqEqual
  <2> QED BY <2>3 DEF c
<1> QED BY <1>2, <1>3, <1>4 DEF a, b

LEMMA JoinBytes ==
  \A x, y, z \in Seq(Nat) : x \o y \in Seq(Nat) /\ (x \o y) \o z = x \o (y \o z)
<1>1. \A x, y \in Seq(Nat) : x \o y \in Seq(Nat)
  OBVIOUS
<1>2. \A x, y, z \in Seq(Nat) : (x \o y) \o z = x \o (y \o z)
  OBVIOUS
<1> QED BY <1>1, <1>2, Zenon

-----------------------------------------------------------------------------
(* The invariant of the pipes                                              *)

Streams ==
  /\ keys \in Seq(Nat) /\ keyPipe \in Seq(Nat) /\ partial \in Seq(Nat)
  /\ unsent \in Seq(Nat) /\ framePipe \in Seq(Nat) /\ frame \in Seq(Nat)
  /\ want \in Nat /\ want >= Header

KeysCounted ==
  \A c \in Codes : counts[c] = Cardinality({s \in Scans : held[s] = c})

(* What the simulator can still read begins its words with codes, also     *)
(* when the viewer has died in the middle of one.                          *)
CodesLead == ~Gone("simulator") => CodesFirst(InTransit)

(* While both are there the bytes on their way are whole words.            *)
EventsPaired ==
  Up("viewer") /\ ~Gone("simulator") => Carries(InTransit, down, Pressed)

KeysInv ==
  DisplayTypeOK /\ Streams /\ KeysCounted /\ CodesLead /\ EventsPaired

(* The steps that touch no key.                                            *)
LEMMA KeysUntouched ==
  ASSUME KeysInv, UNCHANGED <<keyState, keys, keyPipe, partial, down, status>>,
         DisplayTypeOK', Streams'
  PROVE  KeysInv'
<1>1. UNCHANGED <<held, counts, keys, keyPipe, partial, down, status>>
  BY DEF keyState
<1>2. KeysCounted'
  BY <1>1 DEF KeysInv, KeysCounted
<1>3. InTransit' = InTransit /\ Pressed' = Pressed /\ down' = down
  BY <1>1 DEF InTransit, Pressed
<1>4. CodesLead'
  BY <1>1, <1>3 DEF KeysInv, CodesLead, Gone
<1>5. EventsPaired'
  BY <1>1, <1>3 DEF KeysInv, EventsPaired, Up, Gone
<1> QED BY <1>2, <1>4, <1>5 DEF KeysInv

LEMMA GotoKeeps ==
  ASSUME KeysInv, NEW s \in {"events", "write", "read"}, Goto(s)
  PROVE  KeysInv'
<1>1. UNCHANGED <<keyState, keys, keyPipe, partial, down, status>>
  BY DEF Goto, simState
<1>2. DisplayTypeOK' /\ Streams'
  BY DEF Goto, KeysInv, DisplayTypeOK, Streams, keyState, frameState, simState
<1> QED BY <1>1, <1>2, KeysUntouched

LEMMA OfReceived ==
  ASSUME DisplayTypeOK, Streams
  PROVE  /\ Received \in Seq(Nat) /\ Len(Received) <= want
         /\ Takes => framePipe' \in Seq(Nat) /\ Len(framePipe') <= FramePipe
<1> DEFINE n == Least(Len(framePipe), want - Len(frame))
           a == SubSeq(framePipe, 1, n)
<1>1. /\ Len(framePipe) \in Nat /\ Len(frame) \in Nat /\ want \in Nat /\ Len(frame) < want
      /\ framePipe \in Seq(Nat) /\ frame \in Seq(Nat)
      /\ Len(framePipe) <= FramePipe /\ FramePipe \in Nat
  BY DisplayAssumption DEF DisplayTypeOK, Streams
<1>2. n \in 0 .. Len(framePipe) /\ n <= want - Len(frame)
  BY <1>1 DEF Least
<1> HIDE DEF n
<1>3. a \in Seq(Nat) /\ Len(a) = n
  BY <1>1, <1>2, CutBytes
<1>4. Drop(framePipe, n) \in Seq(Nat) /\ Len(Drop(framePipe, n)) = Len(framePipe) - n
  BY <1>1, <1>2, CutBytes
<1>5. Received = frame \o a
  BY DEF Received, n
<1> HIDE DEF a
<1>6. Received \in Seq(Nat) /\ Len(Received) = Len(frame) + n
  BY <1>1, <1>3, <1>5, ConcatProperties
<1>7. Len(Received) - Len(frame) = n
  BY <1>1, <1>2, <1>6
<1>8. Takes => framePipe' = Drop(framePipe, n)
  BY <1>7 DEF Takes
<1> QED BY <1>1, <1>2, <1>4, <1>6, <1>8

(* The steps of frames.                                                    *)
FrameStep ==
  \/ ReadPart
  \/ ReadHeader /\ ValidHeader(Received)
  \/ Show \/ FramePipeBroken
  \/ \E size \in FrameSizes : Present(size)
  \/ \E n \in 1 .. Len(unsent) : WriteFrame(n)

LEMMA FramesKeep ==
  ASSUME KeysInv, FrameStep
  PROVE  KeysInv'
<1>0. DisplayTypeOK /\ Streams
  BY DEF KeysInv
<1>1. /\ Received \in Seq(Nat) /\ Len(Received) <= want
      /\ Takes => framePipe' \in Seq(Nat) /\ Len(framePipe') <= FramePipe
  BY <1>0, OfReceived
<1>2. ASSUME UNCHANGED <<keyState, keys, keyPipe, partial, down, status, holding>>,
             stage' \in {"events", "write", "read"}, presented' \in 0 .. MaxFrames,
             Len(frame') < want', Len(framePipe') <= FramePipe, Streams'
      PROVE  KeysInv'
  <2>1. DisplayTypeOK'
    BY <1>0, <1>2 DEF DisplayTypeOK, keyState
  <2> QED BY <1>2, <2>1, KeysUntouched
<1>3. CASE ReadPart
  BY <1>0, <1>1, <1>2, <1>3 DEF ReadPart, DisplayTypeOK, Streams, keyState, simState
<1>4. CASE ReadHeader /\ ValidHeader(Received)
  <2>1. /\ frame' = Received /\ want' = Header + Received[2] /\ Takes
        /\ Len(Received) = Header /\ Received[2] \in FrameSizes
        /\ UNCHANGED <<keyState, keys, shown, stage, simState, keyPipe, status, holding>>
    BY <1>4 DEF ReadHeader, ValidHeader
  <2>2. Received[2] \in Nat \ {0}
    BY <2>1, DisplayAssumption
  <2>3. frame' \in Seq(Nat) /\ want' \in Nat /\ want' >= Header /\ Len(frame') < want'
    BY <1>1, <2>1, <2>2 DEF Header
  <2>4. Streams'
    BY <1>0, <1>1, <2>1, <2>3 DEF Streams, simState
  <2>5. /\ stage' \in {"events", "write", "read"} /\ presented' \in 0 .. MaxFrames
        /\ Len(framePipe') <= FramePipe
        /\ UNCHANGED <<keyState, keys, keyPipe, partial, down, status, holding>>
    BY <1>0, <1>1, <2>1 DEF DisplayTypeOK, simState
  <2> QED BY <1>2, <2>3, <2>4, <2>5
<1>5. CASE Show
  <2>1. /\ frame' = <<>> /\ want' = Header /\ Takes /\ stage' = "events"
        /\ UNCHANGED <<keyState, keys, simState, keyPipe, status, holding>>
    BY <1>5 DEF Show
  <2>2. <<>> \in Seq(Nat) /\ Len(<<>>) = 0
    OBVIOUS
  <2> QED BY <1>0, <1>1, <1>2, <2>1, <2>2
          DEF DisplayTypeOK, Streams, keyState, simState, Header
<1>6. CASE FramePipeBroken
  BY <1>0, <1>2, <1>6 DEF FramePipeBroken, DisplayTypeOK, Streams, viewerState, keyState, frameState
<1>7. CASE \E size \in FrameSizes : Present(size)
  <2>1. PICK size \in FrameSizes : Present(size)
    BY <1>7
  <2>2. size \in Nat /\ presented' \in 0 .. MaxFrames /\ presented' \in Nat
    BY <1>0, <2>1, DisplayAssumption DEF Present, DisplayTypeOK
  <2>3. <<Magic, size>> \o [i \in 1 .. size |-> presented'] \in Seq(Nat)
    <3>1. <<Magic, size>> \in Seq(Nat) /\ [i \in 1 .. size |-> presented'] \in Seq(Nat)
      BY <2>2 DEF Magic
    <3> QED BY <3>1, ConcatProperties
  <2>4. unsent' \in Seq(Nat)
        /\ UNCHANGED <<viewerState, partial, down, framePipe, keyPipe, status, holding>>
    BY <2>1, <2>3 DEF Present
  <2> QED BY <1>0, <1>2, <2>2, <2>4
          DEF DisplayTypeOK, Streams, viewerState, keyState, frameState
<1>8. CASE \E n \in 1 .. Len(unsent) : WriteFrame(n)
  <2>1. PICK n \in 1 .. Len(unsent) : WriteFrame(n)
    BY <1>8
  <2>2. /\ unsent' = Drop(unsent, n) /\ framePipe' = framePipe \o SubSeq(unsent, 1, n)
        /\ Len(framePipe) + n <= FramePipe
        /\ UNCHANGED <<viewerState, partial, down, presented, keyPipe, status, holding>>
    BY <2>1 DEF WriteFrame
  <2>3. unsent \in Seq(Nat) /\ framePipe \in Seq(Nat) /\ n \in 0 .. Len(unsent)
    BY <1>0 DEF Streams
  <2>4. /\ SubSeq(unsent, 1, n) \in Seq(Nat) /\ Len(SubSeq(unsent, 1, n)) = n
        /\ unsent' \in Seq(Nat)
    BY <2>2, <2>3, CutBytes
  <2>5. framePipe' \in Seq(Nat) /\ Len(framePipe') = Len(framePipe) + n
    BY <2>2, <2>3, <2>4, ConcatProperties
  <2> QED BY <1>0, <1>2, <2>2, <2>4, <2>5
          DEF DisplayTypeOK, Streams, viewerState, keyState, frameState
<1> QED BY <1>3, <1>4, <1>5, <1>6, <1>7, <1>8 DEF FrameStep

-----------------------------------------------------------------------------
(* The steps of keys                                                       *)

LEMMA WriteKeysKeeps ==
  ASSUME KeysInv, NEW n \in 1 .. Len(keys), WriteKeys(n)
  PROVE  KeysInv'
<1>1. /\ keyPipe' = keyPipe \o SubSeq(keys, 1, n) /\ keys' = Drop(keys, n)
      /\ Len(keyPipe) + n <= KeyPipe
      /\ UNCHANGED <<held, counts, typed, frame, want, shown, stage, unsent, partial, down,
                     presented, framePipe, status, holding>>
  BY DEF WriteKeys, keyState, frameState, simState
<1>2. /\ keys \in Seq(Nat) /\ keyPipe \in Seq(Nat) /\ partial \in Seq(Nat)
      /\ n \in 0 .. Len(keys)
  BY DEF KeysInv, Streams
<1> DEFINE a == SubSeq(keys, 1, n)
           b == Drop(keys, n)
<1>3. a \in Seq(Nat) /\ Len(a) = n /\ b \in Seq(Nat) /\ a \o b = keys
  BY <1>2, CutBytes
<1> HIDE DEF a, b
<1>4. keyPipe' = keyPipe \o a /\ keys' = b
  BY <1>1 DEF a, b
<1>5. keyPipe' \in Seq(Nat) /\ Len(keyPipe') = Len(keyPipe) + n /\ keys' \in Seq(Nat)
  BY <1>2, <1>3, <1>4, ConcatProperties
<1>6. InTransit' = InTransit
  <2>1. partial \o (keyPipe \o a) = (partial \o keyPipe) \o a /\ partial \o keyPipe \in Seq(Nat)
    BY <1>2, <1>3, JoinBytes, Zenon
  <2>2. ((partial \o keyPipe) \o a) \o b = (partial \o keyPipe) \o (a \o b)
    BY <1>3, <2>1, JoinBytes, Zenon
  <2>3. InTransit' = (partial \o (keyPipe \o a)) \o b
    BY <1>1, <1>4 DEF InTransit
  <2> QED BY <1>3, <2>1, <2>2, <2>3 DEF InTransit
<1>7. DisplayTypeOK'
  BY <1>1, <1>5 DEF KeysInv, DisplayTypeOK
<1>8. Streams'
  BY <1>1, <1>5 DEF KeysInv, Streams
<1>9. KeysCounted' /\ Pressed' = Pressed
  BY <1>1 DEF KeysInv, KeysCounted, Pressed
<1>10. CodesLead'
  BY <1>1, <1>6 DEF KeysInv, CodesLead, Gone
<1>11. EventsPaired'
  BY <1>1, <1>6, <1>9 DEF KeysInv, EventsPaired, Up, Gone
<1> QED BY <1>7, <1>8, <1>9, <1>10, <1>11 DEF KeysInv

(* What a window event adds leads from what was pressed to what is.        *)
LEMMA EventKeeps ==
  ASSUME KeysInv, Event, NEW bytes \in Seq(Nat), keys' = keys \o bytes,
         Carries(bytes, Pressed, Pressed'), KeysCounted',
         held' \in [Scans -> Codes \cup {None}], counts' \in [Codes -> Nat]
  PROVE  KeysInv'
<1>1. /\ Up("viewer") /\ typed' = typed + 1 /\ typed < MaxEvents
      /\ UNCHANGED <<frame, want, shown, stage, unsent, partial, down, presented,
                     framePipe, keyPipe, status, holding>>
  BY DEF Event, frameState, simState
<1>2. keys \in Seq(Nat) /\ keyPipe \in Seq(Nat) /\ partial \in Seq(Nat)
      /\ partial \o keyPipe \in Seq(Nat)
  BY ConcatProperties DEF KeysInv, Streams
<1>3. keys' \in Seq(Nat)
  BY <1>2, ConcatProperties
<1>4. InTransit' = InTransit \o bytes
  <2>1. ((partial \o keyPipe) \o keys) \o bytes = (partial \o keyPipe) \o (keys \o bytes)
    BY <1>2, JoinBytes, Zenon
  <2> QED BY <1>1, <2>1 DEF InTransit
<1>5. EventsPaired'
  <2> SUFFICES ASSUME Up("viewer")', ~Gone("simulator")'
               PROVE  Carries(InTransit', down', Pressed')
    BY DEF EventsPaired
  <2>1. Carries(InTransit, down, Pressed)
    BY <1>1 DEF KeysInv, EventsPaired, Gone
  <2>2. Carries(InTransit \o bytes, down, Pressed')
    BY <2>1, CarriesJoin
  <2> QED BY <1>1, <1>4, <2>2
<1>6. CodesLead'
  BY <1>1, <1>5 DEF CodesLead, EventsPaired, Carries, Up, Gone
<1>7. counts' \in [Codes -> 0 .. Cardinality(Scans)]
  <2>1. \A c \in Codes : counts'[c] \in 0 .. Cardinality(Scans)
    <3> SUFFICES ASSUME NEW c \in Codes PROVE counts'[c] \in 0 .. Cardinality(Scans)
      OBVIOUS
    <3> DEFINE S == {s \in Scans : held'[s] = c}
    <3>1. S \in SUBSET Scans
      OBVIOUS
    <3> HIDE DEF S
    <3>2. Cardinality(S) \in Nat /\ Cardinality(S) <= Cardinality(Scans)
          /\ Cardinality(Scans) \in Nat
      BY <3>1, DisplayAssumption, FS_Subset, FS_CardinalityType
    <3> QED BY <3>2 DEF KeysCounted, S
  <2> QED BY <2>1
<1>8. DisplayTypeOK'
  BY <1>1, <1>7, DisplayAssumption DEF KeysInv, DisplayTypeOK
<1>9. Streams'
  BY <1>1, <1>3 DEF KeysInv, Streams
<1> QED BY <1>5, <1>6, <1>8, <1>9 DEF KeysInv

LEMMA KeyDownKeeps ==
  ASSUME KeysInv, NEW s \in Scans, NEW c \in Codes, KeyDown(s, c)
  PROVE  KeysInv'
<1>1. /\ Event /\ held[s] = None /\ held' = [held EXCEPT ![s] = c]
      /\ counts' = [counts EXCEPT ![c] = @ + 1]
      /\ keys' = IF counts[c] = 0 THEN keys \o Word(c, 1) ELSE keys
  BY DEF KeyDown
<1>2. /\ held \in [Scans -> Codes \cup {None}] /\ counts \in [Codes -> Nat]
      /\ keys \in Seq(Nat) /\ c # None /\ None \notin Codes
  BY DisplayAssumption DEF KeysInv, DisplayTypeOK, Streams, None
<1>3. held' \in [Scans -> Codes \cup {None}] /\ counts' \in [Codes -> Nat]
  BY <1>1, <1>2
<1>4. KeysCounted'
  <2> SUFFICES ASSUME NEW x \in Codes
               PROVE  counts'[x] = Cardinality({t \in Scans : held'[t] = x})
    BY DEF KeysCounted
  <2> DEFINE S == {t \in Scans : held[t] = x}
             T == {t \in Scans : held'[t] = x}
  <2>1. counts[x] = Cardinality(S)
    BY DEF KeysInv, KeysCounted
  <2>2. CASE x = c
    <3>1. T = S \cup {s} /\ s \notin S /\ S \in SUBSET Scans
      BY <1>1, <1>2, <2>2
    <3> HIDE DEF S, T
    <3>2. IsFiniteSet(S)
      BY <3>1, DisplayAssumption, FS_Subset
    <3>3. Cardinality(T) = Cardinality(S) + 1
      BY <3>1, <3>2, FS_AddElement
    <3>4. counts'[x] = counts[x] + 1
      BY <1>1, <1>2, <2>2
    <3> QED BY <2>1, <3>3, <3>4 DEF T
  <2>3. CASE x # c
    <3>1. T = S
      BY <1>1, <1>2, <2>3
    <3>2. counts'[x] = counts[x]
      BY <1>1, <1>2, <2>3
    <3> QED BY <2>1, <3>1, <3>2
  <2> QED BY <2>2, <2>3
<1>5. Pressed \in SUBSET Codes
  BY DEF Pressed
<1>6. CASE counts[c] = 0
  <2>1. c \notin Pressed /\ Pressed' = Pressed \cup {c}
    BY <1>1, <1>2, <1>6 DEF Pressed
  <2>2. Carries(Word(c, 1), Pressed, Pressed')
    BY <1>5, <2>1, CarriesWord
  <2>3. Word(c, 1) \in Seq(Nat) /\ keys' = keys \o Word(c, 1)
    BY <1>1, <1>6, <2>2 DEF Carries
  <2> QED BY <1>1, <1>3, <1>4, <2>2, <2>3, EventKeeps
<1>7. CASE counts[c] # 0
  <2>1. Pressed' = Pressed
    BY <1>1, <1>2, <1>7 DEF Pressed
  <2>2. Carries(<<>>, Pressed, Pressed')
    BY <1>5, <2>1, CarriesNothing
  <2>3. <<>> \in Seq(Nat) /\ keys' = keys \o <<>>
    BY <1>1, <1>2, <1>7, ConcatEmptySeq
  <2> QED BY <1>1, <1>3, <1>4, <2>2, <2>3, EventKeeps
<1> QED BY <1>6, <1>7

LEMMA KeyUpKeeps ==
  ASSUME KeysInv, NEW s \in Scans, KeyUp(s)
  PROVE  KeysInv'
<1>0. held \in [Scans -> Codes \cup {None}] /\ held[s] # None
  BY DEF KeysInv, DisplayTypeOK, KeyUp
<1> DEFINE k == held[s]
<1>1. /\ Event /\ held' = [held EXCEPT ![s] = None]
      /\ counts' = [counts EXCEPT ![k] = @ - 1]
      /\ keys' = IF counts[k] = 1 THEN keys \o Word(k, 0) ELSE keys
      /\ k \in Codes
  BY <1>0 DEF KeyUp
<1> HIDE DEF k
<1>2. /\ counts \in [Codes -> Nat] /\ keys \in Seq(Nat) /\ None \notin Codes
  BY DisplayAssumption DEF KeysInv, DisplayTypeOK, Streams, None
<1> DEFINE R == {t \in Scans : held[t] = k}
<1>3. counts[k] = Cardinality(R) /\ s \in R /\ R \in SUBSET Scans
  BY <1>1 DEF KeysInv, KeysCounted, k
<1> HIDE DEF R
<1>4. IsFiniteSet(R)
  BY <1>3, DisplayAssumption, FS_Subset
<1>5. Cardinality(R \ {s}) = counts[k] - 1 /\ Cardinality(R \ {s}) \in Nat
  BY <1>3, <1>4, FS_RemoveElement, FS_CardinalityType
<1>6. held' \in [Scans -> Codes \cup {None}] /\ counts' \in [Codes -> Nat]
  BY <1>0, <1>1, <1>2, <1>5
<1>7. KeysCounted'
  <2> SUFFICES ASSUME NEW x \in Codes
               PROVE  counts'[x] = Cardinality({t \in Scans : held'[t] = x})
    BY DEF KeysCounted
  <2> DEFINE T == {t \in Scans : held'[t] = x}
  <2>2. CASE x = k
    <3>1. T = R \ {s}
      BY <1>0, <1>1, <1>2, <2>2 DEF R
    <3>2. counts'[x] = counts[k] - 1
      BY <1>1, <1>2, <2>2
    <3> QED BY <1>5, <3>1, <3>2
  <2>3. CASE x # k
    <3>1. T = {t \in Scans : held[t] = x}
      BY <1>0, <1>1, <1>2, <2>3 DEF k
    <3>2. counts'[x] = counts[x]
      BY <1>1, <1>2, <2>3
    <3> QED BY <3>1, <3>2 DEF KeysInv, KeysCounted
  <2> QED BY <2>2, <2>3
<1>8. Pressed \in SUBSET Codes
  BY DEF Pressed
<1>9. counts[k] \in Nat /\ counts[k] # 0
  BY <1>1, <1>2, <1>5
<1>10. CASE counts[k] = 1
  <2>1. k \in Pressed /\ Pressed' = Pressed \ {k}
    BY <1>1, <1>2, <1>10 DEF Pressed
  <2>2. Carries(Word(k, 0), Pressed, Pressed')
    BY <1>1, <1>8, <2>1, CarriesWord
  <2>3. Word(k, 0) \in Seq(Nat) /\ keys' = keys \o Word(k, 0)
    BY <1>1, <1>10, <2>2 DEF Carries
  <2> QED BY <1>1, <1>6, <1>7, <2>2, <2>3, EventKeeps
<1>11. CASE counts[k] # 1
  <2>1. Pressed' = Pressed
    BY <1>1, <1>2, <1>9, <1>11 DEF Pressed
  <2>2. Carries(<<>>, Pressed, Pressed')
    BY <1>8, <2>1, CarriesNothing
  <2>3. <<>> \in Seq(Nat) /\ keys' = keys \o <<>>
    BY <1>1, <1>2, <1>11, ConcatEmptySeq
  <2> QED BY <1>1, <1>6, <1>7, <2>2, <2>3, EventKeeps
<1> QED BY <1>10, <1>11

LEMMA FocusLostKeeps ==
  ASSUME KeysInv, FocusLost
  PROVE  KeysInv'
<1>1. PICK cs \in Ascending(Pressed) : keys' = keys \o Releases(cs)
  BY DEF FocusLost
<1>2. /\ Event /\ counts' = [c \in Codes |-> 0] /\ held' = [s \in Scans |-> None]
  BY DEF FocusLost
<1>3. Pressed \in SUBSET Codes /\ Pressed' = {}
  BY <1>2 DEF Pressed
<1>4. Carries(Releases(cs), Pressed, Pressed')
  BY <1>3, CarriesReleases
<1>5. KeysCounted'
  <2> SUFFICES ASSUME NEW x \in Codes
               PROVE  counts'[x] = Cardinality({t \in Scans : held'[t] = x})
    BY DEF KeysCounted
  <2>1. {t \in Scans : held'[t] = x} = {}
    BY <1>2, DisplayAssumption DEF None
  <2> QED BY <1>2, <2>1, FS_EmptySet
<1>6. /\ held' \in [Scans -> Codes \cup {None}] /\ counts' \in [Codes -> Nat]
      /\ Releases(cs) \in Seq(Nat)
  BY <1>2, <1>4 DEF Carries
<1> QED BY <1>1, <1>2, <1>4, <1>5, <1>6, EventKeeps

(* pollKey() takes what the pipe has of an event.                          *)
LEMMA PollKeeps ==
  ASSUME KeysInv, PollKey, ~(Len(Assembled) < WordBytes) => ValidEvent(Assembled)
  PROVE  KeysInv'
<1>0. DisplayTypeOK /\ Streams /\ Up("simulator") /\ ~Gone("simulator")
  BY DEF KeysInv, PollKey, Running, Up, Gone
<1>1. /\ keyPipe' = Drop(keyPipe, Len(Assembled) - Len(partial))
      /\ partial' = Kept(Assembled)
      /\ down' = IF Len(Assembled) < WordBytes THEN down
                 ELSE IF Assembled[2] = 1 THEN down \cup {Assembled[1]}
                 ELSE down \ {Assembled[1]}
      /\ UNCHANGED <<held, counts, typed, keys, frame, want, shown, stage, unsent, presented,
                     framePipe, status, holding>>
  BY DEF PollKey, viewerState, keyState, frameState
<1>2. /\ keys \in Seq(Nat) /\ keyPipe \in Seq(Nat) /\ partial \in Seq(Nat)
      /\ Len(keyPipe) \in Nat /\ Len(partial) \in Nat /\ Len(partial) < WordBytes
      /\ WordBytes \in Nat /\ WordBytes >= 2
      /\ Len(keyPipe) <= KeyPipe /\ KeyPipe \in Nat
  BY <1>0, DisplayAssumption DEF DisplayTypeOK, Streams
<1> DEFINE n == Least(Len(keyPipe), WordBytes - Len(partial))
           a == SubSeq(keyPipe, 1, n)
           b == Drop(keyPipe, n)
           w == Assembled
<1>3. n \in 0 .. Len(keyPipe) /\ n <= WordBytes - Len(partial)
  BY <1>2 DEF Least
<1> HIDE DEF n
<1>4. /\ a \in Seq(Nat) /\ Len(a) = n /\ b \in Seq(Nat) /\ Len(b) = Len(keyPipe) - n
      /\ a \o b = keyPipe
  BY <1>2, <1>3, CutBytes
<1>5. w = partial \o a
  BY DEF Assembled, n
<1> HIDE DEF a, b, w
<1>6. w \in Seq(Nat) /\ Len(w) = Len(partial) + n /\ Len(w) <= WordBytes
  <2>1. partial \o a \in Seq(Nat) /\ Len(partial \o a) = Len(partial) + Len(a)
    BY <1>2, <1>4, ConcatProperties
  <2> QED BY <1>2, <1>3, <1>4, <1>5, <2>1
<1>7. keyPipe' = b
  <2>1. Len(w) - Len(partial) = n
    BY <1>2, <1>3, <1>6
  <2> QED BY <1>1, <2>1 DEF b, w
<1>8. w \o b = partial \o keyPipe
  BY <1>2, <1>4, <1>5, JoinBytes
<1>9. InTransit = w \o (b \o keys) /\ b \o keys \in Seq(Nat)
  <2>1. (w \o b) \o keys = w \o (b \o keys) /\ b \o keys \in Seq(Nat)
    <3>1. w \in Seq(Nat) /\ b \in Seq(Nat) /\ keys \in Seq(Nat)
      BY <1>2, <1>4, <1>6
    <3> QED BY <3>1, JoinBytes, Zenon
  <2>2. InTransit = (w \o b) \o keys
    BY <1>8 DEF InTransit
  <2> QED BY <2>1, <2>2, Zenon
<1>10. KeysCounted' /\ Pressed' = Pressed
  BY <1>1 DEF KeysInv, KeysCounted, Pressed
<1>11. UNCHANGED <<Up("viewer"), Gone("simulator")>>
  BY <1>1 DEF Up, Gone
<1>12. CodesFirst(InTransit)
  BY <1>0 DEF KeysInv, CodesLead
<1>13. CASE Len(w) < WordBytes
  <2>1. partial' = w /\ down' = down
    BY <1>1, <1>13 DEF Kept, w
  <2>2. InTransit' = InTransit
    BY <1>1, <1>7, <1>8, <2>1 DEF InTransit
  <2>3. DisplayTypeOK'
    <3>1. Len(partial') < WordBytes /\ Len(keyPipe') <= KeyPipe
      BY <1>2, <1>3, <1>4, <1>7, <1>13, <2>1
    <3> QED BY <1>0, <1>1, <2>1, <3>1 DEF DisplayTypeOK
  <2>4. Streams'
    BY <1>0, <1>1, <1>4, <1>6, <1>7, <2>1 DEF Streams
  <2>5. CodesLead' /\ EventsPaired'
    BY <1>10, <1>11, <2>1, <2>2 DEF KeysInv, CodesLead, EventsPaired
  <2> QED BY <1>10, <2>3, <2>4, <2>5 DEF KeysInv
<1>14. CASE ~(Len(w) < WordBytes)
  <2>0. Len(w) = WordBytes /\ Len(w) = WordBytes * 1 /\ 1 \in Nat
    BY <1>2, <1>6, <1>14
  <2>1. partial' = <<>>
        /\ down' = IF w[2] = 1 THEN down \cup {w[1]} ELSE down \ {w[1]}
    BY <1>1, <1>14 DEF Kept, w
  <2>2. InTransit' = b \o keys
    <3>1. <<>> \o b = b
      BY <1>4, ConcatEmptySeq
    <3> QED BY <1>1, <1>7, <2>1, <3>1 DEF InTransit
  <2>3. w[1] \in Codes
    <3>1. CodesFirst(w)
      BY <1>6, <1>9, <1>12, CodesFirstPrefix
    <3>2. WordBytes * 0 + 1 <= Len(w) => w[WordBytes * 0 + 1] \in Codes
      BY <3>1 DEF CodesFirst
    <3>3. WordBytes * 0 + 1 = 1
      BY <1>2
    <3> QED BY <1>2, <2>0, <3>2, <3>3
  <2>4. down' \subseteq Codes
    BY <1>0, <2>1, <2>3 DEF DisplayTypeOK
  <2>5. DisplayTypeOK'
    <3>1. Len(partial') < WordBytes /\ Len(keyPipe') <= KeyPipe
      BY <1>2, <1>3, <1>4, <1>7, <2>1
    <3> QED BY <1>0, <1>1, <2>4, <3>1 DEF DisplayTypeOK
  <2>6. Streams'
    <3>1. partial' \in Seq(Nat) /\ keyPipe' \in Seq(Nat)
      BY <1>4, <1>7, <2>1
    <3> QED BY <1>0, <1>1, <3>1 DEF Streams
  <2>7. CodesLead'
    <3>1. CodesFirst(b \o keys)
      BY <1>6, <1>9, <1>12, <2>0, CodesFirstJoin
    <3> QED BY <2>2, <3>1 DEF CodesLead
  <2>8. EventsPaired'
    <3> SUFFICES ASSUME Up("viewer")' PROVE Carries(InTransit', down', Pressed')
      BY DEF EventsPaired
    <3>1. Carries(w \o (b \o keys), down, Pressed)
      BY <1>0, <1>9, <1>11 DEF KeysInv, EventsPaired
    <3>2. Carries(b \o keys, IF w[2] = 1 THEN down \cup {w[1]} ELSE down \ {w[1]}, Pressed)
      BY <1>6, <1>9, <2>0, <3>1, CarriesOn
    <3> QED BY <1>10, <2>1, <2>2, <3>2
  <2> QED BY <1>10, <2>5, <2>6, <2>7, <2>8 DEF KeysInv
<1> QED BY <1>13, <1>14

(* A process that ends breaks nothing of what is left for the other.       *)
LEMMA EndsKeeps ==
  ASSUME KeysInv, NEW p \in Procs, NEW s \in {"ok", "closed", "failed"}, Up(p), Ends(p, s)
  PROVE  KeysInv'
<1>0. DisplayTypeOK /\ Streams
  BY DEF KeysInv
<1>1. /\ status' = [status EXCEPT ![p] = s] /\ holding' = holding
      /\ framePipe' \in {framePipe, <<>>} /\ keyPipe' \in {keyPipe, <<>>}
      /\ (\E q \in Procs \ {p} : ~Gone(q)) => keyPipe' = keyPipe
  BY DEF Ends
<1>2. <<>> \in Seq(Nat) /\ Len(<<>>) = 0
  OBVIOUS
<1>3. /\ framePipe' \in Seq(Nat) /\ Len(framePipe') <= FramePipe
      /\ keyPipe' \in Seq(Nat) /\ Len(keyPipe') <= KeyPipe
  <2>1. /\ framePipe \in Seq(Nat) /\ Len(framePipe) <= FramePipe /\ 0 <= FramePipe
        /\ keyPipe \in Seq(Nat) /\ Len(keyPipe) <= KeyPipe /\ 0 <= KeyPipe
    BY <1>0, DisplayAssumption DEF DisplayTypeOK, Streams
  <2>2. framePipe' \in Seq(Nat) /\ Len(framePipe') <= FramePipe
    BY <1>1, <1>2, <2>1
  <2>3. keyPipe' \in Seq(Nat) /\ Len(keyPipe') <= KeyPipe
    BY <1>1, <1>2, <2>1
  <2> QED BY <2>2, <2>3
<1>4. status' \in [Procs -> {"none", "up", "ok", "closed", "failed"}]
  BY <1>0, <1>1 DEF DisplayTypeOK
<1>5. CASE p = "viewer"
  <2>1. /\ held' = [t \in Scans |-> None] /\ counts' = [c \in Codes |-> 0] /\ typed' = 0
        /\ keys' = <<>> /\ frame' = <<>> /\ want' = Header /\ stage' = "events"
        /\ UNCHANGED <<unsent, partial, down, presented>>
    BY <1>5 DEF Ends, ViewerGone, simState
  <2>2. KeysCounted'
    <3> SUFFICES ASSUME NEW x \in Codes
                 PROVE  counts'[x] = Cardinality({t \in Scans : held'[t] = x})
      BY DEF KeysCounted
    <3>1. {t \in Scans : held'[t] = x} = {}
      BY <2>1, DisplayAssumption DEF None
    <3> QED BY <2>1, <3>1, FS_EmptySet
  <2>3. counts' \in [Codes -> 0 .. Cardinality(Scans)]
    BY <2>1, DisplayAssumption, FS_CardinalityType
  <2>4. DisplayTypeOK'
    <3>1. held' \in [Scans -> Codes \cup {None}] /\ typed' \in 0 .. MaxEvents
          /\ Len(frame') < want'
      BY <1>2, <2>1, DisplayAssumption DEF Header
    <3> QED BY <1>0, <1>1, <1>3, <1>4, <2>1, <2>3, <3>1 DEF DisplayTypeOK
  <2>5. Streams'
    BY <1>0, <1>2, <1>3, <2>1 DEF Streams, Header
  <2>6. EventsPaired'
    BY <1>0, <1>1, <1>5 DEF EventsPaired, Up, DisplayTypeOK, Procs
  <2>7. CodesLead'
    <3> SUFFICES ASSUME ~Gone("simulator")' PROVE CodesFirst(InTransit')
      BY DEF CodesLead
    <3>1. ~Gone("simulator") /\ keyPipe' = keyPipe
      BY <1>0, <1>1, <1>5 DEF Gone, DisplayTypeOK, Procs
    <3>2. CodesFirst((partial \o keyPipe) \o keys) /\ partial \o keyPipe \in Seq(Nat)
          /\ keys \in Seq(Nat)
      BY <1>0, <3>1, JoinBytes DEF KeysInv, CodesLead, InTransit, Streams
    <3>3. CodesFirst(partial \o keyPipe)
      BY <3>2, CodesFirstPrefix
    <3>4. InTransit' = partial \o keyPipe
      BY <2>1, <3>1, <3>2, ConcatEmptySeq DEF InTransit
    <3> QED BY <3>3, <3>4
  <2> QED BY <2>2, <2>4, <2>5, <2>6, <2>7 DEF KeysInv
<1>6. CASE p = "simulator"
  <2>1. /\ unsent' = <<>> /\ partial' = <<>> /\ down' = {} /\ presented' = 0
        /\ UNCHANGED <<held, counts, typed, keys, frame, want, shown, stage>>
    BY <1>6 DEF Ends, SimulatorGone, viewerState, keyState, frameState
  <2>2. KeysCounted'
    BY <2>1 DEF KeysInv, KeysCounted
  <2>3. DisplayTypeOK'
    <3>1. Len(partial') < WordBytes /\ presented' \in 0 .. MaxFrames /\ down' \subseteq Codes
      BY <1>2, <2>1, DisplayAssumption
    <3> QED BY <1>0, <1>1, <1>3, <1>4, <2>1, <3>1 DEF DisplayTypeOK
  <2>4. Streams'
    BY <1>0, <1>2, <1>3, <2>1 DEF Streams
  <2>5. Gone("simulator")'
    BY <1>0, <1>1, <1>6 DEF Gone, DisplayTypeOK, Procs
  <2> QED BY <2>2, <2>3, <2>4, <2>5 DEF KeysInv, CodesLead, EventsPaired
<1> QED BY <1>5, <1>6 DEF Procs

LEMMA KeysInvLink ==
  ASSUME KeysInv, LinkNext PROVE KeysInv'
<1>1. ASSUME NEW p \in Procs, NEW s \in {"ok", "closed", "failed"}, Up(p), Ends(p, s)
      PROVE  KeysInv'
  BY <1>1, EndsKeeps
<1>2. CASE \E s \in Scans, c \in Codes : KeyDown(s, c)
  BY <1>2, KeyDownKeeps
<1>3. CASE \E s \in Scans : KeyUp(s)
  BY <1>3, KeyUpKeeps
<1>4. CASE FocusLost
  BY <1>4, FocusLostKeeps
<1>5. CASE CloseWindow \/ TooManyKeys \/ KeyPipeBroken \/ EndOfFile
  BY <1>1, <1>5 DEF CloseWindow, TooManyKeys, KeyPipeBroken, EndOfFile, Procs
<1>6. CASE NoMoreEvents \/ NoMoreWrites \/ NothingToRead
  BY <1>6, GotoKeeps DEF NoMoreEvents, NoMoreWrites, NothingToRead
<1>7. CASE \E n \in 1 .. Len(keys) : WriteKeys(n)
  BY <1>7, WriteKeysKeeps
<1>8. CASE ReadHeader
  <2>1. CASE ValidHeader(Received)
    BY <1>8, <2>1, FramesKeep DEF FrameStep
  <2>2. CASE ~ValidHeader(Received)
    BY <1>1, <1>8, <2>2 DEF ReadHeader, Procs
  <2> QED BY <2>1, <2>2
<1>9. CASE ReadPart
  BY <1>9, FramesKeep DEF FrameStep
<1>15. CASE Show
  BY <1>15, FramesKeep DEF FrameStep
<1>16. CASE FramePipeBroken
  BY <1>16, FramesKeep DEF FrameStep
<1>10. CASE \E size \in FrameSizes : Present(size)
  BY <1>10, FramesKeep DEF FrameStep
<1>11. CASE \E n \in 1 .. Len(unsent) : WriteFrame(n)
  BY <1>11, FramesKeep DEF FrameStep
<1>12. CASE PollKey
  <2>1. CASE Len(Assembled) < WordBytes \/ ValidEvent(Assembled)
    BY <1>12, <2>1, PollKeeps
  <2>2. CASE ~(Len(Assembled) < WordBytes \/ ValidEvent(Assembled))
    BY <1>1, <1>12, <2>2 DEF PollKey, Running, Procs
  <2> QED BY <2>1, <2>2
<1>13. CASE Exits
  BY <1>1, <1>13 DEF Exits, Running, Procs
<1>14. CASE \E p \in Procs : Dies(p)
  BY <1>1, <1>14 DEF Dies
<1> QED
  BY <1>2, <1>3, <1>4, <1>5, <1>6, <1>7, <1>8, <1>9, <1>10, <1>11, <1>12, <1>13, <1>14,
     <1>15, <1>16
  DEF LinkNext

-----------------------------------------------------------------------------
(* The launcher starts each process once, on empty pipes                   *)

NotBegun ==
  /\ pc = "viewer" => /\ status = [p \in Procs |-> "none"]
                      /\ keys = <<>> /\ keyPipe = <<>> /\ partial = <<>> /\ down = {}
                      /\ Pressed = {}
  /\ pc = "simulator" => status["simulator"] = "none"

LEMMA LinkNeedsProcess == LinkNext => \E p \in Procs : Up(p)
BY DEF LinkNext, KeyDown, KeyUp, FocusLost, Event, CloseWindow, TooManyKeys, NoMoreEvents,
       WriteKeys, NoMoreWrites, KeyPipeBroken, ReadPart, ReadHeader, Show, NothingToRead,
       EndOfFile, Present, WriteFrame, FramePipeBroken, PollKey, Exits, Running, Dies, Procs

LEMMA KeysInvStarts == LauncherInit => KeysInv /\ NotBegun
<1> SUFFICES ASSUME LauncherInit PROVE KeysInv /\ NotBegun
  OBVIOUS
<1> USE DEF LauncherInit, DisplayInit
<1>1. <<>> \in Seq(Nat) /\ Len(<<>>) = 0
  OBVIOUS
<1>2. Cardinality(Scans) \in Nat
  BY DisplayAssumption, FS_CardinalityType
<1>3. DisplayTypeOK
  BY <1>1, <1>2, DisplayAssumption DEF DisplayTypeOK, Header
<1>4. Streams
  BY <1>1 DEF Streams, Header
<1>5. KeysCounted
  <2> SUFFICES ASSUME NEW x \in Codes
               PROVE  counts[x] = Cardinality({t \in Scans : held[t] = x})
    BY DEF KeysCounted
  <2>1. {t \in Scans : held[t] = x} = {}
    BY DisplayAssumption DEF None
  <2> QED BY <2>1, FS_EmptySet
<1>6. InTransit = <<>> /\ Pressed = {}
  BY <1>1 DEF InTransit, Pressed
<1>7. Carries(InTransit, {}, {})
  BY <1>6, CarriesNothing
<1>8. CodesLead /\ EventsPaired
  BY <1>6, <1>7 DEF CodesLead, EventsPaired, Carries
<1> QED BY <1>3, <1>4, <1>5, <1>6, <1>8 DEF KeysInv, NotBegun

(* A step of the launcher that ends no process.                            *)
LEMMA LauncherKeeps ==
  ASSUME KeysInv, NotBegun, UNCHANGED linkState, holding' \in BOOLEAN,
         pc' \in {"viewer", "simulator"} => pc' = "simulator" /\ pc = "viewer" /\
                                            status' = [status EXCEPT !["viewer"] = "up"],
         \/ UNCHANGED status
         \/ pc \in Procs /\ status' = [status EXCEPT ![pc] = "up"]
  PROVE  KeysInv' /\ NotBegun'
<1>0. status \in [Procs -> {"none", "up", "ok", "closed", "failed"}]
  BY DEF KeysInv, DisplayTypeOK
<1>1. /\ status' \in [Procs -> {"none", "up", "ok", "closed", "failed"}]
      /\ UNCHANGED <<held, counts, typed, keys, frame, want, shown, stage, unsent, partial,
                     down, presented, framePipe, keyPipe>>
  BY <1>0 DEF linkState, viewerState, keyState, frameState, simState, Procs
<1>2. DisplayTypeOK' /\ Streams' /\ KeysCounted'
  BY <1>1 DEF KeysInv, DisplayTypeOK, Streams, KeysCounted
<1>3. InTransit' = InTransit /\ Pressed' = Pressed /\ down' = down
  BY <1>1 DEF InTransit, Pressed
<1>4. ~Gone("simulator")' => ~Gone("simulator")
  BY <1>0 DEF NotBegun, Gone, Procs
<1>5. CodesLead'
  BY <1>3, <1>4 DEF KeysInv, CodesLead
<1>6. EventsPaired'
  <2> SUFFICES ASSUME Up("viewer")', ~Gone("simulator")'
               PROVE  Carries(InTransit, down, Pressed)
    BY <1>3 DEF EventsPaired
  <2>1. CASE Up("viewer")
    BY <1>4, <2>1 DEF KeysInv, EventsPaired
  <2>2. CASE ~Up("viewer")
    <3>1. pc = "viewer"
      BY <1>0, <2>2 DEF Up, Procs
    <3>2. down = {} /\ Pressed = {} /\ InTransit = <<>>
      BY <3>1 DEF NotBegun, InTransit
    <3> QED BY <3>2, CarriesNothing
  <2> QED BY <2>1, <2>2
<1>7. NotBegun'
  BY <1>0 DEF NotBegun, Procs
<1> QED BY <1>2, <1>5, <1>6, <1>7 DEF KeysInv

LEMMA KeysInvNext ==
  LauncherInv /\ KeysInv /\ NotBegun /\ [LauncherNext]_lvars => KeysInv' /\ NotBegun'
<1> SUFFICES ASSUME LauncherInv, KeysInv, NotBegun, [LauncherNext]_lvars
             PROVE  KeysInv' /\ NotBegun'
  OBVIOUS
<1>0. /\ pc \in Pcs /\ target \in Procs /\ holding \in BOOLEAN
      /\ status \in [Procs -> {"none", "up", "ok", "closed", "failed"}]
  BY DEF LauncherInv, Shape, KeysInv, DisplayTypeOK
<1>1. CASE LinkNext /\ UNCHANGED launcherState
  <2>1. KeysInv'
    BY <1>1, KeysInvLink
  <2>2. pc' = pc /\ \E p \in Procs : Up(p)
    BY <1>1, LinkNeedsProcess DEF launcherState
  <2>3. pc # "viewer"
    BY <2>2 DEF NotBegun, Up
  <2>4. pc = "simulator" => status'["simulator"] = "none"
    <3>1. Standing
      BY <1>1, LinkStands
    <3> QED BY <1>0, <3>1 DEF Standing, NotBegun, Up, Procs
  <2> QED BY <2>1, <2>2, <2>3, <2>4 DEF NotBegun
<1>2. CASE SpawnViewer
  <2>1. /\ UNCHANGED linkState /\ holding' \in BOOLEAN /\ pc = "viewer"
        /\ \/ UNCHANGED status /\ pc' = "stop"
           \/ pc' = "simulator" /\ status' = [status EXCEPT !["viewer"] = "up"]
    BY <1>0, <1>2 DEF SpawnViewer, Spawn, Cleanup
  <2> QED BY <2>1, LauncherKeeps DEF Procs
<1>3. CASE SpawnSimulator
  <2>1. /\ UNCHANGED linkState /\ holding' \in BOOLEAN /\ pc = "simulator"
        /\ \/ UNCHANGED status /\ pc' = "stop"
           \/ pc' = "close" /\ status' = [status EXCEPT !["simulator"] = "up"]
    BY <1>0, <1>3 DEF SpawnSimulator, Spawn, Cleanup
  <2> QED BY <2>1, LauncherKeeps DEF Procs
<1>4. CASE CloseEnds \/ ClearEnds
  <2>1. /\ UNCHANGED <<linkState, status>> /\ holding' \in BOOLEAN
        /\ pc' \in {"clear", "watch"}
    BY <1>0, <1>4 DEF CloseEnds, ClearEnds
  <2> QED BY <2>1, LauncherKeeps
<1>5. CASE FirstEnds \/ GraceEnds \/ Stop
  <2>1. /\ UNCHANGED <<linkState, status>> /\ holding' \in BOOLEAN
        /\ pc' \in {"grace", "stop", "terminated", "gone"}
    BY <1>0, <1>5 DEF FirstEnds, GraceEnds, Stop, Cleanup, NextTarget
  <2> QED BY <2>1, LauncherKeeps
<1>6. CASE StopEnds
  <2>1. pc' \in {"stop", "gone"}
    BY <1>6 DEF StopEnds, NextTarget
  <2>2. CASE Up(target)
    <3>1. Ends(target, "failed")
      BY <1>6, <2>2 DEF StopEnds
    <3>2. KeysInv'
      BY <1>0, <2>2, <3>1, EndsKeeps
    <3> QED BY <2>1, <3>2 DEF NotBegun
  <2>3. CASE ~Up(target)
    <3>1. UNCHANGED <<linkState, status>> /\ holding' \in BOOLEAN
      BY <1>0, <1>6, <2>3 DEF StopEnds, dvars, linkState
    <3> QED BY <2>1, <3>1, LauncherKeeps
  <2> QED BY <2>2, <2>3
<1>7. CASE Interrupt
  <2>1. /\ UNCHANGED linkState /\ holding' \in BOOLEAN /\ pc' \in {"gone", "stop"}
    BY <1>0, <1>7 DEF Interrupt, Cleanup
  <2>2. \/ UNCHANGED status
        \/ pc \in Procs /\ status' = [status EXCEPT ![pc] = "up"]
    BY <1>7, Zenon DEF Interrupt
  <2> QED BY <2>1, <2>2, LauncherKeeps
<1>8. CASE UNCHANGED lvars
  <2>1. UNCHANGED <<linkState, status, holding, pc>>
    BY <1>8 DEF lvars, dvars, launcherState, linkState
  <2>2. UNCHANGED <<held, counts, typed, keys, frame, want, shown, stage, unsent, partial,
                    down, presented, framePipe, keyPipe, status, holding, pc>>
    BY <2>1 DEF linkState, viewerState, keyState, frameState, simState
  <2>3. DisplayTypeOK' /\ Streams'
    BY <2>2 DEF KeysInv, DisplayTypeOK, Streams
  <2>4. KeysInv'
    BY <2>2, <2>3, KeysUntouched DEF keyState
  <2> QED BY <2>2, <2>4 DEF NotBegun, Pressed
<1> QED
  BY <1>1, <1>2, <1>3, <1>4, <1>5, <1>6, <1>7, <1>8 DEF LauncherNext, LauncherStep

(* However presses, releases, shared codes and lost focus follow each      *)
(* other in doom/viewer.cpp, and however writes and reads cut their words  *)
(* into pieces, each event on its way changes what the guest will believe, *)
(* and all of them together lead from what pollKey() of sim/display.h has  *)
(* told it to what is pressed.                                             *)
THEOREM KeysAlwaysPaired == LauncherSpec => []KeysPaired
<1>1. KeysInv => KeysPaired
  BY DEF KeysInv, KeysCounted, EventsPaired, Carries, KeysPaired
<1> QED BY <1>1, LauncherInvStarts, LauncherInvNext, KeysInvStarts, KeysInvNext, PTL
        DEF LauncherSpec
=============================================================================
