---------------------------- MODULE DisplayLink ----------------------------
(***************************************************************************)
(* The window of a running guest: syscalls 6 and 7 (sim/display.h), the    *)
(* two pipes, and the loop of doom/viewer.cpp.                             *)
(*                                                                         *)
(* Kept: the key state of the viewer and its queue, each write that takes  *)
(* part of what it was given, the frame and the event assembled across     *)
(* reads, end of file and broken pipes, the order of the viewer's loop.    *)
(* The pipes themselves are external: bounded, any part of a write fits.   *)
(*                                                                         *)
(* Abstracted: a byte is one of WordBytes pieces of a key event, one of    *)
(* two pieces of a frame's header (magic, dimensions) or a pixel.  Key     *)
(* codes are any a keyboard's modifiers may give a scan code.  Rendering   *)
(* may fail and a process may be stopped from outside at any time.         *)
(***************************************************************************)
EXTENDS Integers, Sequences, FiniteSets

CONSTANTS Scans, Codes,        \* scan codes; the key codes they may stand for
          WordBytes,           \* pieces of a key event
          FrameSizes,          \* width * height
          FramePipe, KeyPipe,  \* capacities of the pipes
          MaxKeys,             \* the viewer's limit on queued bytes (65536)
          MaxFrames,           \* bound on presented frames
          MaxEvents            \* bound on window events

ASSUME DisplayAssumption ==
  /\ IsFiniteSet(Scans) /\ IsFiniteSet(Codes)
  /\ Codes \subseteq Nat \ {0, 1} /\ WordBytes \in Nat \ {0, 1}
  /\ FrameSizes \subseteq Nat \ {0}
  /\ FramePipe \in Nat \ {0} /\ KeyPipe \in Nat \ {0}
  /\ MaxKeys \in Nat /\ MaxFrames \in Nat /\ MaxEvents \in Nat

VARIABLES held, counts,        \* what is pressed: held[scan], counts[code]
          keys,                \* bytes of key events to be written
          frame, want,         \* bytes of the frame being read; its size
          shown,               \* the pixels in the window
          stage,               \* where the viewer's loop is
          typed,               \* window events so far
          unsent,              \* rest of the packet present() is writing
          partial,             \* display::partialKey, keyBytes of it
          down,                \* codes the guest was told are pressed
          presented,           \* frames so far
          framePipe, keyPipe,  \* bytes inside the pipes
          status,              \* of each process
          holding              \* has the launcher its pipe ends still open?

keyState    == <<held, counts, typed>>
frameState  == <<frame, want, shown>>
viewerState == <<keyState, keys, frameState, stage>>
simState    == <<unsent, partial, down, presented>>
dvars == <<viewerState, simState, framePipe, keyPipe, status, holding>>

Procs == {"simulator", "viewer"}
Up(p) == status[p] = "up"
Gone(p) == status[p] \notin {"none", "up"}
Magic == 1
Header == 2
None == 0

DisplayInit ==
  /\ held = [s \in Scans |-> None] /\ counts = [c \in Codes |-> 0] /\ typed = 0
  /\ keys = <<>> /\ frame = <<>> /\ want = Header /\ shown = <<>> /\ stage = "events"
  /\ unsent = <<>> /\ partial = <<>> /\ down = {} /\ presented = 0
  /\ framePipe = <<>> /\ keyPipe = <<>>
  /\ status = [p \in Procs |-> "none"] /\ holding = TRUE

(* A pipe has a reader, or a writer, while a process that has that end is  *)
(* there; the launcher has every end until it closes its copies.           *)
Open(p) == holding \/ Up(p)

(* A process ends and takes its memory along, the last one the pipes too.  *)
ViewerGone ==
  /\ held' = [s \in Scans |-> None] /\ counts' = [c \in Codes |-> 0] /\ typed' = 0
  /\ keys' = <<>> /\ frame' = <<>> /\ want' = Header /\ shown' = <<>> /\ stage' = "events"
  /\ UNCHANGED simState

SimulatorGone ==
  /\ unsent' = <<>> /\ partial' = <<>> /\ down' = {} /\ presented' = 0
  /\ UNCHANGED viewerState

Ends(p, s) ==
  /\ status' = [status EXCEPT ![p] = s]
  /\ IF p = "viewer" THEN ViewerGone ELSE SimulatorGone
  /\ IF \A q \in Procs \ {p} : Gone(q) THEN framePipe' = <<>> /\ keyPipe' = <<>>
     ELSE UNCHANGED <<framePipe, keyPipe>>
  /\ UNCHANGED holding
-----------------------------------------------------------------------------
(* The viewer: window events *)

Word(c, pressed) ==
  [b \in 1 .. WordBytes |-> CASE b = 1 -> c [] b = 2 -> pressed [] OTHER -> 0]

Event ==
  /\ Up("viewer") /\ stage = "events" /\ typed < MaxEvents
  /\ typed' = typed + 1
  /\ UNCHANGED <<frameState, stage, simState, framePipe, keyPipe, status, holding>>

(* A scan code held already, an auto-repeat or a key without a code is     *)
(* ignored.                                                                *)
KeyDown(s, c) ==
  /\ Event
  /\ held[s] = None
  /\ held' = [held EXCEPT ![s] = c]
  /\ counts' = [counts EXCEPT ![c] = @ + 1]
  /\ keys' = IF counts[c] = 0 THEN keys \o Word(c, 1) ELSE keys

BugKeyUp(s) ==
  /\ Event
  /\ held[s] # None
  /\ held' = [held EXCEPT ![s] = None]
  /\ counts' = [counts EXCEPT ![held[s]] = @ - 1]
  /\ keys' = keys \o Word(held[s], 0)

KeyUp(s) ==
  /\ Event
  /\ held[s] # None
  /\ held' = [held EXCEPT ![s] = None]
  /\ counts' = [counts EXCEPT ![held[s]] = @ - 1]
  /\ keys' = IF counts[held[s]] = 1 THEN keys \o Word(held[s], 0) ELSE keys

Pressed == {c \in Codes : counts[c] > 0}

(* The codes of S as a pass over the array meets them.                     *)
Ascending(S) ==
  {q \in [1 .. Cardinality(S) -> S] :
     /\ {q[i] : i \in DOMAIN q} = S
     /\ \A i, j \in DOMAIN q : i < j => q[i] < q[j]}

Releases(cs) ==
  [b \in 1 .. WordBytes * Len(cs) |->
     Word(cs[((b - 1) \div WordBytes) + 1], 0)[((b - 1) % WordBytes) + 1]]

FocusLost ==
  /\ Event
  /\ Pressed # {}
  /\ \E cs \in Ascending(Pressed) : keys' = keys \o Releases(cs)
  /\ counts' = [c \in Codes |-> 0]
  /\ held' = [s \in Scans |-> None]

(* Q, Ctrl-C or the window's close button.                                 *)
CloseWindow == Up("viewer") /\ stage = "events" /\ Ends("viewer", "closed")

TooManyKeys ==
  Up("viewer") /\ stage = "events" /\ Len(keys) > MaxKeys /\ Ends("viewer", "failed")

Goto(next) ==
  /\ stage' = next
  /\ UNCHANGED <<keyState, keys, frameState, simState, framePipe, keyPipe, status, holding>>

NoMoreEvents ==
  Up("viewer") /\ stage = "events" /\ Len(keys) <= MaxKeys /\ Goto("write")
-----------------------------------------------------------------------------
(* The viewer: its pipes, both nonblocking *)

Least(a, b) == IF a < b THEN a ELSE b
Drop(s, n) == SubSeq(s, n + 1, Len(s))

WriteKeys(n) ==
  /\ Up("viewer") /\ stage = "write" /\ Open("simulator")
  /\ n <= Len(keys) /\ Len(keyPipe) + n <= KeyPipe
  /\ keyPipe' = keyPipe \o SubSeq(keys, 1, n)
  /\ keys' = Drop(keys, n)
  /\ UNCHANGED <<keyState, frameState, stage, simState, framePipe, status, holding>>

(* Everything is written, or the pipe has no room (EAGAIN).                *)
NoMoreWrites ==
  /\ Up("viewer") /\ stage = "write"
  /\ keys # <<>> => Open("simulator") /\ Len(keyPipe) + Len(keys) > KeyPipe
  /\ Goto("read")

(* EPIPE: the loop ends before it reads frames again.                      *)
KeyPipeBroken ==
  /\ Up("viewer") /\ stage = "write" /\ keys # <<>> /\ ~Open("simulator")
  /\ Ends("viewer", "ok")

Pixels(packet) == Drop(packet, Header)

(* A read takes what is there, up to the end of the header or frame.       *)
Received ==
  frame \o SubSeq(framePipe, 1, Least(Len(framePipe), want - Len(frame)))

Takes == framePipe' = Drop(framePipe, Len(Received) - Len(frame))

ReadPart ==
  /\ Up("viewer") /\ stage = "read" /\ framePipe # <<>> /\ Len(Received) < want
  /\ frame' = Received /\ Takes
  /\ UNCHANGED <<keyState, keys, want, shown, stage, simState, keyPipe, status, holding>>

ValidHeader(packet) == packet[1] = Magic /\ packet[2] \in FrameSizes

ReadHeader ==
  /\ Up("viewer") /\ stage = "read" /\ framePipe # <<>>
  /\ want = Header /\ Len(Received) = Header
  /\ IF ValidHeader(Received)
     THEN /\ frame' = Received /\ want' = Header + Received[2] /\ Takes
          /\ UNCHANGED <<keyState, keys, shown, stage, simState, keyPipe, status, holding>>
     ELSE Ends("viewer", "failed")

BugShow ==
  /\ Up("viewer") /\ stage = "read" /\ framePipe # <<>>
  /\ want > Header /\ Len(Received) > Header
  /\ shown' = Pixels(Received) /\ frame' = <<>> /\ want' = Header /\ Takes
  /\ stage' = "events"
  /\ UNCHANGED <<keyState, keys, simState, keyPipe, status, holding>>

(* At most one frame per turn of the loop.                                 *)
Show ==
  /\ Up("viewer") /\ stage = "read" /\ framePipe # <<>>
  /\ want > Header /\ Len(Received) = want
  /\ shown' = Pixels(Received) /\ frame' = <<>> /\ want' = Header /\ Takes
  /\ stage' = "events"
  /\ UNCHANGED <<keyState, keys, simState, keyPipe, status, holding>>

NothingToRead ==
  /\ Up("viewer") /\ stage = "read" /\ framePipe = <<>> /\ Open("simulator")
  /\ Goto("events")

BugEndOfFile ==
  /\ Up("viewer") /\ stage = "read" /\ ~Open("simulator")
  /\ Ends("viewer", IF frame = <<>> THEN "ok" ELSE "failed")

EndOfFile ==
  /\ Up("viewer") /\ stage = "read" /\ framePipe = <<>> /\ ~Open("simulator")
  /\ Ends("viewer", IF frame = <<>> THEN "ok" ELSE "failed")
-----------------------------------------------------------------------------
(* The simulator: syscalls 6 and 7 *)

Running == Up("simulator") /\ unsent = <<>>

(* present(): the n-th frame has n in every pixel.                         *)
Present(size) ==
  /\ Running /\ presented < MaxFrames
  /\ presented' = presented + 1
  /\ unsent' = <<Magic, size>> \o [i \in 1 .. size |-> presented']
  /\ UNCHANGED <<viewerState, partial, down, framePipe, keyPipe, status, holding>>

(* The write blocks until it is done, unless the viewer has gone.          *)
WriteFrame(n) ==
  /\ Up("simulator") /\ Open("viewer")
  /\ n <= Len(unsent) /\ Len(framePipe) + n <= FramePipe
  /\ framePipe' = framePipe \o SubSeq(unsent, 1, n)
  /\ unsent' = Drop(unsent, n)
  /\ UNCHANGED <<viewerState, partial, down, presented, keyPipe, status, holding>>

FramePipeBroken ==
  /\ Up("simulator") /\ unsent # <<>> /\ ~Open("viewer")
  /\ unsent' = <<>>
  /\ UNCHANGED <<viewerState, partial, down, presented, framePipe, keyPipe, status, holding>>

Assembled == partial \o SubSeq(keyPipe, 1, Least(Len(keyPipe), WordBytes - Len(partial)))

ValidEvent(word) == word[2] \in {0, 1} /\ \A b \in 3 .. WordBytes : word[b] = 0

(* Bytes of an incomplete event wait for the next call.                    *)
Kept(bytes) == IF Len(bytes) < WordBytes THEN bytes ELSE <<>>

(* pollKey(): an incomplete event is "no event".                           *)
PollKey ==
  /\ Running /\ keyPipe # <<>>
  /\ IF Len(Assembled) < WordBytes \/ ValidEvent(Assembled)
     THEN /\ keyPipe' = Drop(keyPipe, Len(Assembled) - Len(partial))
          /\ partial' = Kept(Assembled)
          /\ down' = IF Len(Assembled) < WordBytes THEN down
                     ELSE IF Assembled[2] = 1 THEN down \cup {Assembled[1]}
                     ELSE down \ {Assembled[1]}
          /\ UNCHANGED <<viewerState, unsent, presented, framePipe, status, holding>>
     ELSE Ends("simulator", "failed")

(* The guest exits.                                                        *)
Exits == Running /\ Ends("simulator", "ok")

(* A signal, a spent budget, a failed check or a failing window system.    *)
Dies(p) == Up(p) /\ Ends(p, "failed")

LinkNext ==
  \/ \E s \in Scans, c \in Codes : KeyDown(s, c)
  \/ \E s \in Scans : KeyUp(s)
  \/ FocusLost \/ CloseWindow \/ TooManyKeys \/ NoMoreEvents
  \/ \E n \in 1 .. Len(keys) : WriteKeys(n)
  \/ NoMoreWrites \/ KeyPipeBroken
  \/ ReadPart \/ ReadHeader \/ Show \/ NothingToRead \/ EndOfFile
  \/ \E size \in FrameSizes : Present(size)
  \/ \E n \in 1 .. Len(unsent) : WriteFrame(n)
  \/ FramePipeBroken \/ PollKey \/ Exits
  \/ \E p \in Procs : Dies(p)
-----------------------------------------------------------------------------
(* Properties *)

DisplayTypeOK ==
  /\ held \in [Scans -> Codes \cup {None}] /\ counts \in [Codes -> 0 .. Cardinality(Scans)]
  /\ stage \in {"events", "write", "read"}
  /\ status \in [Procs -> {"none", "up", "ok", "closed", "failed"}] /\ holding \in BOOLEAN
  /\ down \subseteq Codes
  /\ Len(partial) < WordBytes /\ Len(frame) < want
  /\ Len(keyPipe) <= KeyPipe /\ Len(framePipe) <= FramePipe
  /\ presented \in 0 .. MaxFrames /\ typed \in 0 .. MaxEvents

(* The key events on their way, and the whole frames in a stream of bytes. *)
InTransit == partial \o keyPipe \o keys

Events(bytes) ==
  [i \in 1 .. Len(bytes) \div WordBytes |->
     <<bytes[WordBytes * (i - 1) + 1], bytes[WordBytes * (i - 1) + 2] = 1>>]

Packets(bytes) ==
  LET from[i \in 1 .. Len(bytes) + 1] ==
        IF i + 1 > Len(bytes) \/ i + 1 + bytes[i + 1] > Len(bytes) THEN <<>>
        ELSE <<SubSeq(bytes, i + Header, i + 1 + bytes[i + 1])>> \o from[i + Header + bytes[i + 1]]
  IN  from[1]

(* The sets of codes a guest believes pressed while it takes the events    *)
(* es, when each of them tells it something it did not know.               *)
Follows(told, es) ==
  \A i \in 1 .. Len(es) :
    LET c == es[i][1] IN
    IF es[i][2] THEN c \notin told[i - 1] /\ told[i] = told[i - 1] \cup {c}
    ELSE c \in told[i - 1] /\ told[i] = told[i - 1] \ {c}

Leads(from, es, to) ==
  \E told \in [0 .. Len(es) -> SUBSET Codes] :
    told[0] = from /\ told[Len(es)] = to /\ Follows(told, es)

(* "delivers real key-down and key-up events, supports held and            *)
(* simultaneous keys, and releases held keys when focus is lost"           *)
(* (doom/README.md): each event on its way presses a code that is up or    *)
(* releases one that is down, and together they lead from what the guest   *)
(* was told to what is pressed now, whichever scan codes share a code.  So *)
(* no key sticks and none is released twice.                               *)
KeysPaired ==
  /\ DisplayTypeOK
  /\ \A c \in Codes : counts[c] = Cardinality({s \in Scans : held[s] = c})
  /\ Up("viewer") /\ ~Gone("simulator") =>
       Leads(down, Events(InTransit), Pressed)

(* Frames reach the window and events the guest whole, in order, each      *)
(* once, however reads and writes are cut into pieces and whichever end    *)
(* goes first.                                                             *)
Whole == INSTANCE Session WITH
  Frames <- {[i \in 1 .. size |-> n] : size \in FrameSizes, n \in 1 .. MaxFrames},
  frames <- IF Gone("viewer") THEN <<>> ELSE Packets(frame \o framePipe \o unsent),
  events <- IF Gone("simulator") THEN <<>> ELSE Events(InTransit)
RefinesSession == Whole!SessionSpec

(* "EOF lets the viewer show the last complete frame and exit"             *)
(* (doom/run.py): when a viewer with no key events to write exits without  *)
(* an error after a simulator that finished, it has shown every frame.     *)
(* With events still queued it meets the broken pipe first and does not.   *)
LastFrameShown ==
  [][Up("viewer") /\ status'["viewer"] = "ok" /\ status["simulator"] = "ok" /\ keys = <<>>
     => Packets(frame \o framePipe) = <<>>]_dvars
=============================================================================
