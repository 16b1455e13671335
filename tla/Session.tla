------------------------------ MODULE Session ------------------------------
(***************************************************************************)
(* What the display promises the guest and its user: whole frames arrive   *)
(* in the order they were presented, whole key events in the order they    *)
(* happened.  Only the end of a process loses any.                         *)
(***************************************************************************)
EXTENDS Sequences, SequencesExt

CONSTANTS Frames,      \* the pictures a guest may present
          Codes        \* key codes

VARIABLES frames,      \* presented, not yet shown
          shown,       \* the frame in the window
          events,      \* key events, <<code, pressed>>, not yet polled
          down,        \* the codes that polling reported as pressed
          status       \* of "simulator" and "viewer"

vars == <<frames, shown, events, down, status>>

Up(p) == status[p] = "up"

SessionInit ==
  /\ frames = <<>> /\ shown = <<>> /\ events = <<>> /\ down = {}
  /\ status = [p \in {"simulator", "viewer"} |-> "none"]

Start(p) ==
  /\ status[p] = "none"
  /\ status' = [status EXCEPT ![p] = "up"]
  /\ UNCHANGED <<frames, shown, events, down>>

(* A simulator without a viewer presents to nobody.                        *)
Present(f) ==
  /\ Up("simulator")
  /\ frames' = Append(frames, f)
  /\ UNCHANGED <<shown, events, down, status>>

Show ==
  /\ Up("viewer") /\ frames # <<>>
  /\ shown' = Head(frames) /\ frames' = Tail(frames)
  /\ UNCHANGED <<events, down, status>>

(* One event, or the releases that losing the focus brings.                *)
Type ==
  /\ Up("viewer")
  /\ events' # events /\ IsPrefix(events, events')
  /\ UNCHANGED <<frames, shown, down, status>>

Poll ==
  /\ Up("simulator") /\ events # <<>>
  /\ down' = IF Head(events)[2] THEN down \cup {Head(events)[1]}
             ELSE down \ {Head(events)[1]}
  /\ events' = Tail(events)
  /\ UNCHANGED <<frames, shown, status>>

(* A simulator that finishes has handed over every frame; one that is      *)
(* stopped may lose the frame it is writing.                               *)
SimulatorEnds(s) ==
  /\ Up("simulator")
  /\ status' = [status EXCEPT !["simulator"] = s]
  /\ events' = <<>>
  /\ \/ frames' = frames
     \/ s # "ok" /\ frames # <<>> /\ frames' = Front(frames)
  /\ down' = {}
  /\ UNCHANGED shown

ViewerEnds(s) ==
  /\ Up("viewer")
  /\ status' = [status EXCEPT !["viewer"] = s]
  /\ frames' = <<>> /\ shown' = <<>>
  /\ IsPrefix(events', events)
  /\ UNCHANGED down

SessionNext ==
  \/ \E p \in {"simulator", "viewer"} : Start(p)
  \/ \E f \in Frames : Present(f)
  \/ Show \/ Type \/ Poll
  \/ \E s \in {"ok", "closed", "failed"} : SimulatorEnds(s) \/ ViewerEnds(s)

SessionSpec == SessionInit /\ [][SessionNext]_vars
=============================================================================
