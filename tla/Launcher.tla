------------------------------ MODULE Launcher ------------------------------
(***************************************************************************)
(* doom/run.py from its pipes on: it starts viewer and simulator, waits    *)
(* for whichever ends first, gives the viewer a grace period, and cleans   *)
(* up.  A timeout may expire whenever the launcher waits with one.  The    *)
(* processes are those of DisplayLink, which may hang at any point.        *)
(***************************************************************************)
EXTENDS DisplayLink

CONSTANT MaxInterrupts   \* bound on SIGINT and SIGTERM

ASSUME LauncherAssumption == MaxInterrupts \in Nat

VARIABLES pc,            \* where the launcher is
          known,         \* the processes its variables name
          target,        \* the process being stopped
          code,          \* its exit status
          interrupts,    \* signals so far
          untimely       \* did one arrive outside the waits?

launcherState == <<pc, known, target, code, interrupts, untimely>>
lvars == <<dvars, launcherState>>
linkState == <<viewerState, simState, framePipe, keyPipe>>

LauncherInit ==
  /\ DisplayInit
  /\ pc = "viewer" /\ known = {} /\ target = "simulator" /\ code = 0
  /\ interrupts = 0 /\ untimely = FALSE

Alive(p) == p \in known /\ Up(p)     \* poll() is None
ExitCode(p) == IF status[p] = "failed" THEN 1 ELSE 0

(* The finally clause: pipe ends that are still listed are closed, and the *)
(* processes are looked at in turn.                                        *)
Cleanup ==
  pc' = "stop" /\ target' = "simulator" /\ holding' = FALSE

(* Popen of the viewer, then of the simulator; it may fail.                *)
Spawn(p, next) ==
  /\ \/ /\ status' = [status EXCEPT ![p] = "up"] /\ known' = known \cup {p}
        /\ pc' = next
        /\ UNCHANGED <<target, code, holding>>
     \/ /\ Cleanup
        /\ code' = 1
        /\ UNCHANGED <<status, known>>
  /\ UNCHANGED <<linkState, interrupts, untimely>>

SpawnViewer    == pc = "viewer" /\ Spawn("viewer", "simulator")
SpawnSimulator == pc = "simulator" /\ Spawn("simulator", "close")

CloseEnds ==
  /\ pc = "close"
  /\ holding' = FALSE
  /\ pc' = "clear"
  /\ UNCHANGED <<linkState, status, known, target, code, interrupts, untimely>>

ClearEnds ==
  /\ pc = "clear"
  /\ pc' = "watch"
  /\ UNCHANGED <<linkState, status, holding, known, target, code, interrupts, untimely>>

(* One of the two has ended.  Both may have by now.                        *)
FirstEnds ==
  /\ pc = "watch" /\ \E p \in Procs : Gone(p)
  /\ IF Alive("simulator")
     THEN code' = ExitCode("viewer") /\ Cleanup
     ELSE /\ code' = ExitCode("simulator") /\ pc' = "grace"
          /\ UNCHANGED <<target, holding>>
  /\ UNCHANGED <<linkState, status, known, interrupts, untimely>>

BugGraceEnds ==
  /\ pc = "grace" /\ Gone("viewer")
  /\ code' = IF code # 0 THEN code ELSE ExitCode("viewer")
  /\ Cleanup
  /\ UNCHANGED <<linkState, status, known, interrupts, untimely>>

(* viewer.wait(timeout=3)                                                  *)
GraceEnds ==
  /\ pc = "grace"
  /\ code' = IF code # 0 THEN code
             ELSE IF Gone("viewer") THEN ExitCode("viewer") ELSE 1
  /\ Cleanup
  /\ UNCHANGED <<linkState, status, known, interrupts, untimely>>

NextTarget ==
  IF target = "simulator" THEN pc' = "stop" /\ target' = "viewer"
  ELSE pc' = "gone" /\ UNCHANGED target

(* terminate() is a request; see Dies.                                     *)
Stop ==
  /\ pc = "stop"
  /\ IF Alive(target) THEN pc' = "terminated" /\ UNCHANGED target ELSE NextTarget
  /\ UNCHANGED <<linkState, status, holding, known, code, interrupts, untimely>>

BugStopEnds ==
  /\ pc = "terminated"
  /\ NextTarget
  /\ UNCHANGED <<linkState, holding, status, known, code, interrupts, untimely>>

(* wait(timeout=3), and kill() when it expires.                            *)
StopEnds ==
  /\ pc = "terminated"
  /\ IF Up(target) THEN Ends(target, "failed") ELSE UNCHANGED dvars
  /\ NextTarget
  /\ UNCHANGED <<known, code, interrupts, untimely>>

(* KeyboardInterrupt.  While the launcher waits it leads to the cleanup.   *)
(* Inside Popen it leaves a process that no variable names; after the      *)
(* ends were closed but are still listed, closing them again fails, and    *)
(* inside the cleanup it ends the cleanup.                                 *)
Interrupt ==
  /\ pc # "gone" /\ interrupts < MaxInterrupts
  /\ interrupts' = interrupts + 1
  /\ code' = 130
  /\ untimely' = (untimely \/ pc \notin {"watch", "grace"})
  /\ IF pc \in {"clear", "stop", "terminated"}
     THEN pc' = "gone" /\ UNCHANGED <<target, holding>>
     ELSE Cleanup
  /\ \/ pc \in Procs /\ status' = [status EXCEPT ![pc] = "up"]
     \/ UNCHANGED status
  /\ UNCHANGED <<linkState, known>>

LauncherStep ==
  \/ SpawnViewer \/ SpawnSimulator \/ CloseEnds \/ ClearEnds
  \/ FirstEnds \/ GraceEnds \/ Stop \/ StopEnds

LauncherNext ==
  \/ LinkNext /\ UNCHANGED launcherState
  \/ LauncherStep
  \/ Interrupt

(* The launcher runs and its timeouts expire.  Viewer and simulator may    *)
(* hang, and no window or guest event need come.                           *)
LauncherSpec == LauncherInit /\ [][LauncherNext]_lvars /\ WF_lvars(LauncherStep)
-----------------------------------------------------------------------------
(* Properties *)

(* Whichever of the two ends first, hangs or fails, and whenever an        *)
(* interrupt finds the launcher waiting: when it returns, both processes   *)
(* it started have ended, and it reports success only if the viewer        *)
(* succeeded and the simulator did or was stopped because the window was   *)
(* closed (run.py:97).                                                      *)
NothingLeftBehind ==
  pc = "gone" /\ ~untimely =>
    /\ \A p \in Procs : ~Up(p)
    /\ code = 0 => /\ status["viewer"] \in {"ok", "closed"}
                   /\ status["simulator"] = "failed" => status["viewer"] = "closed"

(* Once either process has ended the launcher returns, even if the other   *)
(* one hangs for ever (run.py:106).                                         *)
LauncherReturns == (\E p \in Procs : Gone(p)) ~> (pc = "gone")
=============================================================================
