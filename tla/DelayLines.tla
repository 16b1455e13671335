----------------------------- MODULE DelayLines -----------------------------
(***************************************************************************)
(* What the functional units promise, one line per unit: an operation      *)
(* leaves by the line's output slot a fixed number of cycles after it      *)
(* entered, not counting those in which the slot was taken, unless it is   *)
(* squashed.  Nothing is lost, doubled or held longer.                     *)
(***************************************************************************)
EXTENDS Naturals, FiniteSets

CONSTANTS Units, Latency, Ops

VARIABLES line,    \* line[u]: the operations inside, with the cycles they need
          slot     \* slot[u]: the operations (at most one) in the output slot

lvars == <<line, slot>>

LInit == line = [u \in Units |-> {}] /\ slot = [u \in Units |-> {}]

Enter(u, s) ==
  /\ \A o \in line[u] : o.left < Latency[u]
  /\ line' = [line EXCEPT ![u] = @ \cup {[seq |-> s, left |-> Latency[u]]}]
  /\ UNCHANGED slot

Leave(u) ==
  /\ slot[u] # {}
  /\ slot' = [slot EXCEPT ![u] = {}]
  /\ UNCHANGED line

(* Everything younger than s disappears; s itself may leave with it (the   *)
(* branch that causes the squash).                                         *)
Squash(s) ==
  /\ line' = [u \in Units |-> {o \in line[u] : o.seq <= s}]
  /\ \E leaves \in {{}, {s}} :
       slot' = [u \in Units |-> {x \in slot[u] : x <= s} \ leaves]

Advanced(u) == {[o EXCEPT !.left = @ - 1] : o \in line[u]}

Tick ==
  /\ line' = [u \in Units |-> IF slot[u] # {} THEN line[u]
                              ELSE {o \in Advanced(u) : o.left > 0}]
  /\ slot' = [u \in Units |-> IF slot[u] # {} THEN slot[u]
                              ELSE {o.seq : o \in {p \in Advanced(u) : p.left = 0}}]

LNext ==
  \/ \E u \in Units : Leave(u) \/ \E s \in Ops : Enter(u, s)
  \/ \E s \in Ops \cup {0} : Squash(s)
  \/ Tick

LSpec == LInit /\ [][LNext]_lvars
=============================================================================
