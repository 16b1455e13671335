----------------------------- MODULE Checkpoints -----------------------------
(***************************************************************************)
(* What register renaming promises, with no free list and no undo walk.    *)
(* Every instruction in flight keeps a copy of the rename map as it was    *)
(* just before that instruction was renamed:                               *)
(*                                                                         *)
(*   - a destination is given a register that neither the current map nor  *)
(*     any kept copy names, so no value still needed can be overwritten;   *)
(*   - a squash puts back, exactly, the copy of the oldest instruction it  *)
(*     removes;                                                            *)
(*   - retiring the oldest instruction drops its copy, which is the only   *)
(*     way a register stops being needed.                                  *)
(***************************************************************************)
EXTENDS Integers, Sequences

CONSTANTS NArch,     \* architectural registers are 0 .. NArch - 1
          PhysRegs   \* physical registers are 0 .. PhysRegs - 1

VARIABLES cmap,      \* the current rename map
          snaps      \* per instruction in flight, oldest first: the map before it

cvars == <<cmap, snaps>>

Named(p) ==
  \/ \E r \in 0 .. NArch - 1 : cmap[r] = p
  \/ \E k \in 1 .. Len(snaps), r \in 0 .. NArch - 1 : snaps[k][r] = p

CInit ==
  /\ cmap = [r \in 0 .. NArch - 1 |-> r]
  /\ snaps = <<>>

(* An instruction with destination rd: x0 is never renamed.                *)
Rename(rd) ==
  \E p \in 0 .. PhysRegs - 1 :
    /\ ~Named(p)
    /\ cmap' = [cmap EXCEPT ![rd] = p]
    /\ snaps' = Append(snaps, cmap)

(* An instruction that writes no register.                                 *)
Keep ==
  /\ cmap' = cmap
  /\ snaps' = Append(snaps, cmap)

Retire ==
  /\ snaps # <<>>
  /\ snaps' = Tail(snaps)
  /\ cmap' = cmap

(* Squash the k-th oldest instruction and everything younger.              *)
Squash(k) ==
  /\ cmap' = snaps[k]
  /\ snaps' = SubSeq(snaps, 1, k - 1)

CNext ==
  \/ \E rd \in 1 .. NArch - 1 : Rename(rd)
  \/ Keep
  \/ Retire
  \/ \E k \in 1 .. Len(snaps) : Squash(k)

CSpec == CInit /\ [][CNext]_cvars
=============================================================================
