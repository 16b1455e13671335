-------------------------------- MODULE Ring --------------------------------
(***************************************************************************)
(* Index arithmetic of the fixed-capacity ring of core/ring.h.  The        *)
(* reorder buffer, the load/store queue, the store buffer and the fetch    *)
(* queue are all this shape: allocate at the tail, retire from the head,   *)
(* squash from the tail.  Operations in flight name an entry by its ring   *)
(* index, so everything rests on that index being stable and unique while  *)
(* the entry is live.                                                      *)
(*                                                                         *)
(* A ring of capacity cap is the pair (head, n): n live entries, the       *)
(* oldest at index head.                                                   *)
(***************************************************************************)
EXTENDS Integers

(* The ring index of the k-th oldest entry.  The code subtracts before it  *)
(* adds so that head + k cannot overflow 32 bits.                          *)
IndexOf(cap, head, k) ==
  LET toEnd == cap - head
  IN  IF k < toEnd THEN head + k ELSE k - toEnd

(* The age of a slot, counted from the head.                               *)
Distance(cap, head, idx) ==
  IF idx >= head THEN idx - head ELSE cap - (head - idx)

(* Does a live entry occupy this index?                                    *)
Live(cap, head, n, idx) ==
  /\ idx < cap
  /\ Distance(cap, head, idx) < n
=============================================================================
