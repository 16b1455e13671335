------------------------------ MODULE SeqMemory ------------------------------
(***************************************************************************)
(* What the load/store queue, the store buffer and the data port together  *)
(* promise: committed loads and stores behave as if each, in program       *)
(* order, touched one memory at once.                                      *)
(*                                                                         *)
(* A memory byte holds the identity of the store that last wrote it, so    *)
(* two stores are never confused because they happen to write the same     *)
(* value.  Identity 0 is the initial content.                              *)
(***************************************************************************)
EXTENDS Integers

CONSTANTS MemBytes,  \* bytes are 0 .. MemBytes - 1
          Stores     \* identities of stores

Bytes == 0 .. MemBytes - 1

VARIABLES smem,      \* byte -> identity of the store that wrote it last
          seen       \* the last operation, and what it read or wrote

svars == <<smem, seen>>

(* The bytes of an access <<address, size>>.                               *)
BytesOf(acc) == acc[1] .. acc[1] + acc[2] - 1

SInit ==
  /\ smem = [b \in Bytes |-> 0]
  /\ seen = [op |-> "none"]

Load(acc) ==
  /\ seen' = [op |-> "load", acc |-> acc, val |-> [b \in BytesOf(acc) |-> smem[b]]]
  /\ UNCHANGED smem

Store(acc, id) ==
  /\ seen' = [op |-> "store", acc |-> acc, id |-> id]
  /\ smem' = [b \in Bytes |-> IF b \in BytesOf(acc) THEN id ELSE smem[b]]

SNext ==
  \E addr \in Bytes, size \in {1, 2, 4} :
    /\ addr + size <= MemBytes
    /\ \/ Load(<<addr, size>>)
       \/ \E id \in Stores : Store(<<addr, size>>, id)

SSpec == SInit /\ [][SNext]_svars
=============================================================================
