---------------------------- MODULE ArrivalMemory ----------------------------
(***************************************************************************)
(* What a port of the memory system promises: one memory on which every    *)
(* request takes effect at the moment it arrives, and one answer to each   *)
(* request, at any later time and in any order.                            *)
(*                                                                         *)
(* Requests are numbered as they arrive.  Memory holds, at each offset of  *)
(* a line, the number of the write that put it there, or its first content. *)
(***************************************************************************)
EXTENDS Integers

CONSTANTS Lines, Offsets,
          Shapes,  \* the sets of offsets that requests cover
          Initial  \* what memory holds at first

VARIABLES arrived,  \* number of requests so far
          amem,     \* line -> offset -> number of the last write
          owed      \* answers not yet given: [tag, data]

avars == <<arrived, amem, owed>>

AInit ==
  /\ arrived = 0
  /\ amem = Initial
  /\ owed = {}

Targets == (0 .. Lines - 1) \X Shapes

Read ==
  /\ UNCHANGED amem
  /\ owed' \in {owed \cup {[tag |-> arrived', data |-> [o \in x[2] |-> amem[x[1]][o]]]} :
                x \in Targets}

Write ==
  /\ owed' = owed \cup {[tag |-> arrived', data |-> <<>>]}
  /\ amem' \in {[amem EXCEPT ![x[1]] =
                  [o \in Offsets |-> IF o \in x[2] THEN arrived' ELSE @[o]]] :
                x \in Targets}

Arrive ==
  /\ arrived' = arrived + 1
  /\ Read \/ Write

Give ==
  /\ UNCHANGED <<arrived, amem>>
  /\ owed' \in {owed \ {a} : a \in owed}

ASpec == AInit /\ [][Arrive \/ Give]_avars
=============================================================================
