----------------------------- MODULE WaitingOps -----------------------------
(***************************************************************************)
(* What the issue queue promises: each waiting instruction knows which     *)
(* registers it still needs, and may leave once it needs none.             *)
(***************************************************************************)
EXTENDS Naturals

CONSTANTS Seqs, Pregs

VARIABLE waiting      \* set of [seq, needs]

WInit == waiting = {}

Enter(s, needs) ==
  /\ \A o \in waiting : o.seq # s
  /\ waiting' = waiting \cup {[seq |-> s, needs |-> needs]}

Written(p) == waiting' = {[o EXCEPT !.needs = @ \ {p}] : o \in waiting}

Leave(o) == o \in waiting /\ o.needs = {} /\ waiting' = waiting \ {o}

Squash(s) == waiting' = {o \in waiting : o.seq <= s}

WNext ==
  \/ \E s \in Seqs, needs \in SUBSET Pregs : Enter(s, needs)
  \/ \E p \in Pregs : Written(p)
  \/ \E o \in waiting : Leave(o)
  \/ \E s \in Seqs \cup {0} : Squash(s)

WSpec == WInit /\ [][WNext]_waiting
=============================================================================
