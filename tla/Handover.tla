------------------------------ MODULE Handover ------------------------------
(***************************************************************************)
(* What a daemon promises about its own replacement: work is started only  *)
(* until a replacement is announced, started work always runs to its end,  *)
(* and the store is given up only when none is left. A daemon may also be  *)
(* told to stop, which announces nothing and closes no gate.               *)
(***************************************************************************)
CONSTANTS Requests, Operations, NoOp

VARIABLES announced, work, owner

handoverVars == <<announced, work, owner>>

HandoverInit ==
  /\ announced = NoOp
  /\ work = {}
  /\ owner = TRUE

Begin(r) ==
  /\ owner
  /\ announced = NoOp
  /\ work' = work \cup {r}
  /\ UNCHANGED <<announced, owner>>

End(r) ==
  /\ r \in work
  /\ work' = work \ {r}
  /\ UNCHANGED <<announced, owner>>

Announce(op) ==
  /\ announced = NoOp
  /\ announced' = op
  /\ UNCHANGED <<work, owner>>

GiveUp ==
  /\ work = {}
  /\ owner
  /\ owner' = FALSE
  /\ UNCHANGED <<announced, work>>

HandoverNext ==
  \/ \E r \in Requests : Begin(r) \/ End(r)
  \/ \E op \in Operations : Announce(op)
  \/ GiveUp

HandoverSpec == HandoverInit /\ [][HandoverNext]_handoverVars
=============================================================================
