-------------------------------- MODULE Gates --------------------------------
(***************************************************************************)
(* What the mutation gates promise: at most one operation owns a key, and  *)
(* a key changes hands only by being given back.  MutationGates implements *)
(* this module.                                                            *)
(***************************************************************************)
CONSTANTS
  GateKeys,   \* what is locked: one inbound, or one subscription group, of a server
  Operations  \* running mutations

VARIABLE owned  \* set of <<operation, key>>

Init == owned = {}

Acquire(o, k) ==
  /\ \A p \in Operations : <<p, k>> \notin owned
  /\ owned' = owned \cup {<<o, k>>}

Release(o, k) ==
  /\ <<o, k>> \in owned
  /\ owned' = owned \ {<<o, k>>}

Next == \E o \in Operations, k \in GateKeys : Acquire(o, k) \/ Release(o, k)

Spec == Init /\ [][Next]_owned

=============================================================================
