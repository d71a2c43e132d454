----------------------------- MODULE TokenBucket -----------------------------
(***************************************************************************)
(* What internal/ratelimit promises its users: every key has a bucket that *)
(* always exists, fills while time passes and never beyond its brim, and   *)
(* pays for each request that is let through.  Nothing is created lazily,  *)
(* nothing is collected, and no key sees the requests of another.          *)
(*                                                                         *)
(* A unit of time brings Rate and a request costs Cost: the code's tokens, *)
(* scaled by the limiter's period so that they are whole numbers.          *)
(***************************************************************************)
EXTENDS Integers

CONSTANTS
  Keys,     \* the client addresses
  Rate,     \* what a unit of time brings
  Cost,     \* what a request costs
  Brim,     \* what a bucket holds
  NoAnswer  \* before the first request

VARIABLES
  level,    \* Keys -> what the bucket holds
  answer    \* the last answer of Allow: [key, granted]

bucketVars == <<level, answer>>

Capped(n) == IF n > Brim THEN Brim ELSE n

BucketInit ==
  /\ level = [k \in Keys |-> Brim]
  /\ answer = NoAnswer

Fill ==
  /\ level' = [k \in Keys |-> Capped(level[k] + Rate)]
  /\ UNCHANGED answer

Grant(k) ==
  /\ level[k] >= Cost
  /\ level' = [level EXCEPT ![k] = @ - Cost]
  /\ answer' = [key |-> k, granted |-> TRUE]

Refuse(k) ==
  /\ level[k] < Cost
  /\ answer' = [key |-> k, granted |-> FALSE]
  /\ UNCHANGED level

BucketNext == Fill \/ \E k \in Keys : Grant(k) \/ Refuse(k)

BucketSpec == BucketInit /\ [][BucketNext]_bucketVars

=============================================================================
