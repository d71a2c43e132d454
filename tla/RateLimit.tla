------------------------------ MODULE RateLimit ------------------------------
(***************************************************************************)
(* internal/ratelimit/ratelimit.go: the token buckets in front of /sub/,   *)
(* /login and /register.                                                   *)
(*                                                                         *)
(* Buckets are made when a key is first seen, filled only when their key   *)
(* asks, and collected once they have been idle for four periods.  One     *)
(* limiter is modelled: the two of the program share nothing.  Tokens      *)
(* are scaled by Period, so that they are whole numbers: a unit of time    *)
(* brings Quota, a request costs Period.  The rounding of the code's       *)
(* floats is left out.                                                     *)
(*                                                                         *)
(* Allow runs under Limiter.mu, so one call is one step.                   *)
(***************************************************************************)
EXTENDS Integers

CONSTANTS
  Keys,       \* the client addresses ClientIP() returns
  MaxArg,     \* arguments of New(max, period, burst)
  PeriodArg,
  BurstArg,
  DefaultPeriod,  \* time.Second, in the model's unit of time
  NoBucket,   \* no entry in the map, no answer yet
  MaxTime     \* bound of the model: how far time runs

\* New() replaces arguments that are not positive.
Quota  == IF MaxArg <= 0 THEN 1 ELSE MaxArg
Period == IF PeriodArg <= 0 THEN DefaultPeriod ELSE PeriodArg
Burst  == IF BurstArg <= 0 THEN Quota ELSE BurstArg
IdleTTL == 4 * Period

ASSUME LimitAssumption ==
  /\ Keys # {}
  /\ MaxArg \in Int /\ PeriodArg \in Int /\ BurstArg \in Int
  /\ DefaultPeriod \in Nat \ {0}
  /\ MaxTime \in Nat

\* The bucket of a key that comes back after IdleTTL would be full again.  New
\* does not ask for this; both limiters of the program have burst = max.
ASSUME BurstAssumption == Burst <= 4 * Quota

VARIABLES
  buckets,  \* Keys -> [tokens, last], or NoBucket
  lastGC,   \* when buckets were last collected
  now,      \* the clock
  answer,   \* the last answer: [key, granted]
  opened,   \* history: the moment a window opens, any moment of the run
  granted   \* history: requests let through in that window, per key

limitVars == <<buckets, lastGC, now, answer, opened, granted>>

Scaled == [tokens : Nat, last : Nat]
ASSUME NoBucketAssumption == NoBucket \notin Scaled

Brim == Burst * Period

LimitInit ==
  /\ buckets = [k \in Keys |-> NoBucket]
  /\ lastGC = 0
  /\ now = 0
  /\ answer = NoBucket
  /\ opened \in 0..MaxTime
  /\ granted = [k \in Keys |-> 0]

Tick ==
  /\ now < MaxTime
  /\ now' = now + 1
  /\ UNCHANGED <<buckets, lastGC, answer, opened, granted>>

-----------------------------------------------------------------------------
(* Allow(key)                                                               *)

Collects  == now - lastGC > IdleTTL
IsIdle_Any(b) == TRUE
IsIdle(b) == now - b.last > IdleTTL

\* The map after the collection that comes first.
Kept(k) == IF buckets[k] # NoBucket /\ Collects /\ IsIdle(buckets[k])
             THEN NoBucket ELSE buckets[k]

\* The bucket of the key that asks, made full if there is none.
Found(k) == IF Kept(k) = NoBucket THEN [tokens |-> Brim, last |-> now] ELSE Kept(k)

Capped_Never(n) == n
Capped(n) == IF n > Brim THEN Brim ELSE n

Refilled(b) == Capped(b.tokens + (now - b.last) * Quota)

Allow(k) ==
  LET tokens == Refilled(Found(k))
      ok     == tokens >= Period
  IN  /\ buckets' = [x \in Keys |->
           IF x = k THEN [tokens |-> IF ok THEN tokens - Period ELSE tokens, last |-> now]
                    ELSE Kept(x)]
      /\ lastGC' = IF Collects THEN now ELSE lastGC
      /\ answer' = [key |-> k, granted |-> ok]
      /\ granted' = IF ok /\ now >= opened
                      THEN [granted EXCEPT ![k] = @ + 1] ELSE granted
      /\ UNCHANGED <<now, opened>>

LimitNext == Tick \/ \E k \in Keys : Allow(k)

LimitSpec == LimitInit /\ [][LimitNext]_limitVars

-----------------------------------------------------------------------------
(* Properties                                                               *)

LimitTypeOK ==
  /\ buckets \in [Keys -> Scaled \cup {NoBucket}]
  /\ \A k \in Keys : buckets[k] # NoBucket =>
       buckets[k].tokens \in 0..Brim /\ buckets[k].last \in 0..now
  /\ now \in Nat /\ lastGC \in 0..now
  /\ answer \in [key : Keys, granted : BOOLEAN] \cup {NoBucket}
  /\ opened \in Nat
  /\ granted \in [Keys -> Nat]

\* What a key may still draw on: its bucket as it would be filled now.
Level(k) == IF buckets[k] = NoBucket THEN Brim ELSE Refilled(buckets[k])

\* In any window of time a key gets at most a burst and what the rate brings in
\* that window, whenever its bucket was made, filled or collected: the doc of
\* New ("5 requests a minute, burst 5"), for windows instead of averages.
WindowBound ==
  now >= opened => \A k \in Keys :
    granted[k] * Period <= Brim + Quota * (now - opened)

\* Making buckets late, filling them late and collecting idle ones cannot be
\* told from buckets that exist from the start and fill all the time: a key that
\* comes back is answered as if it had never been forgotten, in both directions.
Ideal == INSTANCE TokenBucket WITH
  level <- [k \in Keys |-> Level(k)], Rate <- Quota, Cost <- Period,
  NoAnswer <- NoBucket

CollectionInvisible == Ideal!BucketSpec

=============================================================================
