------------------------------ MODULE WebProofs ------------------------------
(***************************************************************************)
(* Proofs about the parts that MCWeb checks, each on its own: the limiter  *)
(* in front of the handlers (RateLimit), the planner behind the group      *)
(* pages (Planner), the accounts and server forms (WebUI), and the client  *)
(* of the panel's API (PanelClient).                                       *)
(***************************************************************************)
EXTENDS RateLimit, Planner, WebUI, PanelClient, SequenceTheorems, FiniteSetTheorems, TLAPS


(***************************************************************************)
(* RateLimit: its types, the bound on what a key gets in any window of     *)
(* time, and that it implements TokenBucket.  All three hold for any       *)
(* number of keys, any arguments of New with burst <= 4 * max, and as long *)
(* as time runs.                                                           *)
(***************************************************************************)

-----------------------------------------------------------------------------
(* The parameters, and arithmetic.                                          *)

LEMMA Params ==
  /\ Quota \in Nat \ {0} /\ Period \in Nat \ {0} /\ Burst \in Nat \ {0}
  /\ IdleTTL = 4 * Period /\ IdleTTL \in Nat
  /\ Burst <= 4 * Quota
<1>1. Quota \in Nat \ {0} /\ Period \in Nat \ {0}
  BY LimitAssumption DEF Quota, Period
<1>2. Burst \in Nat \ {0}
  BY <1>1, LimitAssumption DEF Burst
<1> QED BY <1>1, <1>2, BurstAssumption DEF IdleTTL

LEMMA Distributes == \A a, b \in Int : (a + b) * Quota = a * Quota + b * Quota
BY Params

LEMMA ProductsAreNat == \A a \in Nat : a * Quota \in Nat /\ a * Period \in Nat
BY Params

\* An idle bucket is a full one.
LEMMA IdleFills == Brim \in Nat /\ \A a \in Nat : a > IdleTTL => a * Quota >= Brim
<1>1. Brim \in Nat
  BY Params DEF Brim
<1>2. ASSUME NEW a \in Nat, a > IdleTTL PROVE a * Quota >= Brim
  <2>1. PICK d \in Nat : a = 4 * Period + d
    <3>1. a - 4 * Period \in Nat /\ a = 4 * Period + (a - 4 * Period)
      BY <1>2, Params
    <3> QED BY <3>1
  <2>2. a * Quota = 4 * Period * Quota + d * Quota
    BY <2>1, Params
  <2>3. PICK e \in Nat : 4 * Quota = Burst + e
    <3>1. 4 * Quota - Burst \in Nat /\ 4 * Quota = Burst + (4 * Quota - Burst)
      BY Params
    <3> QED BY <3>1
  <2>4. 4 * Period * Quota = (4 * Quota) * Period
    BY Params
  <2>5. (4 * Quota) * Period = Burst * Period + e * Period
    BY <2>3, Params
  <2>6. d * Quota \in Nat /\ e * Period \in Nat
    BY ProductsAreNat
  <2> QED BY <1>1, <2>2, <2>4, <2>5, <2>6, Params DEF Brim
<1> QED BY <1>1, <1>2

LEMMA Capping ==
  \A n \in Nat : /\ Capped(n) \in 0..Brim /\ Capped(n) <= n
                 /\ n <= Brim => Capped(n) = n
                 /\ n >= Brim => Capped(n) = Brim
                 /\ \A m \in Nat : Capped(Capped(n) + m) = Capped(n + m)
BY IdleFills DEF Capped

-----------------------------------------------------------------------------
(* Buckets as they would be filled now.                                     *)

\* The part of the type invariant that is about buckets.
BucketsOK ==
  /\ buckets \in [Keys -> Scaled \cup {NoBucket}]
  /\ \A k \in Keys : buckets[k] # NoBucket =>
       buckets[k].tokens \in 0..Brim /\ buckets[k].last \in 0..now
  /\ now \in Nat

LEMMA BucketOf ==
  ASSUME BucketsOK, NEW k \in Keys, buckets[k] # NoBucket
  PROVE  /\ buckets[k].tokens \in Nat /\ buckets[k].tokens <= Brim
         /\ buckets[k].last \in Nat /\ now - buckets[k].last \in Nat
BY IdleFills DEF BucketsOK

LEMMA RefilledOK ==
  ASSUME BucketsOK, NEW k \in Keys, buckets[k] # NoBucket
  PROVE  /\ Refilled(buckets[k]) \in 0..Brim
         /\ IsIdle(buckets[k]) => Refilled(buckets[k]) = Brim
<1> DEFINE t == buckets[k].tokens
           d == now - buckets[k].last
<1>1. t \in Nat /\ d \in Nat
  BY BucketOf
<1>2. d * Quota \in Nat /\ t + d * Quota \in Nat
  BY <1>1, ProductsAreNat
<1>3. Refilled(buckets[k]) = Capped(t + d * Quota)
  BY DEF Refilled
<1>4. Refilled(buckets[k]) \in 0..Brim
  BY <1>2, <1>3, Capping
<1>5. ASSUME IsIdle(buckets[k]) PROVE Refilled(buckets[k]) = Brim
  <2>1. d * Quota >= Brim
    BY <1>1, <1>5, IdleFills DEF IsIdle
  <2>2. t + d * Quota >= Brim
    BY <1>1, <1>2, <2>1, IdleFills
  <2> QED BY <1>2, <1>3, <2>2, Capping
<1> QED BY <1>4, <1>5

LEMMA LevelOK ==
  ASSUME BucketsOK, NEW k \in Keys
  PROVE  Level(k) \in 0..Brim
BY RefilledOK, IdleFills DEF Level

\* Collecting changes no level, and neither does making a bucket.
LEMMA KeptLevel ==
  ASSUME BucketsOK, NEW k \in Keys
  PROVE  /\ Level(k) = IF Kept(k) = NoBucket THEN Brim ELSE Refilled(Kept(k))
         /\ Kept(k) \in {buckets[k], NoBucket}
BY RefilledOK DEF Level, Kept

LEMMA FoundLevel ==
  ASSUME BucketsOK, NEW k \in Keys
  PROVE  Refilled(Found(k)) = Level(k)
<1>1. CASE Kept(k) = NoBucket
  <2>1. Refilled(Found(k)) = Capped(Brim + (now - now) * Quota)
    BY <1>1 DEF Found, Refilled
  <2>2. Brim + (now - now) * Quota = Brim
    BY IdleFills, Params DEF BucketsOK
  <2> QED BY <1>1, <2>1, <2>2, KeptLevel, Capping, IdleFills
<1>2. CASE Kept(k) # NoBucket
  BY <1>2, KeptLevel DEF Found
<1> QED BY <1>1, <1>2

-----------------------------------------------------------------------------
(* What the steps do.                                                       *)

\* A unit of time fills every level.
LEMMA TickFills ==
  ASSUME BucketsOK, Tick, NEW k \in Keys
  PROVE  Level(k)' = Capped(Level(k) + Quota)
<1>1. buckets' = buckets /\ now' = now + 1 /\ now \in Nat
  BY DEF Tick, BucketsOK
<1>2. CASE buckets[k] = NoBucket
  <2>1. Brim + Quota \in Nat /\ Brim + Quota >= Brim
    BY IdleFills, Params
  <2> QED BY <1>1, <1>2, <2>1, Capping DEF Level
<1>3. CASE buckets[k] # NoBucket
  <2> DEFINE t == buckets[k].tokens
             d == now - buckets[k].last
  <2>1. t \in Nat /\ d \in Nat /\ buckets[k].last \in Nat
    BY <1>3, BucketOf
  <2>2. d * Quota \in Nat /\ t + d * Quota \in Nat /\ Quota \in Nat
    BY <2>1, ProductsAreNat, Params
  <2>3. (now + 1) - buckets[k].last = d + 1
    BY <1>1, <2>1
  <2>4. (d + 1) * Quota = d * Quota + Quota
    BY <2>1, Params
  <2>5. Level(k)' = Capped(t + (d * Quota + Quota))
    BY <1>1, <1>3, <2>3, <2>4 DEF Level, Refilled, Capped, Brim
  <2>6. Level(k) = Capped(t + d * Quota)
    BY <1>3 DEF Level, Refilled
  <2>7. Capped(Capped(t + d * Quota) + Quota) = Capped((t + d * Quota) + Quota)
    BY <2>2, Capping
  <2>8. (t + d * Quota) + Quota = t + (d * Quota + Quota)
    BY <2>1, <2>2
  <2> QED BY <2>5, <2>6, <2>7, <2>8
<1> QED BY <1>2, <1>3

\* A request costs Period if the level of its key allows it, and no other level.
LEMMA AllowPays ==
  ASSUME BucketsOK, NEW k \in Keys, Allow(k)
  PROVE  /\ answer' = [key |-> k, granted |-> Level(k) >= Period]
         /\ Level(k)' = IF Level(k) >= Period THEN Level(k) - Period ELSE Level(k)
         /\ \A x \in Keys \ {k} : Level(x)' = Level(x)
         /\ BucketsOK'
<1> DEFINE l == Level(k)
           left == IF l >= Period THEN l - Period ELSE l
<1>1. l \in 0..Brim /\ left \in 0..Brim /\ Brim \in Nat /\ Period \in Nat /\ now \in Nat
  BY LevelOK, IdleFills, Params DEF BucketsOK
<1>2. Refilled(Found(k)) = l
  BY FoundLevel
<1>3. /\ now' = now
      /\ answer' = [key |-> k, granted |-> l >= Period]
      /\ buckets' = [x \in Keys |-> IF x = k THEN [tokens |-> left, last |-> now] ELSE Kept(x)]
  BY <1>2 DEF Allow
<1>4. buckets'[k] = [tokens |-> left, last |-> now] /\ \A x \in Keys \ {k} : buckets'[x] = Kept(x)
  BY <1>3
<1>5. buckets'[k] \in Scaled /\ buckets'[k] # NoBucket
  BY <1>1, <1>4, NoBucketAssumption DEF Scaled
<1>6. Level(k)' = left
  <2>1. Level(k)' = Capped(left + (now - now) * Quota)
    BY <1>3, <1>4, <1>5 DEF Level, Refilled, Capped, Brim
  <2>2. left + (now - now) * Quota = left
    BY <1>1, Params
  <2>3. left \in Nat /\ left <= Brim
    BY <1>1
  <2> HIDE DEF left
  <2>4. Capped(left) = left
    BY <2>3, Capping
  <2> QED BY <2>1, <2>2, <2>4
<1>7. ASSUME NEW x \in Keys \ {k} PROVE Level(x)' = Level(x)
  BY <1>3, <1>4, <1>7, KeptLevel DEF Level, Refilled, Capped, Brim
<1>8. BucketsOK'
  <2>1. buckets' \in [Keys -> Scaled \cup {NoBucket}]
    BY <1>3, <1>4, <1>5, KeptLevel DEF BucketsOK
  <2>2. ASSUME NEW x \in Keys, buckets'[x] # NoBucket
        PROVE  buckets'[x].tokens \in 0..Brim /\ buckets'[x].last \in 0..now
    BY <1>1, <1>4, <2>2, KeptLevel DEF BucketsOK
  <2> QED BY <1>3, <2>1, <2>2 DEF BucketsOK, Brim
<1> QED BY <1>3, <1>6, <1>7, <1>8

-----------------------------------------------------------------------------
(* Types.                                                                   *)

\* The types are an invariant.
THEOREM LimiterTypes == LimitSpec => []LimitTypeOK
<1>1. LimitInit => LimitTypeOK
  BY LimitAssumption DEF LimitInit, LimitTypeOK
<1>2. LimitTypeOK /\ [LimitNext]_limitVars => LimitTypeOK'
  <2> SUFFICES ASSUME LimitTypeOK, [LimitNext]_limitVars PROVE LimitTypeOK'
    OBVIOUS
  <2>1. BucketsOK
    BY DEF LimitTypeOK, BucketsOK
  <2>2. CASE Tick
    BY <2>2 DEF LimitTypeOK, Tick, Brim
  <2>3. ASSUME NEW k \in Keys, Allow(k) PROVE LimitTypeOK'
    <3>1. BucketsOK' /\ answer' \in [key : Keys, granted : BOOLEAN]
      <4>1. BucketsOK' /\ answer' = [key |-> k, granted |-> Level(k) >= Period]
        BY <2>1, <2>3, AllowPays
      <4>2. (Level(k) >= Period) \in BOOLEAN
        OBVIOUS
      <4> QED BY <4>1, <4>2
    <3>2. now' = now /\ opened' = opened /\ lastGC' \in {now, lastGC}
      BY <2>3 DEF Allow
    <3>3. granted' \in [Keys -> Nat]
      <4>1. granted' \in {granted, [granted EXCEPT ![k] = @ + 1]}
        BY <2>3 DEF Allow
      <4> QED BY <4>1 DEF LimitTypeOK
    <3> QED BY <3>1, <3>2, <3>3 DEF LimitTypeOK, BucketsOK
  <2>4. CASE UNCHANGED limitVars
    BY <2>4 DEF LimitTypeOK, limitVars, Brim
  <2> QED BY <2>2, <2>3, <2>4 DEF LimitNext
<1> QED BY <1>1, <1>2, PTL DEF LimitSpec

-----------------------------------------------------------------------------
(* What a key gets in a window.                                             *)

\* Before the window opens nothing is counted; then what was granted and what is
\* left are together at most a full bucket and what the window has brought.
Budget(k) ==
  IF now >= opened THEN granted[k] * Period + Level(k) <= Brim + Quota * (now - opened)
                   ELSE granted[k] = 0

BudgetInv == \A k \in Keys : Budget(k)

LEMMA BudgetInit == LimitInit => BudgetInv
<1> SUFFICES ASSUME LimitInit, NEW k \in Keys PROVE Budget(k)
  BY DEF BudgetInv
<1>1. granted[k] = 0 /\ now = 0 /\ opened \in Nat /\ Level(k) = Brim
  BY LimitAssumption DEF LimitInit, Level
<1>2. CASE opened = 0
  BY <1>1, <1>2, IdleFills, Params DEF Budget
<1>3. CASE opened # 0
  BY <1>1, <1>3 DEF Budget
<1> QED BY <1>2, <1>3

LEMMA BudgetTick ==
  ASSUME LimitTypeOK, BudgetInv, Tick, NEW k \in Keys
  PROVE  Budget(k)'
<1>1. BucketsOK
  BY DEF LimitTypeOK, BucketsOK
<1> DEFINE l == Level(k)
           g == granted[k] * Period
<1>2. /\ l \in 0..Brim /\ Level(k)' = Capped(l + Quota) /\ Brim \in Nat /\ Quota \in Nat
      /\ granted[k] \in Nat /\ g \in Nat
  BY <1>1, LevelOK, TickFills, IdleFills, Params, ProductsAreNat DEF LimitTypeOK
<1>3. Level(k)' <= l + Quota /\ Level(k)' \in 0..Brim
  BY <1>2, Capping
<1>4. /\ now \in Nat /\ opened \in Nat
      /\ now' = now + 1 /\ opened' = opened /\ granted' = granted
  BY DEF Tick, LimitTypeOK
<1>5. CASE now >= opened
  <2>1. PICK w \in Nat : w = now - opened
    BY <1>4, <1>5
  <2>2. (now + 1) - opened = w + 1
    BY <1>4, <2>1
  <2>3. Quota * (w + 1) = Quota * w + Quota /\ Quota * w \in Nat
    BY <1>2, <2>1
  <2>4. g + l <= Brim + Quota * w
    BY <1>5, <2>1 DEF BudgetInv, Budget
  <2>5. g + Level(k)' <= Brim + Quota * (w + 1)
    BY <1>2, <1>3, <2>3, <2>4
  <2> QED BY <1>4, <1>5, <2>2, <2>5 DEF Budget, Brim
<1>6. CASE ~(now >= opened)
  <2>1. granted[k] = 0
    BY <1>6 DEF BudgetInv, Budget
  <2>2. CASE now + 1 >= opened
    <3>1. (now + 1) - opened = 0 /\ 0 * Period = 0 /\ Quota * 0 = 0
      BY <1>4, <1>6, <2>2, Params
    <3> QED BY <1>3, <1>4, <2>1, <2>2, <3>1, <1>2 DEF Budget, Brim
  <2>3. CASE ~(now + 1 >= opened)
    BY <1>4, <2>1, <2>3 DEF Budget
  <2> QED BY <2>2, <2>3
<1> QED BY <1>5, <1>6

LEMMA BudgetAllow ==
  ASSUME LimitTypeOK, BudgetInv, NEW k \in Keys, Allow(k), NEW x \in Keys
  PROVE  Budget(x)'
<1>1. BucketsOK
  BY DEF LimitTypeOK, BucketsOK
<1>2. /\ Level(k) \in 0..Brim /\ Brim \in Nat /\ Period \in Nat
      /\ granted[x] \in Nat /\ granted \in [Keys -> Nat]
      /\ Level(x) \in 0..Brim /\ now \in Nat /\ opened \in Nat
  BY <1>1, LevelOK, IdleFills, Params DEF LimitTypeOK
<1>3. now' = now /\ opened' = opened
  BY DEF Allow
<1>4. granted' = IF Level(k) >= Period /\ now >= opened
                   THEN [granted EXCEPT ![k] = @ + 1] ELSE granted
  BY <1>1, FoundLevel DEF Allow
<1>5. Budget(x)
  BY DEF BudgetInv
<1>6. CASE x # k
  <2>1. Level(x)' = Level(x) /\ granted'[x] = granted[x]
    BY <1>1, <1>2, <1>4, <1>6, AllowPays
  <2> QED BY <1>3, <1>5, <2>1 DEF Budget, Brim
<1>7. CASE x = k
  <2>1. Level(k)' = IF Level(k) >= Period THEN Level(k) - Period ELSE Level(k)
    BY <1>1, AllowPays
  <2>2. CASE Level(k) >= Period /\ now >= opened
    <3>1. granted'[x] = granted[x] + 1 /\ Level(x)' = Level(x) - Period
      BY <1>2, <1>4, <1>7, <2>1, <2>2
    <3>2. (granted[x] + 1) * Period = granted[x] * Period + Period /\ granted[x] * Period \in Nat
      BY <1>2, Params
    <3>3. (granted[x] + 1) * Period + (Level(x) - Period) = granted[x] * Period + Level(x)
      BY <1>2, <3>2
    <3> QED BY <1>3, <1>5, <2>2, <3>1, <3>3 DEF Budget, Brim
  <2>3. CASE ~(Level(k) >= Period) /\ now >= opened
    BY <1>3, <1>4, <1>5, <1>7, <2>1, <2>3 DEF Budget, Brim
  <2>4. CASE ~(now >= opened)
    BY <1>3, <1>4, <1>5, <1>7, <2>4 DEF Budget
  <2> QED BY <2>2, <2>3, <2>4
<1> QED BY <1>6, <1>7

\* No key gets more than a burst and what the rate brings, in any window.
THEOREM WindowsAreBounded == LimitSpec => []WindowBound
<1>1. LimitTypeOK /\ BudgetInv => WindowBound
  <2> SUFFICES ASSUME LimitTypeOK, BudgetInv, now >= opened, NEW k \in Keys
               PROVE  granted[k] * Period <= Brim + Quota * (now - opened)
    BY DEF WindowBound
  <2>1. BucketsOK
    BY DEF LimitTypeOK, BucketsOK
  <2>2. Level(k) \in 0..Brim /\ Brim \in Nat
    BY <2>1, LevelOK, IdleFills
  <2>3. granted[k] * Period \in Nat
    BY ProductsAreNat DEF LimitTypeOK
  <2>4. Quota * (now - opened) \in Int
    BY Params DEF LimitTypeOK
  <2>5. granted[k] * Period + Level(k) <= Brim + Quota * (now - opened)
    BY DEF BudgetInv, Budget
  <2> QED BY <2>2, <2>3, <2>4, <2>5
<1>2. LimitTypeOK /\ BudgetInv /\ [LimitNext]_limitVars => BudgetInv'
  <2> SUFFICES ASSUME LimitTypeOK, BudgetInv, [LimitNext]_limitVars, NEW x \in Keys
               PROVE  Budget(x)'
    BY DEF BudgetInv
  <2>1. CASE Tick
    BY <2>1, BudgetTick
  <2>2. ASSUME NEW k \in Keys, Allow(k) PROVE Budget(x)'
    BY <2>2, BudgetAllow
  <2>3. CASE UNCHANGED limitVars
    <3>1. Budget(x)
      BY DEF BudgetInv
    <3> QED BY <2>3, <3>1 DEF Budget, limitVars, Level, Refilled, Capped, Brim
  <2> QED BY <2>1, <2>2, <2>3 DEF LimitNext
<1> QED BY <1>1, <1>2, LimiterTypes, BudgetInit, PTL DEF LimitSpec

-----------------------------------------------------------------------------
(* The limiter implements TokenBucket.                                      *)

\* A limiter that makes, fills and collects its buckets only when it is asked answers
\* as one whose buckets always exist and always fill.
THEOREM LimiterImplementsBuckets == LimitSpec => CollectionInvisible
<1>1. LimitInit => Ideal!BucketInit
  BY DEF LimitInit, Ideal!BucketInit, Level
<1>2. LimitTypeOK /\ [LimitNext]_limitVars => [Ideal!BucketNext]_(Ideal!bucketVars)
  <2> SUFFICES ASSUME LimitTypeOK, [LimitNext]_limitVars
               PROVE  [Ideal!BucketNext]_(Ideal!bucketVars)
    OBVIOUS
  <2>1. BucketsOK
    BY DEF LimitTypeOK, BucketsOK
  <2>2. CASE Tick
    <3>1. \A k \in Keys : Level(k)' = Capped(Level(k) + Quota)
      BY <2>1, <2>2, TickFills
    <3>2. [k \in Keys |-> Level(k)]' = [k \in Keys |-> Capped(Level(k) + Quota)]
      BY <3>1
    <3>3. Ideal!Fill
      BY <2>2, <3>2 DEF Ideal!Fill, Ideal!Capped, Capped, Tick
    <3> QED BY <3>3 DEF Ideal!BucketNext
  <2>3. ASSUME NEW k \in Keys, Allow(k) PROVE Ideal!Grant(k) \/ Ideal!Refuse(k)
    <3>1. /\ answer' = [key |-> k, granted |-> Level(k) >= Period]
          /\ Level(k)' = IF Level(k) >= Period THEN Level(k) - Period ELSE Level(k)
          /\ \A x \in Keys \ {k} : Level(x)' = Level(x)
      BY <2>1, <2>3, AllowPays
    <3>2. CASE Level(k) >= Period
      BY <3>1, <3>2 DEF Ideal!Grant
    <3>3. CASE ~(Level(k) >= Period)
      <4>1. Level(k) < Period
        BY <2>1, <3>3, LevelOK, IdleFills, Params
      <4>2. \A x \in Keys : Level(x)' = Level(x)
        BY <3>1, <3>3
      <4>3. [x \in Keys |-> Level(x)]' = [x \in Keys |-> Level(x)]
        BY <4>2
      <4>4. answer' = [key |-> k, granted |-> FALSE]
        <5>1. (Level(k) >= Period) = FALSE
          BY <3>3
        <5> QED BY <3>1, <5>1, Zenon
      <4> QED BY <4>1, <4>3, <4>4 DEF Ideal!Refuse
    <3> QED BY <3>2, <3>3
  <2>4. CASE UNCHANGED limitVars
    BY <2>4 DEF limitVars, Ideal!bucketVars, Level, Refilled, Capped, Brim
  <2> QED BY <2>2, <2>3, <2>4 DEF LimitNext, Ideal!BucketNext
<1> QED BY <1>1, <1>2, LimiterTypes, PTL
        DEF LimitSpec, CollectionInvisible, Ideal!BucketSpec

(***************************************************************************)
(* Planner: whatever happens to groups, servers and snapshot while plans   *)
(* are made and run, a plan attaches only what was chosen, for any number  *)
(* of requests, users, groups and inbounds.                                *)
(***************************************************************************)

-----------------------------------------------------------------------------
(* Groups.  An id is given out once, so that a group that was found to be   *)
(* the user's is the user's for as long as it has a row or members.         *)

GroupRows   == [id : GroupIds, user : Users, name : Names]
MemberRows  == [group : GroupIds, sub : Subs]

RowsOK ==
  /\ groups \subseteq GroupRows /\ members \subseteq MemberRows
  /\ accounts \subseteq Users /\ lastGroup \in 0..MaxGroups
  /\ \A r \in groups : r.id <= lastGroup
  /\ \A r, x \in groups : r.id = x.id => r = x
  /\ \A m \in members : \E r \in groups : r.id = m.group

\* No row of the group is another user's.
Known(u, g) == g <= lastGroup /\ \A r \in groups : r.id = g => r.user = u

GroupStep ==
  \/ \E u \in Users, n \in Names : CreateClientGroup(u, n)
  \/ \E u \in Users, g \in GroupIds, n \in Names : RenameClientGroup(u, g, n)
  \/ \E u \in Users, g \in GroupIds : DeleteClientGroup(u, g)
  \/ \E u \in Users, g \in GroupIds, S \in SUBSET Subs : AddClientGroupMembers(u, g, S)
  \/ \E u \in Users, g \in GroupIds, s \in Subs : RemoveClientGroupMember(u, g, s)
  \/ \E u \in Users : DeleteAccount(u)
  \/ UNCHANGED groupVars

LEMMA RowsInit == PlannerInit => RowsOK
BY StartAssumption DEF PlannerInit, RowsOK, GroupRows, MemberRows

\* Every statement keeps the tables, and what is known of a group.
LEMMA RowsStep ==
  ASSUME RowsOK, GroupStep
  PROVE  RowsOK' /\ \A u \in Users, g \in GroupIds : Known(u, g) => Known(u, g)'
<1> USE DEF RowsOK, Known, GroupRows, MemberRows, GroupIds
<1>1. ASSUME NEW u \in Users, NEW n \in Names, CreateClientGroup(u, n)
      PROVE  RowsOK' /\ \A v \in Users, g \in GroupIds : Known(v, g) => Known(v, g)'
  <2>1. /\ groups' = groups \cup {Group(lastGroup + 1, u, n)} /\ lastGroup' = lastGroup + 1
        /\ lastGroup < MaxGroups /\ UNCHANGED <<members, accounts>>
    BY <1>1 DEF CreateClientGroup
  <2>2. lastGroup' \in 0..MaxGroups /\ lastGroup + 1 \in 1..MaxGroups /\ lastGroup \in Nat
    BY <2>1, GroupsAssumption
  <2>3. /\ Group(lastGroup + 1, u, n) \in GroupRows
        /\ Group(lastGroup + 1, u, n).id = lastGroup + 1
    BY <2>2 DEF Group
  <2>4. \A r \in groups : r.id \in Nat /\ r.id <= lastGroup
    BY GroupsAssumption
  <2>5. groups' \subseteq GroupRows
    BY <2>1, <2>3
  <2>6. \A r \in groups' : r.id <= lastGroup'
    BY <2>1, <2>2, <2>3, <2>4
  <2>7. \A r, x \in groups' : r.id = x.id => r = x
    BY <2>1, <2>2, <2>3, <2>4
  <2>8. \A m \in members' : \E r \in groups' : r.id = m.group
    BY <2>1
  <2>9. RowsOK'
    BY <2>1, <2>2, <2>5, <2>6, <2>7, <2>8
  <2>10. ASSUME NEW v \in Users, NEW g \in GroupIds, Known(v, g) PROVE Known(v, g)'
    <3>1. g # lastGroup + 1 /\ g <= lastGroup'
      BY <2>1, <2>2, <2>10
    <3> QED BY <2>1, <2>3, <2>10, <3>1
  <2> QED BY <2>9, <2>10
<1>2. ASSUME NEW u \in Users, NEW g \in GroupIds, NEW n \in Names, RenameClientGroup(u, g, n)
      PROVE  RowsOK' /\ \A v \in Users, h \in GroupIds : Known(v, h) => Known(v, h)'
  <2>1. /\ groups' = {r \in groups : r.id # g} \cup {Group(g, u, n)}
        /\ UNCHANGED <<members, accounts, lastGroup>>
    BY <1>2 DEF RenameClientGroup
  <2>2. PICK old \in groups : old.id = g /\ old.user = u
    BY <1>2 DEF RenameClientGroup, FoundGroup, Owns
  <2>3. Group(g, u, n) \in GroupRows /\ Group(g, u, n).id = g /\ Group(g, u, n).user = u
    BY DEF Group
  <2>4. \A m \in members' : \E r \in groups' : r.id = m.group
    <3> SUFFICES ASSUME NEW m \in members PROVE \E r \in groups' : r.id = m.group
      BY <2>1
    <3>1. PICK r \in groups : r.id = m.group
      OBVIOUS
    <3>2. CASE r.id = g
      BY <2>1, <2>3, <3>1, <3>2
    <3>3. CASE r.id # g
      BY <2>1, <3>1, <3>3
    <3> QED BY <3>2, <3>3
  <2>5. RowsOK'
    BY <2>1, <2>2, <2>3, <2>4
  <2>6. ASSUME NEW v \in Users, NEW h \in GroupIds, Known(v, h) PROVE Known(v, h)'
    BY <2>1, <2>2, <2>3, <2>6
  <2> QED BY <2>5, <2>6
<1>3. ASSUME NEW u \in Users, NEW g \in GroupIds, DeleteClientGroup(u, g)
      PROVE  RowsOK' /\ \A v \in Users, h \in GroupIds : Known(v, h) => Known(v, h)'
  BY <1>3 DEF DeleteClientGroup
<1>4. ASSUME NEW u \in Users, NEW g \in GroupIds, NEW S \in SUBSET Subs, AddClientGroupMembers(u, g, S)
      PROVE  RowsOK' /\ \A v \in Users, h \in GroupIds : Known(v, h) => Known(v, h)'
  <2>1. /\ members' = members \cup {Member(g, s) : s \in S}
        /\ UNCHANGED <<groups, accounts, lastGroup>> /\ \E r \in groups : r.id = g
    BY <1>4 DEF AddClientGroupMembers, FoundGroup, Owns
  <2>2. \A s \in S : Member(g, s) \in MemberRows /\ Member(g, s).group = g
    BY DEF Member
  <2>3. members' \subseteq MemberRows
    BY <2>1, <2>2
  <2>4. \A m \in members' : \E r \in groups' : r.id = m.group
    BY <2>1, <2>2
  <2> QED BY <2>1, <2>3, <2>4
<1>5. ASSUME NEW u \in Users, NEW g \in GroupIds, NEW s \in Subs, RemoveClientGroupMember(u, g, s)
      PROVE  RowsOK' /\ \A v \in Users, h \in GroupIds : Known(v, h) => Known(v, h)'
  <2>1. members' \subseteq members /\ UNCHANGED <<groups, accounts, lastGroup>>
    BY <1>5 DEF RemoveClientGroupMember
  <2> QED BY <2>1
<1>6. ASSUME NEW u \in Users, DeleteAccount(u)
      PROVE  RowsOK' /\ \A v \in Users, h \in GroupIds : Known(v, h) => Known(v, h)'
  <2>1. /\ groups' \subseteq groups /\ members' \subseteq members /\ accounts' \subseteq accounts
        /\ lastGroup' = lastGroup /\ \A m \in members' : m.group \in {r.id : r \in groups'}
    BY <1>6 DEF DeleteAccount
  <2> QED BY <2>1
<1>7. CASE UNCHANGED groupVars
  BY <1>7 DEF groupVars
<1> QED BY <1>1, <1>2, <1>3, <1>4, <1>5, <1>6, <1>7 DEF GroupStep

-----------------------------------------------------------------------------
(* Whose step it is.                                                        *)

PlanActs(q) ==
  \/ \E u \in Visitors, t \in Inbounds, a \in Selections :
       StartApply(q, u, t, a) \/ StartOnboarding(q, u, t, a)
  \/ ReadCatalog(q) \/ ReadMembers(q) \/ Partition(q)
  \/ OpenTarget(q) \/ Cancelled(q) \/ CopyEnds(q)
  \/ \E g \in GroupIds : ReadGroup(q, g)
  \/ \E s \in Subs : AttachOne(q, s)

Starts(q, u, g, S) ==
  \/ StartGroupAction(q, u, g, "add", S)
  \/ \E kind \in {"delete", "rename"} : S = {} /\ StartGroupAction(q, u, g, kind, S)
  \/ (\E s \in Subs : S = {s}) /\ StartGroupAction(q, u, g, "remove", S)

EditActs(q) ==
  \/ \E u \in Visitors, g \in GroupIds, S \in SUBSET Subs : Starts(q, u, g, S)
  \/ GroupAction(q) \/ CheckRemoved(q)

OthersAct ==
  \/ \E t \in Inbounds : Refresh(t) \/ RefreshFails(t) \/ OthersToggle(t) \/ ServerDeleted(t)
  \/ \E t \in Inbounds, s \in Subs, p \in Presence : OthersChange(t, s, p)
  \/ \E u \in Users : UserDeleted(u)
  \/ \E u \in Visitors, n \in Names : GroupCreated(u, n)

LEMMA WhoseStep ==
  PlannerStep <=> \/ OthersAct
                  \/ \E q \in Edits : EditActs(q)
                  \/ \E q \in Plans : PlanActs(q)
BY DEF PlannerStep, OthersAct, EditActs, PlanActs, Starts

JobsOK == job \in [Jobs -> JobRecords]

LEMMA OthersLeaveJobs ==
  ASSUME OthersAct PROVE UNCHANGED job /\ GroupStep
<1>1. UNCHANGED job
  BY DEF OthersAct, Refresh, RefreshFails, OthersToggle, ServerDeleted, OthersChange,
         UserDeleted, GroupCreated
<1>2. GroupStep
  <2>1. CASE \E u \in Users : UserDeleted(u)
    BY <2>1 DEF UserDeleted, GroupStep
  <2>2. CASE \E u \in Visitors, n \in Names : GroupCreated(u, n)
    BY <2>2, PlannerAssumption DEF GroupCreated, GroupStep
  <2>3. CASE UNCHANGED groupVars
    BY <2>3 DEF GroupStep
  <2> QED BY <2>1, <2>2, <2>3 DEF OthersAct, Refresh, RefreshFails, OthersToggle, ServerDeleted, OthersChange
<1> QED BY <1>1, <1>2

Answers0 == {Nil, "ok", "partial", "refused", "error", "missing"}

EndOf(r, a, S) == [r EXCEPT !.pc = "done", !.answer = a, !.left = {}, !.cards = {},
                     !.on = {}, !.todo = {}, !.failed = FALSE, !.subs = S]

LEMMA EndOfJob ==
  ASSUME NEW r \in JobRecords, NEW a \in Answers0, NEW S \in SUBSET Subs
  PROVE  /\ EndOf(r, a, S) \in JobRecords
         /\ EndOf(r, a, S).pc = "done" /\ EndOf(r, a, S).subs = S
         /\ EndOf(r, a, S).cards = {} /\ EndOf(r, a, S).todo = {}
         /\ EndOf(r, a, S).made = r.made /\ EndOf(r, a, S).scope = r.scope
         /\ EndOf(r, a, S).target = r.target /\ EndOf(r, a, S).who = r.who
         /\ EndOf(r, a, S).kind = r.kind
         /\ EndOf(r, a, S).groups = r.groups /\ EndOf(r, a, S).planned = r.planned
         /\ EndOf(r, a, S).answer = a
<1>1. EndOf(r, a, S) \in JobRecords
  BY DEF EndOf, JobRecords, Steps, Answers0
<1>2. /\ EndOf(r, a, S).pc = "done" /\ EndOf(r, a, S).subs = S
         /\ EndOf(r, a, S).cards = {} /\ EndOf(r, a, S).todo = {}
         /\ EndOf(r, a, S).made = r.made /\ EndOf(r, a, S).scope = r.scope
         /\ EndOf(r, a, S).target = r.target /\ EndOf(r, a, S).who = r.who
         /\ EndOf(r, a, S).kind = r.kind
         /\ EndOf(r, a, S).groups = r.groups /\ EndOf(r, a, S).planned = r.planned
         /\ EndOf(r, a, S).answer = a
  BY DEF EndOf, JobRecords
<1> QED BY <1>1, <1>2

\* What a request is when it has answered.
LEMMA EndedAs ==
  ASSUME NEW q \in Jobs, NEW x \in JobRecords, NEW a \in Answers0
  PROVE  LET r == Ended(q, x, a) IN
           /\ r \in JobRecords
           /\ r.pc = "done" /\ r.cards = {} /\ r.todo = {} /\ r.made = x.made
           /\ r.scope = x.scope /\ r.target = x.target /\ r.who = x.who
           /\ r.kind = x.kind
           /\ r.groups = x.groups /\ r.planned = x.planned /\ r.answer = a
           /\ r.subs = IF q \in Edits \/ x.scope = "subscriptions" THEN x.subs ELSE {}
<1> DEFINE S == IF q \in Edits \/ x.scope = "subscriptions" THEN x.subs ELSE {}
<1>1. S \in SUBSET Subs
  BY DEF JobRecords
<1>2. Ended(q, x, a) = EndOf(x, a, S)
  BY DEF Ended, EndOf
<1>3. S = IF q \in Edits \/ x.scope = "subscriptions" THEN x.subs ELSE {}
  OBVIOUS
<1> HIDE DEF S
<1>4. /\ EndOf(x, a, S) \in JobRecords
      /\ EndOf(x, a, S).pc = "done" /\ EndOf(x, a, S).subs = S
      /\ EndOf(x, a, S).cards = {} /\ EndOf(x, a, S).todo = {}
      /\ EndOf(x, a, S).made = x.made /\ EndOf(x, a, S).scope = x.scope
      /\ EndOf(x, a, S).target = x.target /\ EndOf(x, a, S).who = x.who
      /\ EndOf(x, a, S).kind = x.kind
      /\ EndOf(x, a, S).groups = x.groups /\ EndOf(x, a, S).planned = x.planned
      /\ EndOf(x, a, S).answer = a
  BY <1>1, EndOfJob
<1> QED BY <1>2, <1>3, <1>4, Zenon

LEMMA AnswerEnds ==
  ASSUME JobsOK, NEW q \in Jobs, NEW a \in Answers0, Answer(q, a)
  PROVE  \E r \in JobRecords :
           /\ job' = [job EXCEPT ![q] = r]
           /\ r.pc = "done" /\ r.cards = {} /\ r.todo = {} /\ r.made = job[q].made
           /\ r.scope = job[q].scope /\ r.target = job[q].target /\ r.who = job[q].who
           /\ r.kind = job[q].kind
           /\ r.groups = job[q].groups /\ r.planned = job[q].planned /\ r.answer = a
           /\ r.subs = IF q \in Edits \/ job[q].scope = "subscriptions" THEN job[q].subs ELSE {}
<1>1. job[q] \in JobRecords
  BY DEF JobsOK
<1>2. job' = [job EXCEPT ![q] = Ended(q, job[q], a)]
  BY DEF Answer, Set
<1> DEFINE e == Ended(q, job[q], a)
<1>3. /\ e \in JobRecords
      /\ e.pc = "done" /\ e.cards = {} /\ e.todo = {} /\ e.made = job[q].made
      /\ e.scope = job[q].scope /\ e.target = job[q].target /\ e.who = job[q].who
      /\ e.kind = job[q].kind
      /\ e.groups = job[q].groups /\ e.planned = job[q].planned /\ e.answer = a
      /\ e.subs = IF q \in Edits \/ job[q].scope = "subscriptions" THEN job[q].subs ELSE {}
  BY <1>1, EndedAs
<1> QED BY <1>2, <1>3

\* A request of a group page changes its own record, and attaches nothing.
LEMMA EditStep ==
  ASSUME JobsOK, RowsOK, NEW q \in Edits, EditActs(q)
  PROVE  /\ \E r \in JobRecords :
              /\ job' = [job EXCEPT ![q] = r]
              /\ job[q].made = {} => r.made = {}
         /\ GroupStep
<1> DEFINE Goal == \E r \in JobRecords :
              /\ job' = [job EXCEPT ![q] = r]
              /\ job[q].made = {} => r.made = {}
<1>1. job[q] \in JobRecords /\ q \in Jobs
  BY DEF JobsOK, Jobs
<1>2. ASSUME NEW a \in {"ok", "error"}, Answer(q, a) PROVE Goal
  <2>1. a \in Answers0
    BY DEF Answers0
  <2> QED BY <1>1, <1>2, <2>1, AnswerEnds
<1>3. ASSUME NEW u \in Visitors, NEW g \in GroupIds, NEW S \in SUBSET Subs,
             NEW kind \in {"add", "delete", "rename", "remove"}, StartGroupAction(q, u, g, kind, S)
      PROVE  Goal /\ GroupStep
  <2> PICK a \in {Nil, "missing", "error"} :
             Set(q, [NoJob EXCEPT !.pc = IF a = Nil THEN "action" ELSE "done",
                       !.kind = kind, !.who = u, !.groups = {g}, !.subs = S, !.answer = a])
    BY <1>3 DEF StartGroupAction
  <2> DEFINE p == IF a = Nil THEN "action" ELSE "done"
             r == [NoJob EXCEPT !.pc = p, !.kind = kind, !.who = u, !.groups = {g},
                                !.subs = S, !.answer = a]
  <2>1. job' = [job EXCEPT ![q] = r] /\ UNCHANGED groupVars
    BY <1>3 DEF StartGroupAction, Set
  <2>2. r.made = {}
    BY DEF NoJob
  <2>3. u \in Users /\ a \in {Nil, "ok", "partial", "refused", "error", "missing"}
    BY PlannerAssumption
  <2>4. r \in JobRecords
    <3>1. p \in Steps
      BY DEF Steps
    <3> HIDE DEF p
    <3> QED BY <2>3, <3>1 DEF NoJob, JobRecords
  <2> HIDE DEF r
  <2> QED BY <2>1, <2>2, <2>4 DEF GroupStep
<1>4. CASE GroupAction(q)
  <2>1. PICK g \in job[q].groups :
          LET u == job[q].who
          IN  \/ DeleteClientGroup(u, g) /\ Answer(q, "ok")
              \/ (\E n \in Names : RenameClientGroup(u, g, n)) /\ Answer(q, "ok")
              \/ AddClientGroupMembers(u, g, job[q].subs) /\ Answer(q, "ok")
              \/ /\ \E s \in job[q].subs : RemoveClientGroupMember(u, g, s)
                 /\ Answer(q, "ok") \/ Set(q, [job[q] EXCEPT !.pc = "removed"])
              \/ Answer(q, "error") /\ UNCHANGED groupVars
    BY <1>4 DEF GroupAction
  <2>2. g \in GroupIds /\ job[q].subs \in SUBSET Subs
    BY <1>1 DEF JobRecords
  <2>3. FoundGroup(job[q].who, g) => job[q].who \in Users
    BY DEF RowsOK, GroupRows, FoundGroup, Owns
  <2>4. GroupStep
    <3>1. ASSUME NEW s \in job[q].subs, RemoveClientGroupMember(job[q].who, g, s) PROVE GroupStep
      <4>1. CASE FoundGroup(job[q].who, g)
        BY <2>2, <2>3, <3>1, <4>1 DEF GroupStep
      <4>2. CASE ~FoundGroup(job[q].who, g)
        BY <3>1, <4>2 DEF RemoveClientGroupMember, GroupStep, groupVars
      <4> QED BY <4>1, <4>2
    <3>2. CASE DeleteClientGroup(job[q].who, g)
      BY <2>2, <2>3, <3>2 DEF DeleteClientGroup, GroupStep
    <3>3. ASSUME NEW n \in Names, RenameClientGroup(job[q].who, g, n) PROVE GroupStep
      BY <2>2, <2>3, <3>3 DEF RenameClientGroup, GroupStep
    <3>4. CASE AddClientGroupMembers(job[q].who, g, job[q].subs)
      BY <2>2, <2>3, <3>4 DEF AddClientGroupMembers, GroupStep
    <3> QED BY <2>1, <3>1, <3>2, <3>3, <3>4 DEF GroupStep
  <2>5. CASE Set(q, [job[q] EXCEPT !.pc = "removed"])
    <3> DEFINE r == [job[q] EXCEPT !.pc = "removed"]
    <3>1. r \in JobRecords /\ r.made = job[q].made
      BY <1>1 DEF JobRecords, Steps
    <3>2. job' = [job EXCEPT ![q] = r]
      BY <2>5 DEF Set
    <3> HIDE DEF r
    <3> QED BY <2>4, <3>1, <3>2, Zenon
  <2> QED BY <1>2, <2>1, <2>4, <2>5
<1>5. CASE CheckRemoved(q)
  BY <1>2, <1>5 DEF CheckRemoved, GroupStep
<1> QED BY <1>3, <1>4, <1>5 DEF EditActs, Starts

-----------------------------------------------------------------------------
(* What is known of a plan.                                                 *)

Late == {"groups", "members", "open", "copy"}

\* What a request has read or done was seen while it ran.
PlanOK(r, w) ==
  /\ r.cards \subseteq w.cards
  /\ r.todo \cup r.made \subseteq w.cards
  /\ r.scope = "groups" => r.subs \cup r.todo \cup r.made \subseteq w.in
  /\ r.scope = "subscriptions" =>
       r.groups = {} /\ r.todo \cup r.made \subseteq r.subs
  /\ r.pc \in Late \/ r.made # {} =>
       OwnerOf[r.target] = r.who /\ (r.kind = "apply" => w.mutable)
  /\ r.pc = "plan" =>
       r.kind = "apply" \/ (r.kind = "onboard" /\ OwnerOf[r.target] = r.who)
  /\ r.pc \in {"groups", "members"} => r.left \subseteq r.groups
  /\ r.pc # "idle" => r.who \in Users /\ r.target \in Inbounds

InHand(r) == r.pc = "members" =>
  r.group \in r.groups /\ r.group \in GroupIds /\ Known(r.who, r.group)

\* A record of what was true only grows, and holds what is true after a step.
LEMMA WatchGrows ==
  ASSUME Watch, NEW q \in Jobs
  PROVE  /\ was[q].in \subseteq was'[q].in
         /\ was[q].cards \subseteq was'[q].cards
         /\ was[q].mutable => was'[q].mutable
BY DEF Watch

LEMMA WatchSees ==
  ASSUME Watch, NEW q \in Plans, job'[q].pc # "idle", job[q].pc # "done"
  PROVE  /\ InGroups(job[q])' \subseteq was'[q].in
         /\ Cards(job[q].who)' \subseteq was'[q].cards
         /\ job'[q].target # Nil /\ Mutable(job[q].target, job[q].who)' => was'[q].mutable
<1>1. q \in Jobs
  BY DEF Jobs
<1> QED BY <1>1 DEF Watch, Facts

\* Nothing that others do invalidates what is known of a plan.
LEMMA PlanKept ==
  ASSUME Watch, NEW q \in Jobs, job'[q] = job[q], PlanOK(job[q], was[q])
  PROVE  PlanOK(job'[q], was'[q])
BY WatchGrows DEF PlanOK

-----------------------------------------------------------------------------
(* The steps of a plan.                                                     *)

Advances(q) ==
  /\ job' = [job EXCEPT ![q] = job'[q]]
  /\ job'[q] \in JobRecords
  /\ PlanOK(job'[q], was'[q])
  /\ InHand(job[q])'

LEMMA SetJob ==
  ASSUME JobsOK, NEW q \in Jobs, NEW r, Set(q, r)
  PROVE  job'[q] = r /\ job' = [job EXCEPT ![q] = job'[q]]
BY DEF JobsOK, Set

LEMMA PlansAreJobs == \A q \in Plans : q \in Jobs /\ q \notin Edits
BY PlannerAssumption DEF Jobs

LEMMA AnswerAdvances ==
  ASSUME JobsOK, Watch, NEW q \in Plans, PlanOK(job[q], was[q]), job[q].pc # "idle",
         NEW a \in Answers0, Answer(q, a)
  PROVE  Advances(q)
<1>1. q \in Jobs /\ q \notin Edits
  BY PlansAreJobs
<1>2. PICK r \in JobRecords :
           /\ job' = [job EXCEPT ![q] = r]
           /\ r.pc = "done" /\ r.cards = {} /\ r.todo = {} /\ r.made = job[q].made
           /\ r.scope = job[q].scope /\ r.target = job[q].target /\ r.who = job[q].who
           /\ r.kind = job[q].kind
           /\ r.groups = job[q].groups /\ r.planned = job[q].planned /\ r.answer = a
           /\ r.subs = IF q \in Edits \/ job[q].scope = "subscriptions" THEN job[q].subs ELSE {}
  BY <1>1, AnswerEnds
<1>3. job'[q] = r /\ job' = [job EXCEPT ![q] = job'[q]]
  BY <1>1, <1>2 DEF JobsOK
<1>4. PlanOK(r, was'[q])
  BY <1>1, <1>2, WatchGrows DEF PlanOK, Late
<1>5. InHand(job[q])'
  BY <1>2, <1>3 DEF InHand
<1> QED BY <1>3, <1>4, <1>5 DEF Advances

LEMMA StartAdvances ==
  ASSUME JobsOK, Watch, NEW q \in Plans,
         NEW u \in Visitors, NEW t \in Inbounds, NEW a \in Selections,
         StartApply(q, u, t, a) \/ StartOnboarding(q, u, t, a)
  PROVE  Advances(q) /\ UNCHANGED groupVars
<1> DEFINE S == IF a.scope = "subscriptions" THEN a.subs ELSE {}
           r1 == [NoJob EXCEPT !.pc = "plan", !.kind = "apply", !.who = u, !.target = t,
                    !.scope = a.scope, !.groups = GroupsOf(a), !.subs = S]
           r2 == [NoJob EXCEPT !.pc = "plan", !.kind = "onboard", !.who = u, !.target = t,
                    !.scope = a.scope, !.groups = GroupsOf(a)]
<1>1. /\ a.scope \in Scopes /\ GroupsOf(a) \in SUBSET GroupIds /\ a.subs \in SUBSET Subs
      /\ a.scope = "subscriptions" => GroupsOf(a) = {}
      /\ u \in Users /\ q \in Jobs
  BY PlannerAssumption, PlansAreJobs DEF GroupsOf
<1>2. CASE StartApply(q, u, t, a)
  <2>1. Set(q, r1) /\ UNCHANGED groupVars
    BY <1>2 DEF StartApply
  <2>2. r1 \in JobRecords
    <3>1. S \in SUBSET Subs
      BY <1>1
    <3> HIDE DEF S
    <3>2. u \in Users /\ a.scope \in Scopes /\ GroupsOf(a) \in SUBSET GroupIds
      BY <1>1
    <3> DEFINE r0 == [NoJob EXCEPT !.pc = "plan", !.kind = "apply", !.who = u, !.target = t,
                        !.scope = a.scope, !.groups = GroupsOf(a)]
    <3>3. r0 \in JobRecords
      BY <3>2 DEF NoJob, JobRecords, Steps, Scopes
    <3>4. r1 = [r0 EXCEPT !.subs = S]
      OBVIOUS
    <3> HIDE DEF r0, r1
    <3> QED BY <3>1, <3>3, <3>4 DEF JobRecords
  <2>3. /\ r1.pc = "plan" /\ r1.kind = "apply" /\ r1.who = u /\ r1.target = t /\ r1.scope = a.scope
        /\ r1.cards = {} /\ r1.todo = {} /\ r1.made = {}
        /\ a.scope = "groups" => r1.subs = {}
        /\ r1.groups = GroupsOf(a)
        /\ a.scope = "subscriptions" => r1.subs = a.subs
    BY DEF NoJob
  <2> HIDE DEF r1
  <2>4. job'[q] = r1 /\ job' = [job EXCEPT ![q] = job'[q]]
    BY <1>1, <2>1, SetJob
  <2>5. PlanOK(r1, was'[q])
    BY <1>1, <2>3 DEF PlanOK, Late
  <2> QED BY <2>1, <2>2, <2>3, <2>4, <2>5 DEF Advances, InHand
<1>3. CASE StartOnboarding(q, u, t, a)
  <2>1. Set(q, r2) /\ UNCHANGED groupVars /\ OwnerOf[t] = u
    BY <1>3 DEF StartOnboarding, Owned
  <2>2. /\ r2 \in JobRecords
        /\ r2.pc = "plan" /\ r2.kind = "onboard" /\ r2.who = u /\ r2.target = t /\ r2.scope = a.scope
        /\ r2.cards = {} /\ r2.todo = {} /\ r2.made = {} /\ r2.subs = {}
        /\ r2.groups = GroupsOf(a)
    BY <1>1 DEF NoJob, JobRecords, Steps, Scopes
  <2> HIDE DEF r2
  <2>3. job'[q] = r2 /\ job' = [job EXCEPT ![q] = job'[q]]
    BY <1>1, <2>1, SetJob
  <2>4. PlanOK(r2, was'[q])
    BY <1>1, <2>1, <2>2 DEF PlanOK, Late
  <2> QED BY <2>1, <2>2, <2>3, <2>4 DEF Advances, InHand
<1> QED BY <1>2, <1>3

PlanOf(r, c, o, S) ==
  [r EXCEPT !.pc = "groups", !.cards = c, !.on = o, !.left = r.groups, !.subs = S]

LEMMA PlanOfJob ==
  ASSUME NEW r \in JobRecords, NEW c \in SUBSET Subs, NEW o \in SUBSET Subs, NEW S \in SUBSET Subs
  PROVE  /\ PlanOf(r, c, o, S) \in JobRecords
         /\ PlanOf(r, c, o, S).pc = "groups" /\ PlanOf(r, c, o, S).kind = r.kind
         /\ PlanOf(r, c, o, S).who = r.who /\ PlanOf(r, c, o, S).target = r.target
         /\ PlanOf(r, c, o, S).scope = r.scope /\ PlanOf(r, c, o, S).cards = c
         /\ PlanOf(r, c, o, S).todo = r.todo /\ PlanOf(r, c, o, S).made = r.made
         /\ PlanOf(r, c, o, S).left = PlanOf(r, c, o, S).groups
         /\ PlanOf(r, c, o, S).groups = r.groups
         /\ PlanOf(r, c, o, S).subs = S
BY DEF PlanOf, JobRecords, Steps

LEMMA CatalogAdvances ==
  ASSUME JobsOK, Watch, NEW q \in Plans, PlanOK(job[q], was[q]), ReadCatalog(q)
  PROVE  Advances(q) /\ UNCHANGED groupVars
<1> DEFINE r == job[q]
           c == Cards(r.who)
           S == IF r.scope = "all" THEN c ELSE r.subs
           r1 == PlanOf(r, c, On(r.target), S)
<1>1. /\ q \in Jobs /\ r \in JobRecords /\ r.pc = "plan"
      /\ UNCHANGED groupVars /\ UNCHANGED shown
      /\ \/ r.kind = "apply" /\ Answer(q, "refused")
         \/ (r.kind = "apply" => Mutable(r.target, r.who)) /\ Set(q, r1)
  BY PlansAreJobs DEF ReadCatalog, JobsOK, siteVars, Is, PlanOf
<1>2. CASE r.kind = "apply" /\ Answer(q, "refused")
  <2>1. "refused" \in Answers0 /\ r.pc # "idle"
    BY <1>1 DEF Answers0
  <2> QED BY <1>1, <1>2, <2>1, AnswerAdvances
<1>3. CASE (r.kind = "apply" => Mutable(r.target, r.who)) /\ Set(q, r1)
  <2>1. c \in SUBSET Subs /\ On(r.target) \in SUBSET Subs /\ S \in SUBSET Subs
    BY <1>1 DEF Cards, On, JobRecords
  <2> HIDE DEF c
  <2>2. /\ r1 \in JobRecords
        /\ r1.pc = "groups" /\ r1.kind = r.kind /\ r1.who = r.who /\ r1.target = r.target
        /\ r1.scope = r.scope /\ r1.cards = c /\ r1.todo = r.todo /\ r1.made = r.made
        /\ r1.left = r1.groups /\ r1.groups = r.groups
        /\ r.scope # "all" => r1.subs = r.subs
    BY <1>1, <2>1, PlanOfJob
  <2> HIDE DEF r1
  <2>3. job'[q] = r1 /\ job' = [job EXCEPT ![q] = job'[q]]
    BY <1>1, <1>3, SetJob
  <2>4. /\ Cards(job[q].who)' \subseteq was'[q].cards
        /\ job'[q].target # Nil /\ Mutable(job[q].target, job[q].who)' => was'[q].mutable
    BY <1>1, <2>2, <2>3, WatchSees
  <2>5. Cards(job[q].who)' = c
    BY <1>1, <2>2, <2>3 DEF c, Cards, Shows
  <2>6. Mutable(job[q].target, job[q].who)' <=> Mutable(r.target, r.who)
    BY <1>1, <2>2, <2>3 DEF Mutable, Shows
  <2>7. r.target \in Inbounds /\ r.target # Nil /\ r.who \in Users
    BY <1>1, PlannerAssumption DEF PlanOK
  <2>8. r.kind = "apply" => was'[q].mutable /\ OwnerOf[r.target] = r.who
    BY <1>3, <2>2, <2>3, <2>4, <2>6, <2>7 DEF Mutable, Shows
  <2>9. OwnerOf[r.target] = r.who
    BY <1>1, <2>8 DEF PlanOK
  <2>10. PlanOK(r1, was'[q])
    BY <1>1, <2>2, <2>4, <2>5, <2>7, <2>8, <2>9, WatchGrows DEF PlanOK, Late
  <2> QED BY <1>1, <2>2, <2>3, <2>10 DEF Advances, InHand
<1> QED BY <1>1, <1>2, <1>3

LEMMA GroupAdvances ==
  ASSUME JobsOK, RowsOK, Watch, NEW q \in Plans, PlanOK(job[q], was[q]),
         NEW g \in GroupIds, ReadGroup(q, g)
  PROVE  Advances(q) /\ UNCHANGED groupVars
<1> DEFINE r == job[q]
           r1 == [r EXCEPT !.pc = "members", !.left = @ \ {g}, !.group = g]
           r2 == [r EXCEPT !.pc = "groups", !.left = @ \ {g}, !.group = Nil]
<1>1. /\ q \in Jobs /\ r \in JobRecords /\ r.pc = "groups" /\ g \in r.left
      /\ UNCHANGED groupVars
      /\ \/ FoundGroup(r.who, g) /\ Set(q, r1)
         \/ Set(q, r2)
         \/ Answer(q, "refused")
  BY PlansAreJobs DEF ReadGroup, GroupFails, JobsOK, Is
<1>2. g \in r.groups
  BY <1>1 DEF PlanOK
<1>3. CASE FoundGroup(r.who, g) /\ Set(q, r1)
  <2>1. /\ r1 \in JobRecords
        /\ r1.pc = "members" /\ r1.group = g /\ r1.groups = r.groups /\ r1.left \subseteq r.left
        /\ r1.kind = r.kind /\ r1.who = r.who /\ r1.target = r.target /\ r1.scope = r.scope
        /\ r1.cards = r.cards /\ r1.todo = r.todo /\ r1.made = r.made /\ r1.subs = r.subs
    BY <1>1 DEF JobRecords, Steps
  <2> HIDE DEF r1
  <2>2. job'[q] = r1 /\ job' = [job EXCEPT ![q] = job'[q]]
    BY <1>1, <1>3, SetJob
  <2>3. PlanOK(r1, was'[q])
    BY <1>1, <2>1, WatchGrows DEF PlanOK, Late
  <2>4. Known(r.who, g)
    BY <1>3 DEF FoundGroup, Owns, RowsOK, Known
  <2>5. InHand(job[q])'
    BY <1>1, <1>2, <2>1, <2>2, <2>4 DEF InHand, Known, groupVars
  <2> QED BY <1>1, <2>1, <2>2, <2>3, <2>5 DEF Advances
<1>4. CASE Set(q, r2)
  <2>1. /\ r2 \in JobRecords
        /\ r2.pc = "groups" /\ r2.groups = r.groups /\ r2.left \subseteq r.left
        /\ r2.kind = r.kind /\ r2.who = r.who /\ r2.target = r.target /\ r2.scope = r.scope
        /\ r2.cards = r.cards /\ r2.todo = r.todo /\ r2.made = r.made /\ r2.subs = r.subs
    BY <1>1 DEF JobRecords, Steps
  <2> HIDE DEF r2
  <2>2. job'[q] = r2 /\ job' = [job EXCEPT ![q] = job'[q]]
    BY <1>1, <1>4, SetJob
  <2>3. PlanOK(r2, was'[q])
    BY <1>1, <2>1, WatchGrows DEF PlanOK, Late
  <2> QED BY <1>1, <2>1, <2>2, <2>3 DEF Advances, InHand
<1>5. CASE Answer(q, "refused")
  <2>1. "refused" \in Answers0 /\ r.pc # "idle"
    BY <1>1 DEF Answers0
  <2> QED BY <1>1, <1>5, <2>1, AnswerAdvances
<1> QED BY <1>1, <1>3, <1>4, <1>5

\* The members are read after the row: the group may be gone by then, and has no
\* members, but it is nobody else's.
LEMMA MembersAdvance ==
  ASSUME JobsOK, RowsOK, Watch, NEW q \in Plans, PlanOK(job[q], was[q]), InHand(job[q]),
         ReadMembers(q)
  PROVE  Advances(q) /\ UNCHANGED groupVars
<1> DEFINE r == job[q]
           M == MembersOf(r.group)
           r1 == [r EXCEPT !.pc = "groups", !.subs = @ \cup M, !.group = Nil]
           r2 == [r EXCEPT !.pc = "groups", !.left = @ \ {r.group}, !.group = Nil]
<1>1. /\ q \in Jobs /\ r \in JobRecords /\ r.pc = "members"
      /\ UNCHANGED groupVars
      /\ Set(q, r1) \/ Set(q, r2) \/ Answer(q, "refused")
  BY PlansAreJobs DEF ReadMembers, GroupFails, JobsOK, Is
<1>2. /\ r.group \in r.groups /\ Known(r.who, r.group)
  BY <1>1 DEF InHand
<1>3. M \in SUBSET Subs
  BY DEF MembersOf, RowsOK, MemberRows
<1>4. \A s \in M : Owns(r.who, r.group)
  BY <1>2 DEF MembersOf, RowsOK, Known, Owns
<1>5. M \subseteq InGroups(r)
  BY <1>2, <1>3, <1>4 DEF InGroups
<1> HIDE DEF M
<1>6. CASE Set(q, r1)
  <2>1. /\ r1 \in JobRecords
        /\ r1.pc = "groups" /\ r1.groups = r.groups /\ r1.left = r.left
        /\ r1.kind = r.kind /\ r1.who = r.who /\ r1.target = r.target /\ r1.scope = r.scope
        /\ r1.cards = r.cards /\ r1.todo = r.todo /\ r1.made = r.made /\ r1.subs = r.subs \cup M
    BY <1>1, <1>3 DEF JobRecords, Steps
  <2> HIDE DEF r1
  <2>2. job'[q] = r1 /\ job' = [job EXCEPT ![q] = job'[q]]
    BY <1>1, <1>6, SetJob
  <2>3. InGroups(job[q])' \subseteq was'[q].in
    BY <1>1, <2>1, <2>2, WatchSees
  <2>4. InGroups(job[q])' = InGroups(r)
    BY <1>1, <2>1, <2>2 DEF InGroups, Owns, MembersOf, groupVars
  <2>5. r.scope # "subscriptions"
    BY <1>2 DEF PlanOK
  <2>6. PlanOK(r1, was'[q])
    BY <1>1, <1>5, <2>1, <2>3, <2>4, <2>5, WatchGrows DEF PlanOK, Late
  <2> QED BY <1>1, <2>1, <2>2, <2>6 DEF Advances, InHand
<1>7. CASE Set(q, r2)
  <2>1. /\ r2 \in JobRecords
        /\ r2.pc = "groups" /\ r2.groups = r.groups /\ r2.left \subseteq r.left
        /\ r2.kind = r.kind /\ r2.who = r.who /\ r2.target = r.target /\ r2.scope = r.scope
        /\ r2.cards = r.cards /\ r2.todo = r.todo /\ r2.made = r.made /\ r2.subs = r.subs
    BY <1>1 DEF JobRecords, Steps
  <2> HIDE DEF r2
  <2>2. job'[q] = r2 /\ job' = [job EXCEPT ![q] = job'[q]]
    BY <1>1, <1>7, SetJob
  <2>3. PlanOK(r2, was'[q])
    BY <1>1, <2>1, WatchGrows DEF PlanOK, Late
  <2> QED BY <1>1, <2>1, <2>2, <2>3 DEF Advances, InHand
<1>8. CASE Answer(q, "refused")
  <2>1. "refused" \in Answers0 /\ r.pc # "idle"
    BY <1>1 DEF Answers0
  <2> QED BY <1>1, <1>8, <2>1, AnswerAdvances
<1> QED BY <1>1, <1>6, <1>7, <1>8

LEMMA PartitionAdvances ==
  ASSUME JobsOK, Watch, NEW q \in Plans, PlanOK(job[q], was[q]), Partition(q)
  PROVE  Advances(q) /\ UNCHANGED groupVars
<1> DEFINE r == job[q]
           A == ToAdd(r)
           V == Available(r)
           x == [r EXCEPT !.planned = V]
           r1 == [r EXCEPT !.pc = "open", !.todo = A, !.planned = V]
<1>1. /\ q \in Jobs /\ q \notin Edits /\ r \in JobRecords /\ r.pc = "groups"
      /\ UNCHANGED groupVars
      /\ Answer(q, "refused") \/ Set(q, Ended(q, x, "ok")) \/ Set(q, r1)
  BY PlansAreJobs DEF Partition, JobsOK, Is
<1>2. A \subseteq r.subs /\ A \subseteq r.cards /\ A \in SUBSET Subs /\ V \in SUBSET Subs
  BY <1>1 DEF ToAdd, Available, JobRecords
<1> HIDE DEF A, V
<1>3. CASE Answer(q, "refused")
  <2>1. "refused" \in Answers0 /\ r.pc # "idle"
    BY <1>1 DEF Answers0
  <2> QED BY <1>1, <1>3, <2>1, AnswerAdvances
<1>4. CASE Set(q, Ended(q, x, "ok"))
  <2>1. /\ x \in JobRecords /\ x.made = r.made /\ x.scope = r.scope /\ x.target = r.target
        /\ x.who = r.who /\ x.kind = r.kind /\ x.groups = r.groups /\ x.subs = r.subs
    BY <1>1, <1>2 DEF JobRecords
  <2> HIDE DEF x
  <2> DEFINE e == Ended(q, x, "ok")
  <2>2. "ok" \in Answers0
    BY DEF Answers0
  <2>3. /\ e \in JobRecords
        /\ e.pc = "done" /\ e.cards = {} /\ e.todo = {} /\ e.made = r.made
        /\ e.scope = r.scope /\ e.target = r.target /\ e.who = r.who
        /\ e.kind = r.kind /\ e.groups = r.groups
        /\ e.subs = IF r.scope = "subscriptions" THEN r.subs ELSE {}
    BY <1>1, <2>1, <2>2, EndedAs
  <2> HIDE DEF e
  <2>4. job'[q] = e /\ job' = [job EXCEPT ![q] = job'[q]]
    BY <1>1, <1>4, SetJob DEF e
  <2>5. PlanOK(e, was'[q])
    BY <1>1, <2>3, WatchGrows DEF PlanOK, Late
  <2> QED BY <1>1, <2>3, <2>4, <2>5 DEF Advances, InHand
<1>5. CASE Set(q, r1)
  <2>1. /\ r1 \in JobRecords
        /\ r1.pc = "open" /\ r1.kind = r.kind /\ r1.who = r.who /\ r1.target = r.target
        /\ r1.scope = r.scope /\ r1.cards = r.cards /\ r1.todo = A /\ r1.made = r.made
        /\ r1.subs = r.subs /\ r1.groups = r.groups
    BY <1>1, <1>2 DEF JobRecords, Steps
  <2> HIDE DEF r1
  <2>2. job'[q] = r1 /\ job' = [job EXCEPT ![q] = job'[q]]
    BY <1>1, <1>5, SetJob
  <2>3. PlanOK(r1, was'[q])
    BY <1>1, <1>2, <2>1, WatchGrows DEF PlanOK, Late
  <2> QED BY <1>1, <2>1, <2>2, <2>3 DEF Advances, InHand
<1> QED BY <1>1, <1>3, <1>4, <1>5

LEMMA CopyAdvances ==
  ASSUME JobsOK, Watch, NEW q \in Plans, PlanOK(job[q], was[q]),
         \/ OpenTarget(q) \/ Cancelled(q) \/ CopyEnds(q)
         \/ \E s \in Subs : AttachOne(q, s)
  PROVE  Advances(q) /\ UNCHANGED groupVars
<1> DEFINE r == job[q]
           r1 == [r EXCEPT !.pc = "copy"]
           Did(s) == [r EXCEPT !.todo = @ \ {s}, !.made = @ \cup {s}]
           Lost(s) == [Counted(r, s) EXCEPT !.made = @ \cup {s}]
           Moves ==
                    \/ Answer(q, "refused") \/ Answer(q, "ok") \/ Answer(q, "partial")
                    \/ Set(q, r1)
                    \/ \E s \in r.todo : Set(q, Did(s)) \/ Set(q, Lost(s)) \/ Set(q, Counted(r, s))
<1> HIDE DEF r1, Did, Lost, Moves
<1>0. r.pc \in {"open", "copy"} /\ UNCHANGED groupVars /\ Moves
  <2>1. CASE OpenTarget(q) \/ Cancelled(q)
    BY <2>1, Zenon DEF OpenTarget, Cancelled, Is, Moves, r1
  <2>2. CASE CopyEnds(q)
    <3>1. Answer(q, "partial") \/ Answer(q, "ok")
      BY <2>2, Zenon DEF CopyEnds
    <3> QED BY <2>2, <3>1, Zenon DEF CopyEnds, Is, Moves
  <2>3. ASSUME NEW s \in Subs, AttachOne(q, s)
        PROVE  r.pc = "copy" /\ UNCHANGED groupVars /\ Moves
    BY <2>3, Zenon DEF AttachOne, Is, Moves, Did, Lost
  <2> QED BY <2>1, <2>2, <2>3, Zenon
<1>1. q \in Jobs /\ r \in JobRecords /\ r.pc \in {"open", "copy"} /\ UNCHANGED groupVars
  BY <1>0, PlansAreJobs DEF JobsOK
<1>2. \/ Answer(q, "refused") \/ Answer(q, "ok") \/ Answer(q, "partial")
      \/ Set(q, r1)
      \/ \E s \in r.todo : Set(q, Did(s)) \/ Set(q, Lost(s)) \/ Set(q, Counted(r, s))
  BY <1>0, Zenon DEF Moves
<1>3. CASE Answer(q, "refused") \/ Answer(q, "ok") \/ Answer(q, "partial")
  <2>1. {"refused", "ok", "partial"} \subseteq Answers0 /\ r.pc # "idle"
    BY <1>1 DEF Answers0
  <2> QED BY <1>1, <1>3, <2>1, AnswerAdvances
<1>4. ASSUME NEW x, Set(q, x), x \in JobRecords,
             x.pc \in {"open", "copy"} /\ x.kind = r.kind /\ x.who = r.who /\ x.target = r.target,
             x.scope = r.scope /\ x.cards = r.cards /\ x.subs = r.subs,
             x.groups = r.groups,
             x.todo \cup x.made \subseteq r.todo \cup r.made
      PROVE  Advances(q)
  <2>1. job'[q] = x /\ job' = [job EXCEPT ![q] = job'[q]]
    BY <1>1, <1>4, SetJob
  <2>2. PlanOK(x, was'[q])
    BY <1>1, <1>4, WatchGrows DEF PlanOK, Late
  <2> QED BY <1>4, <2>1, <2>2 DEF Advances, InHand
<1>5. CASE Set(q, r1)
  <2>1. /\ r1 \in JobRecords /\ r1.pc = "copy" /\ r1.kind = r.kind /\ r1.who = r.who
        /\ r1.target = r.target /\ r1.scope = r.scope /\ r1.cards = r.cards
        /\ r1.subs = r.subs /\ r1.todo = r.todo /\ r1.made = r.made
        /\ r1.groups = r.groups
    BY <1>1 DEF JobRecords, Steps, r1
  <2> QED BY <1>1, <1>4, <1>5, <2>1
<1>6. ASSUME NEW s \in r.todo, Set(q, Did(s)) \/ Set(q, Lost(s)) \/ Set(q, Counted(r, s))
      PROVE  Advances(q)
  <2>1. /\ Did(s) \in JobRecords /\ Did(s).pc = r.pc /\ Did(s).kind = r.kind /\ Did(s).who = r.who
        /\ Did(s).target = r.target /\ Did(s).scope = r.scope /\ Did(s).cards = r.cards
        /\ Did(s).groups = r.groups
        /\ Did(s).subs = r.subs /\ Did(s).todo = r.todo \ {s} /\ Did(s).made = r.made \cup {s}
    BY <1>1 DEF JobRecords, Steps, Did
  <2>2. /\ Lost(s) \in JobRecords /\ Lost(s).pc = r.pc /\ Lost(s).kind = r.kind /\ Lost(s).who = r.who
        /\ Lost(s).target = r.target /\ Lost(s).scope = r.scope /\ Lost(s).cards = r.cards
        /\ Lost(s).groups = r.groups
        /\ Lost(s).subs = r.subs /\ Lost(s).todo = r.todo \ {s} /\ Lost(s).made = r.made \cup {s}
    BY <1>1 DEF JobRecords, Steps, Counted, Lost
  <2>3. /\ Counted(r, s) \in JobRecords /\ Counted(r, s).pc = r.pc /\ Counted(r, s).kind = r.kind
        /\ Counted(r, s).who = r.who /\ Counted(r, s).target = r.target /\ Counted(r, s).scope = r.scope
        /\ Counted(r, s).cards = r.cards /\ Counted(r, s).subs = r.subs
        /\ Counted(r, s).groups = r.groups
        /\ Counted(r, s).todo = r.todo \ {s} /\ Counted(r, s).made = r.made
    BY <1>1 DEF JobRecords, Steps, Counted
  <2>4. CASE Set(q, Did(s))
    BY <1>4, <1>1, <2>1, <2>4
  <2>5. CASE Set(q, Lost(s))
    BY <1>4, <1>1, <2>2, <2>5
  <2>6. CASE Set(q, Counted(r, s))
    BY <1>4, <1>1, <2>3, <2>6
  <2> QED BY <1>6, <2>4, <2>5, <2>6, Zenon
<1> QED BY <1>1, <1>2, <1>3, <1>5, <1>6

-----------------------------------------------------------------------------
(* The invariant.                                                           *)

PlansOK ==
  /\ \A q \in Plans : PlanOK(job[q], was[q]) /\ InHand(job[q])
  /\ \A q \in Edits : job[q].made = {}

PlanInv == JobsOK /\ RowsOK /\ PlansOK

LEMMA PlanInit == PlannerInit => PlanInv
<1> SUFFICES ASSUME PlannerInit PROVE PlanInv
  OBVIOUS
<1>1. /\ NoJob \in JobRecords
      /\ NoJob.pc = "idle" /\ NoJob.cards = {} /\ NoJob.todo = {} /\ NoJob.made = {}
      /\ NoJob.subs = {} /\ NoJob.groups = {}
  BY DEF NoJob, JobRecords, Steps
<1>2. JobsOK /\ \A q \in Jobs : job[q] = NoJob
  BY <1>1 DEF PlannerInit, JobsOK
<1>3. ASSUME NEW q \in Jobs PROVE PlanOK(job[q], was[q]) /\ InHand(job[q]) /\ job[q].made = {}
  BY <1>1, <1>2 DEF PlanOK, InHand, Late
<1>4. PlansOK
  BY <1>3 DEF PlansOK, Jobs
<1> QED BY <1>2, <1>4, RowsInit DEF PlanInv

LEMMA PlanStep == PlanInv /\ [PlannerNext]_plannerVars => PlanInv'
<1> SUFFICES ASSUME PlanInv, [PlannerNext]_plannerVars PROVE PlanInv'
  OBVIOUS
<1>1. JobsOK /\ RowsOK /\ PlansOK /\ PlansOK!1 /\ PlansOK!2
  BY DEF PlanInv, PlansOK
<1>2. CASE UNCHANGED plannerVars
  <2>1. UNCHANGED <<groups, members, accounts, lastGroup, job, was>>
    BY <1>2 DEF plannerVars, groupVars
  <2> QED BY <1>1, <2>1 DEF PlanInv, PlansOK, JobsOK, RowsOK, InHand, Known
<1>3. CASE PlannerNext
  <2>1. Watch /\ PlannerStep
    BY <1>3 DEF PlannerNext
  <2>2. ASSUME NEW q \in Plans, job'[q] = job[q], GroupStep
        PROVE  PlanOK(job'[q], was'[q]) /\ InHand(job[q])'
    <3>1. q \in Jobs /\ PlanOK(job[q], was[q]) /\ InHand(job[q])
      BY <1>1, PlansAreJobs DEF PlansOK
    <3>2. PlanOK(job'[q], was'[q])
      BY <2>1, <2>2, <3>1, PlanKept
    <3>3. ASSUME job[q].pc = "members" PROVE InHand(job[q])'
      <4>1. job[q].who \in Users /\ job[q].group \in GroupIds /\ Known(job[q].who, job[q].group)
        BY <3>1, <3>3 DEF PlanOK, InHand
      <4>2. Known(job[q].who, job[q].group)'
        <5>1. \A u \in Users, g \in GroupIds : Known(u, g) => Known(u, g)'
          BY <1>1, <2>2, RowsStep
        <5>2. ASSUME NEW u \in Users, NEW g \in GroupIds, Known(u, g),
                     u = job[q].who, g = job[q].group
              PROVE  Known(job[q].who, job[q].group)'
          BY <2>2, <5>1, <5>2 DEF Known
        <5> QED BY <4>1, <5>2
      <4> QED BY <2>2, <3>1, <3>3, <4>2 DEF InHand
    <3>4. ASSUME job[q].pc # "members" PROVE InHand(job[q])'
      BY <2>2, <3>4 DEF InHand
    <3> QED BY <3>2, <3>3, <3>4
  <2>3. CASE OthersAct
    <3>1. UNCHANGED job /\ GroupStep
      BY <2>3, OthersLeaveJobs
    <3>2. RowsOK'
      BY <1>1, <3>1, RowsStep
    <3> QED BY <1>1, <2>2, <3>1, <3>2 DEF PlanInv, PlansOK, JobsOK
  <2>4. ASSUME NEW q \in Edits, EditActs(q) PROVE PlanInv'
    <3>1. PICK r \in JobRecords :
            job' = [job EXCEPT ![q] = r] /\ (job[q].made = {} => r.made = {})
      BY <1>1, <2>4, EditStep
    <3>2. GroupStep
      BY <1>1, <2>4, EditStep
    <3>3. RowsOK'
      BY <1>1, <3>2, RowsStep
    <3>4. q \in Jobs /\ \A p \in Plans : p # q /\ p \in Jobs
      BY PlannerAssumption DEF Jobs
    <3>5. JobsOK' /\ job'[q] = r /\ \A p \in Jobs \ {q} : job'[p] = job[p]
      BY <1>1, <3>1, <3>4 DEF JobsOK
    <3>6. \A p \in Edits : job'[p].made = {}
      BY <1>1, <3>1, <3>5 DEF PlansOK, Jobs
    <3>7. \A p \in Plans : PlanOK(job'[p], was'[p]) /\ InHand(job[p])'
      BY <2>2, <3>2, <3>4, <3>5
    <3> QED BY <3>3, <3>5, <3>6, <3>7 DEF PlanInv, PlansOK
  <2>5. ASSUME NEW q \in Plans, PlanActs(q) PROVE PlanInv'
    <3>1. PlanOK(job[q], was[q]) /\ InHand(job[q])
      BY <1>1 DEF PlansOK
    <3>2. Advances(q) /\ UNCHANGED groupVars
      BY <1>1, <2>1, <2>5, <3>1, StartAdvances, CatalogAdvances, GroupAdvances, MembersAdvance,
         PartitionAdvances, CopyAdvances DEF PlanActs
    <3>3. GroupStep
      BY <3>2 DEF GroupStep
    <3>4. RowsOK'
      BY <1>1, <3>3, RowsStep
    <3>5. q \in Jobs /\ \A p \in Edits : p # q /\ p \in Jobs
      BY PlannerAssumption DEF Jobs
    <3>6. JobsOK' /\ \A p \in Jobs \ {q} : job'[p] = job[p]
      BY <1>1, <3>2, <3>5 DEF JobsOK, Advances
    <3>7. \A p \in Edits : job'[p].made = {}
      BY <1>1, <3>5, <3>6 DEF PlansOK
    <3>8. ASSUME NEW p \in Plans PROVE PlanOK(job'[p], was'[p]) /\ InHand(job[p])'
      <4>1. CASE p = q
        BY <3>2, <4>1 DEF Advances
      <4>2. CASE p # q
        BY <2>2, <3>3, <3>6, <4>2 DEF Jobs
      <4> QED BY <4>1, <4>2
    <3> QED BY <3>4, <3>6, <3>7, <3>8 DEF PlanInv, PlansOK
  <2> QED BY <2>1, <2>3, <2>4, <2>5, WhoseStep
<1> QED BY <1>2, <1>3

\* Whatever changes while a plan is made and run, it attaches only what was in the
\* user's own chosen groups, or is in the chosen list, and was in the user's own
\* catalogue, to the user's inbound.
THEOREM OnlyChosenAttached == PlannerSpec => []AttachesOnlyChosen
<1>1. PlanInv => AttachesOnlyChosen
  BY DEF PlanInv, PlansOK, PlanOK, AttachesOnlyChosen, Jobs
<1> QED BY <1>1, PlanInit, PlanStep, PTL DEF PlannerSpec

-----------------------------------------------------------------------------
(* What requests answer.                                                    *)

\* A request of a group page: what it says was so while it ran.
EditOK(r, w) ==
  /\ r.pc # "idle" =>
       /\ r.kind \in {"delete", "rename", "add", "remove"}
       /\ \E g \in GroupIds : r.groups = {g}
       /\ r.kind = "remove" => \E s \in Subs : r.subs = {s}
  /\ r.pc = "removed" => r.kind = "remove" /\ r.subs \subseteq w.out
  /\ r.pc = "done" =>
       /\ r.answer = "missing" => w.gone
       /\ r.answer = "ok" =>
            /\ r.kind = "add" => r.subs \subseteq w.in
            /\ r.kind = "remove" => r.subs \subseteq w.out
            /\ r.kind = "delete" => w.gone

\* A plan: what it has attached without a failure was attached while it ran, and the
\* rest of what it is for was shown on the target when the snapshot was read.
CopyOK(r, w) ==
  /\ r.pc # "idle" => r.kind \in {"apply", "onboard"}
  /\ r.pc \in {"groups", "members"} /\ r.kind = "apply" => r.on \subseteq w.seen
  /\ r.pc \in {"open", "copy"} /\ ~r.failed =>
       r.planned \ r.todo \subseteq IF r.kind = "apply" THEN w.on \cup w.seen ELSE w.on
  /\ r.pc = "done" =>
       /\ r.answer # "missing"
       /\ r.answer = "ok" /\ r.kind = "onboard" => r.planned \subseteq w.on
       /\ r.answer = "ok" /\ r.kind = "apply" => r.planned \subseteq w.on \cup w.seen

\* A server is marked by an onboarding that ended with success.
Earned(t) ==
  \E q \in Plans :
    job[q].pc = "done" /\ job[q].kind = "onboard" /\ job[q].answer = "ok" /\ job[q].target = t

PanelsOK == panel \in [Inbounds -> [Subs -> Presence]]

AnswersOK ==
  /\ PanelsOK
  /\ \A q \in Edits : EditOK(job[q], was[q])
  /\ \A q \in Plans : CopyOK(job[q], was[q])
  /\ \A t \in onboarded : Earned(t)

LEMMA WatchTells ==
  ASSUME Watch, NEW q \in Jobs, job'[q].pc # "idle", job[q].pc # "done"
  PROVE  /\ InGroups(job[q])' \subseteq was'[q].in
         /\ q \in Edits => Subs \ InGroups(job[q])' \subseteq was'[q].out
         /\ q \in Edits /\ (\E g \in job'[q].groups : ~Owns(job[q].who, g)') => was'[q].gone
         /\ \A s \in Subs : job'[q].target # Nil /\ panel'[job'[q].target][s] = "attached" => s \in was'[q].on
         /\ job'[q].target # Nil /\ Mutable(job[q].target, job[q].who)' => On(job[q].target)' \subseteq was'[q].seen
BY DEF Watch, Facts

LEMMA WatchKeeps ==
  ASSUME Watch, NEW q \in Jobs
  PROVE  /\ was[q].in \subseteq was'[q].in /\ was[q].out \subseteq was'[q].out
         /\ was[q].on \subseteq was'[q].on /\ (was[q].gone => was'[q].gone)
         /\ was[q].seen \subseteq was'[q].seen
BY DEF Watch

LEMMA EditAnswers ==
  ASSUME JobsOK, RowsOK, Watch, NEW q \in Edits, EditActs(q), EditOK(job[q], was[q])
  PROVE  EditOK(job'[q], was'[q])
<1>1. job[q] \in JobRecords /\ q \in Jobs
  BY DEF JobsOK, Jobs
<1>2. ASSUME NEW u \in Visitors, NEW g \in GroupIds, NEW S \in SUBSET Subs,
             NEW kind \in {"add", "delete", "rename", "remove"}, StartGroupAction(q, u, g, kind, S),
             kind = "remove" => \E s \in Subs : S = {s}
      PROVE  EditOK(job'[q], was'[q])
  <2> PICK a \in {IF FoundGroup(u, g) THEN Nil ELSE "missing", "error"} :
             Set(q, [NoJob EXCEPT !.pc = IF a = Nil THEN "action" ELSE "done",
                       !.kind = kind, !.who = u, !.groups = {g}, !.subs = S, !.answer = a])
    BY <1>2 DEF StartGroupAction
  <2>1. /\ job'[q] = [NoJob EXCEPT !.pc = IF a = Nil THEN "action" ELSE "done",
                        !.kind = kind, !.who = u, !.groups = {g}, !.subs = S, !.answer = a]
        /\ UNCHANGED groupVars /\ job[q].pc = "idle"
    BY <1>1, <1>2 DEF StartGroupAction, Set, Is, JobsOK
  <2>2. /\ job'[q].kind = kind /\ job'[q].groups = {g} /\ job'[q].subs = S /\ job'[q].who = u
        /\ job'[q].answer = a
        /\ a = Nil => job'[q].pc = "action"
        /\ a # Nil => job'[q].pc = "done"
    BY <2>1 DEF NoJob
  <2>3. a = "missing" /\ a # Nil => was'[q].gone
    <3>1. groups' = groups /\ job'[q].pc # "idle" /\ g \in job'[q].groups
      BY <2>1, <2>2 DEF groupVars
    <3>2. ~FoundGroup(u, g) => ~Owns(job[q].who, g)'
      BY <2>2, <3>1 DEF FoundGroup, Owns
    <3>3. (\E h \in job'[q].groups : ~Owns(job[q].who, h)') => was'[q].gone
      BY <1>1, <2>1, <3>1, WatchTells
    <3> QED
      BY <3>1, <3>2, <3>3
  <2>4. \E h \in GroupIds : job'[q].groups = {h}
    BY <2>2
  <2>5. job'[q].kind = "remove" => \E s \in Subs : job'[q].subs = {s}
    BY <1>2, <2>2
  <2>6. CASE a = Nil
    BY <2>2, <2>4, <2>5, <2>6 DEF EditOK
  <2>7. CASE a # Nil
    <3>1. a \in {"missing", "error"}
      BY <2>7
    <3> QED BY <2>2, <2>3, <2>4, <2>5, <2>7, <3>1 DEF EditOK
  <2> QED
    BY <2>6, <2>7
<1>3. ASSUME NEW a \in {"ok", "error"}, Answer(q, a), job[q].pc \in {"action", "removed"},
             LET r == job[q] IN
             /\ a = "ok" =>
                  /\ r.kind = "add" => r.subs \subseteq was'[q].in
                  /\ r.kind = "remove" => r.subs \subseteq was'[q].out
                  /\ r.kind = "delete" => was'[q].gone
      PROVE  EditOK(job'[q], was'[q])
  <2>1. a \in Answers0
    BY DEF Answers0
  <2>2. PICK r \in JobRecords :
          /\ job' = [job EXCEPT ![q] = r]
          /\ r.pc = "done" /\ r.kind = job[q].kind /\ r.groups = job[q].groups /\ r.answer = a
          /\ r.subs = job[q].subs
    BY <1>1, <1>3, <2>1, AnswerEnds
  <2>3. job'[q] = r
    BY <1>1, <2>2 DEF JobsOK
  <2> QED
    BY <1>3, <2>2, <2>3 DEF EditOK
<1>4. CASE GroupAction(q)
  <2>1. PICK g \in job[q].groups :
          LET u == job[q].who
          IN  \/ job[q].kind = "delete" /\ DeleteClientGroup(u, g) /\ Answer(q, "ok")
              \/ job[q].kind = "rename" /\ Answer(q, "ok")
              \/ job[q].kind = "add" /\ AddClientGroupMembers(u, g, job[q].subs) /\ Answer(q, "ok")
              \/ /\ job[q].kind = "remove"
                 /\ \E s \in job[q].subs : RemoveClientGroupMember(u, g, s)
                 /\ IF members' # members THEN Answer(q, "ok") ELSE Set(q, [job[q] EXCEPT !.pc = "removed"])
              \/ Answer(q, "error") /\ UNCHANGED groupVars
    BY <1>4 DEF GroupAction
  <2>2. job[q].pc = "action" /\ job[q].groups = {g} /\ job[q].subs \in SUBSET Subs
    BY <1>1, <1>4, <2>1 DEF GroupAction, Is, EditOK, JobRecords
  <2>3. CASE job[q].kind = "delete" /\ DeleteClientGroup(job[q].who, g) /\ Answer(q, "ok")
    <3>1. job'[q].pc # "idle" /\ job'[q].groups = {g}
      BY <1>1, <2>2, <2>3, AnswerEnds DEF JobsOK, Answers0
    <3>2. ~Owns(job[q].who, g)'
      <4>1. job'[q].who = job[q].who
        BY <1>1, <2>3, AnswerEnds DEF JobsOK, Answers0
      <4> QED
        BY <2>3, <4>1 DEF DeleteClientGroup, Owns
    <3>3. was'[q].gone
      BY <1>1, <2>2, <3>1, <3>2, WatchTells
    <3> QED
      BY <1>3, <2>2, <2>3, <3>3
  <2>4. CASE job[q].kind = "rename" /\ Answer(q, "ok")
    BY <1>3, <2>2, <2>4
  <2>5. CASE job[q].kind = "add" /\ AddClientGroupMembers(job[q].who, g, job[q].subs) /\ Answer(q, "ok")
    <3>1. job'[q].pc # "idle" /\ job'[q].groups = {g} /\ job'[q].who = job[q].who
      BY <1>1, <2>2, <2>5, AnswerEnds DEF JobsOK, Answers0
    <3>2. /\ Owns(job[q].who, g) /\ groups' = groups
          /\ members' = members \cup {Member(g, s) : s \in job[q].subs}
      BY <2>5 DEF AddClientGroupMembers, FoundGroup
    <3>3. ASSUME NEW s \in job[q].subs
          PROVE  s \in MembersOf(g)'
      <4>1. Member(g, s) \in members' /\ Member(g, s).group = g /\ Member(g, s).sub = s
        BY <3>2 DEF Member
      <4> QED
        BY <4>1 DEF MembersOf
    <3>4. job[q].subs \subseteq InGroups(job[q])'
      BY <2>2, <3>1, <3>2, <3>3 DEF InGroups, Owns
    <3>5. job[q].subs \subseteq was'[q].in
      BY <1>1, <2>2, <3>1, <3>4, WatchTells
    <3> QED
      BY <1>3, <2>2, <2>5, <3>5
  <2>6. CASE /\ job[q].kind = "remove"
             /\ \E s \in job[q].subs : RemoveClientGroupMember(job[q].who, g, s)
             /\ IF members' # members THEN Answer(q, "ok") ELSE Set(q, [job[q] EXCEPT !.pc = "removed"])
    <3>1. PICK s \in Subs : job[q].subs = {s}
      BY <2>2, <2>6 DEF EditOK
    <3>2. RemoveClientGroupMember(job[q].who, g, s)
      BY <2>6, <3>1
    <3>3. /\ job'[q].groups = {g} /\ job'[q].who = job[q].who /\ job'[q].pc # "idle"
      <4>1. CASE Answer(q, "ok")
        BY <1>1, <2>2, <4>1, AnswerEnds DEF JobsOK, Answers0
      <4>2. CASE Set(q, [job[q] EXCEPT !.pc = "removed"])
        BY <1>1, <2>2, <4>2 DEF JobsOK, JobRecords, Set
      <4> QED
        BY <2>6, <4>1, <4>2
    <3>4. s \notin InGroups(job[q])'
      <4>1. Owns(job[q].who, g)' => Member(g, s) \notin members'
        BY <3>2, <3>3 DEF RemoveClientGroupMember, FoundGroup, Owns
      <4>2. s \in MembersOf(g)' => \E m \in members' : m.group = g /\ m.sub = s
        BY DEF MembersOf
      <4>3. \A m \in members' : m = Member(m.group, m.sub)
        BY <3>2 DEF RemoveClientGroupMember, RowsOK, MemberRows, Member
      <4> QED
        BY <3>3, <4>1, <4>2, <4>3 DEF InGroups
    <3>5. job[q].subs \subseteq was'[q].out
      BY <1>1, <2>2, <3>1, <3>3, <3>4, WatchTells
    <3>6. CASE Answer(q, "ok")
      BY <1>3, <2>2, <2>6, <3>5, <3>6
    <3>7. CASE Set(q, [job[q] EXCEPT !.pc = "removed"])
      <4>1. /\ job'[q].pc = "removed" /\ job'[q].kind = job[q].kind /\ job'[q].subs = job[q].subs
            /\ job'[q].groups = job[q].groups
        BY <1>1, <3>7 DEF JobsOK, JobRecords, Set
      <4> QED
        BY <2>2, <2>6, <3>5, <4>1 DEF EditOK
    <3> QED
      BY <2>6, <3>6, <3>7
  <2>7. CASE Answer(q, "error") /\ UNCHANGED groupVars
    BY <1>3, <2>2, <2>7
  <2> QED
    BY <2>1, <2>3, <2>4, <2>5, <2>6, <2>7
<1>5. CASE CheckRemoved(q)
  <2>1. Answer(q, "ok") \/ Answer(q, "error")
    BY <1>5 DEF CheckRemoved
  <2>2. job[q].pc = "removed" /\ job[q].kind = "remove" /\ job[q].subs \subseteq was'[q].out
    BY <1>1, <1>5, WatchKeeps DEF CheckRemoved, Is, EditOK
  <2> QED
    BY <1>3, <2>1, <2>2
<1>6. CASE \E u \in Visitors, g \in GroupIds, S \in SUBSET Subs : Starts(q, u, g, S)
  BY <1>2, <1>6 DEF Starts
<1> QED
  BY <1>4, <1>5, <1>6 DEF EditActs

LEMMA CopyAnswers ==
  ASSUME JobsOK, PanelsOK, Watch, NEW q \in Plans, PlanActs(q), PlanOK(job[q], was[q]),
         CopyOK(job[q], was[q])
  PROVE  CopyOK(job'[q], was'[q])
<1> DEFINE Goal == CopyOK(job'[q], was'[q])
           Vouched == IF job[q].kind = "apply" THEN was'[q].on \cup was'[q].seen ELSE was'[q].on
<1>1. job[q] \in JobRecords /\ q \in Jobs /\ q \notin Edits
  BY PlansAreJobs, PlannerAssumption DEF JobsOK
<1>2. ASSUME NEW a \in {"refused", "ok", "partial"}, Answer(q, a),
             a = "ok" => job[q].planned \subseteq Vouched,
             job[q].pc # "idle"
      PROVE  Goal
  <2>1. a \in Answers0
    BY DEF Answers0
  <2>2. PICK r \in JobRecords :
          /\ job' = [job EXCEPT ![q] = r]
          /\ r.pc = "done" /\ r.kind = job[q].kind /\ r.planned = job[q].planned /\ r.answer = a
          /\ r.target = job[q].target
    BY <1>1, <1>2, <2>1, AnswerEnds
  <2>3. job'[q] = r
    BY <1>1, <2>2 DEF JobsOK
  <2> QED
    BY <1>2, <2>2, <2>3 DEF CopyOK
<1>3. was[q].on \subseteq was'[q].on /\ was[q].seen \subseteq was'[q].seen
  BY <1>1, WatchKeeps
<1>4. ASSUME NEW r, Set(q, r), CopyOK(r, was'[q])
      PROVE  Goal
  <2>1. job'[q] = r
    BY <1>1, <1>4 DEF Set, JobsOK
  <2> QED
    BY <1>4, <2>1
<1>5. ASSUME NEW u \in Visitors, NEW t \in Inbounds, NEW a \in Selections,
             StartApply(q, u, t, a) \/ StartOnboarding(q, u, t, a)
      PROVE  Goal
  <2>1. CASE StartApply(q, u, t, a)
    <3> DEFINE r == [NoJob EXCEPT !.pc = "plan", !.kind = "apply", !.who = u, !.target = t,
                       !.scope = a.scope, !.groups = GroupsOf(a),
                       !.subs = IF a.scope = "subscriptions" THEN a.subs ELSE {}]
    <3>1. Set(q, r) /\ r.pc = "plan" /\ r.kind = "apply" /\ r.planned = {}
      BY <2>1 DEF StartApply, NoJob
    <3> HIDE DEF r
    <3> QED
      BY <1>4, <3>1 DEF CopyOK
  <2>2. CASE StartOnboarding(q, u, t, a)
    <3> DEFINE r == [NoJob EXCEPT !.pc = "plan", !.kind = "onboard", !.who = u, !.target = t,
                       !.scope = a.scope, !.groups = GroupsOf(a)]
    <3>1. Set(q, r) /\ r.pc = "plan" /\ r.kind = "onboard" /\ r.planned = {}
      BY <2>2 DEF StartOnboarding, NoJob
    <3> HIDE DEF r
    <3> QED
      BY <1>4, <3>1 DEF CopyOK
  <2> QED
    BY <1>5, <2>1, <2>2
<1>6. CASE ReadCatalog(q)
  <2>1. job[q].pc = "plan"
    BY <1>6 DEF ReadCatalog, Is
  <2>2. CASE Answer(q, "refused")
    BY <1>2, <2>1, <2>2
  <2>3. CASE ~Answer(q, "refused")
    <3> DEFINE cards == Cards(job[q].who)
               r == PlanOf(job[q], cards, On(job[q].target),
                           IF job[q].scope = "all" THEN cards ELSE job[q].subs)
    <3>1. Set(q, r)
      BY <1>6, <2>3 DEF ReadCatalog, PlanOf
    <3>2. r.pc = "groups" /\ r.kind = job[q].kind /\ r.on = On(job[q].target) /\ r.target = job[q].target
      BY <1>1 DEF PlanOf, JobRecords
    <3> HIDE DEF r
    <3>3. job'[q] = r
      BY <1>1, <3>1, SetJob
    <3>4. ASSUME r.kind = "apply" PROVE r.on \subseteq was'[q].seen
      <4>1. Mutable(job[q].target, job[q].who) /\ UNCHANGED <<shown>>
        BY <1>6, <2>3, <3>2, <3>4 DEF ReadCatalog, siteVars
      <4>2. job'[q].target # Nil /\ job'[q].who = job[q].who
        BY <1>1, <2>1, <3>1, <3>2, <3>3, PlannerAssumption DEF PlanOK, PlanOf, JobRecords, r
      <4>3. Mutable(job[q].target, job[q].who)' /\ On(job[q].target)' = On(job[q].target)
        BY <3>2, <3>3, <4>1, <4>2 DEF Mutable, Shows, On
      <4>4. On(job[q].target)' \subseteq was'[q].seen
        BY <1>1, <2>1, <3>2, <3>3, <4>2, <4>3, WatchTells
      <4> QED BY <3>2, <4>3, <4>4
    <3> QED
      BY <1>4, <2>1, <3>1, <3>2, <3>4 DEF CopyOK
  <2> HIDE DEF Goal
  <2> QED
    BY <2>2, <2>3
<1>7. ASSUME ReadMembers(q) \/ \E g \in GroupIds : ReadGroup(q, g)
      PROVE  Goal
  <2>1. job[q].pc \in {"groups", "members"}
    <3>1. CASE ReadMembers(q)
      BY <3>1 DEF ReadMembers, Is
    <3>2. ASSUME NEW g \in GroupIds, ReadGroup(q, g) PROVE job[q].pc \in {"groups", "members"}
      BY <3>2 DEF ReadGroup, Is
    <3> HIDE DEF Goal
    <3> QED BY <1>7, <3>1, <3>2
  <2>2. CASE Answer(q, "refused")
    BY <1>2, <2>1, <2>2
  <2>3. CASE ~Answer(q, "refused")
    <3>1. ASSUME NEW r, Set(q, r), r.pc \in {"groups", "members"},
                 r.kind = job[q].kind, r.on = job[q].on
          PROVE  Goal
      BY <1>3, <1>4, <2>1, <3>1 DEF CopyOK
    <3>2. CASE ReadMembers(q)
      <4> DEFINE r1 == [job[q] EXCEPT !.pc = "groups", !.subs = @ \cup MembersOf(job[q].group), !.group = Nil]
                 r2 == [job[q] EXCEPT !.pc = "groups", !.left = @ \ {job[q].group}, !.group = Nil]
      <4>1. Set(q, r1) \/ Set(q, r2)
        BY <2>3, <3>2 DEF ReadMembers, GroupFails
      <4>2. /\ r1.pc = "groups" /\ r1.kind = job[q].kind /\ r1.on = job[q].on
            /\ r2.pc = "groups" /\ r2.kind = job[q].kind /\ r2.on = job[q].on
        BY <1>1 DEF JobRecords
      <4> HIDE DEF r1, r2, Goal
      <4> QED
        BY <3>1, <4>1, <4>2
    <3>3. ASSUME NEW g \in GroupIds, ReadGroup(q, g)
          PROVE  Goal
      <4> DEFINE r1 == [job[q] EXCEPT !.pc = "members", !.left = @ \ {g}, !.group = g]
                 r2 == [job[q] EXCEPT !.pc = "groups", !.left = @ \ {g}, !.group = Nil]
      <4>1. Set(q, r1) \/ Set(q, r2)
        BY <2>3, <3>3 DEF ReadGroup, GroupFails
      <4>2. /\ r1.pc = "members" /\ r1.kind = job[q].kind /\ r1.on = job[q].on
            /\ r2.pc = "groups" /\ r2.kind = job[q].kind /\ r2.on = job[q].on
        BY <1>1 DEF JobRecords
      <4> HIDE DEF r1, r2, Goal
      <4> QED
        BY <3>1, <4>1, <4>2
    <3> QED
      BY <1>7, <3>2, <3>3
  <2> QED
    BY <2>2, <2>3
<1>8. CASE Partition(q)
  <2>1. job[q].pc = "groups" /\ job[q].kind \in {"apply", "onboard"}
    BY <1>8 DEF Partition, Is, CopyOK
  <2> DEFINE V == Available(job[q])
             A == ToAdd(job[q])
             x == [job[q] EXCEPT !.planned = V]
             r == [job[q] EXCEPT !.pc = "open", !.todo = A, !.planned = V]
  <2>2. /\ job[q].kind = "apply" => V \ A \subseteq was'[q].seen
        /\ job[q].kind # "apply" => A = V
    BY <1>3, <2>1 DEF ToAdd, CopyOK
  <2>3. A \in SUBSET Subs /\ V \in SUBSET Subs
    BY <1>1 DEF ToAdd, Available, JobRecords
  <2>4. \/ Answer(q, "refused")
        \/ Set(q, Ended(q, x, "ok")) /\ A = {} /\ job[q].kind # "onboard"
        \/ Set(q, r)
    BY <1>8 DEF Partition
  <2> HIDE DEF A, V
  <2>5. CASE Answer(q, "refused")
    BY <1>2, <2>1, <2>5
  <2>6. CASE Set(q, Ended(q, x, "ok")) /\ A = {} /\ job[q].kind # "onboard"
    <3>1. x \in JobRecords /\ x.planned = V /\ x.kind = job[q].kind
      BY <1>1, <2>3 DEF JobRecords
    <3> HIDE DEF x
    <3> DEFINE e == Ended(q, x, "ok")
    <3>2. "ok" \in Answers0
      BY DEF Answers0
    <3>3. e.pc = "done" /\ e.kind = "apply" /\ e.planned = V /\ e.answer = "ok"
      BY <1>1, <2>1, <2>6, <3>1, <3>2, EndedAs
    <3> HIDE DEF e
    <3>4. CopyOK(e, was'[q])
      BY <2>1, <2>2, <2>6, <3>3 DEF CopyOK
    <3> QED
      BY <1>4, <2>6, <3>4 DEF e
  <2>7. CASE Set(q, r)
    <3>1. r.pc = "open" /\ r.kind = job[q].kind /\ r.planned = V /\ r.todo = A
      BY <1>1 DEF JobRecords
    <3> HIDE DEF r
    <3> QED
      BY <1>4, <2>1, <2>2, <2>7, <3>1 DEF CopyOK
  <2> QED
    BY <2>4, <2>5, <2>6, <2>7
<1>9. CASE OpenTarget(q)
  <2>1. job[q].pc = "open"
    BY <1>9 DEF OpenTarget, Is
  <2>2. CASE Answer(q, "refused")
    BY <1>2, <2>1, <2>2
  <2>3. CASE ~Answer(q, "refused")
    <3> DEFINE r == [job[q] EXCEPT !.pc = "copy"]
    <3>1. /\ Set(q, r) /\ r.pc = "copy" /\ r.kind = job[q].kind /\ r.planned = job[q].planned
          /\ r.todo = job[q].todo /\ r.failed = job[q].failed
      BY <1>1, <1>9, <2>3 DEF OpenTarget, JobRecords
    <3> HIDE DEF r
    <3> QED
      BY <1>3, <1>4, <2>1, <3>1 DEF CopyOK
  <2> QED
    BY <2>2, <2>3
<1>10. CASE Cancelled(q)
  BY <1>2, <1>10 DEF Cancelled, Is
<1>11. ASSUME NEW s \in Subs, AttachOne(q, s)
       PROVE  Goal
  <2>1. job[q].pc = "copy"
    BY <1>11 DEF AttachOne, Is
  <2>2. CASE /\ panel' = [panel EXCEPT ![job[q].target][s] = "attached"]
             /\ Set(q, [job[q] EXCEPT !.todo = @ \ {s}, !.made = @ \cup {s}])
    <3> DEFINE r == [job[q] EXCEPT !.todo = @ \ {s}, !.made = @ \cup {s}]
    <3>1. /\ r.pc = "copy" /\ r.kind = job[q].kind /\ r.planned = job[q].planned
          /\ r.todo = job[q].todo \ {s} /\ r.failed = job[q].failed /\ r.target = job[q].target
      BY <1>1, <2>1 DEF JobRecords
    <3>2. job'[q] = r
      BY <1>1, <2>2 DEF Set, JobsOK
    <3> HIDE DEF r
    <3>3. s \in was'[q].on
      <4>1. job'[q].target # Nil /\ panel'[job'[q].target][s] = "attached"
        <5>1. job[q].target \in Inbounds
          BY <2>1 DEF PlanOK
        <5>2. panel'[job[q].target][s] = "attached"
          BY <2>2, <5>1 DEF PanelsOK
        <5> QED
          BY <3>1, <3>2, <5>1, <5>2, PlannerAssumption
      <4> QED
        BY <1>1, <2>1, <3>1, <3>2, <4>1, WatchTells
    <3>4. Set(q, r)
      BY <2>2 DEF r
    <3> QED
      BY <1>3, <1>4, <2>1, <3>1, <3>3, <3>4 DEF CopyOK
  <2>3. CASE Set(q, Counted(job[q], s)) \/ Set(q, [Counted(job[q], s) EXCEPT !.made = @ \cup {s}])
    <3> DEFINE r1 == Counted(job[q], s)
               r2 == [Counted(job[q], s) EXCEPT !.made = @ \cup {s}]
    <3>1. /\ r1.pc = "copy" /\ r1.kind = job[q].kind /\ r1.failed
          /\ r2.pc = "copy" /\ r2.kind = job[q].kind /\ r2.failed
      BY <1>1, <2>1 DEF Counted, JobRecords
    <3> HIDE DEF r1, r2
    <3>2. ASSUME NEW r, Set(q, r), r.pc = "copy", r.kind = job[q].kind, r.failed
          PROVE  Goal
      BY <1>4, <2>1, <3>2 DEF CopyOK
    <3>3. Set(q, r1) \/ Set(q, r2)
      BY <2>3 DEF r1, r2
    <3> HIDE DEF Goal
    <3> QED
      BY <3>1, <3>2, <3>3
  <2> QED
    BY <1>11, <2>2, <2>3 DEF AttachOne
<1>12. CASE CopyEnds(q)
  <2>1. job[q].pc = "copy" /\ job[q].todo = {} /\ Answer(q, IF job[q].failed THEN "partial" ELSE "ok")
    BY <1>12 DEF CopyEnds, Is
  <2>2. CASE job[q].failed
    BY <1>2, <2>1, <2>2
  <2>3. CASE ~job[q].failed
    <3>1. job[q].planned \subseteq Vouched
      BY <1>3, <2>1, <2>3 DEF CopyOK
    <3> QED
      BY <1>2, <2>1, <2>3, <3>1
  <2> QED
    BY <2>2, <2>3
<1> QED
  BY <1>5, <1>6, <1>7, <1>8, <1>9, <1>10, <1>11, <1>12 DEF PlanActs

\* Panels keep their form.
\* The requests that leave panels and servers alone.
LEMMA EditsLeaveSites ==
  ASSUME NEW q \in Edits, EditActs(q)
  PROVE  UNCHANGED siteVars /\ \E r : job' = [job EXCEPT ![q] = r]
<1>1. CASE GroupAction(q) \/ CheckRemoved(q)
  BY <1>1 DEF GroupAction, CheckRemoved, Set, Answer
<1>2. ASSUME NEW u, NEW g, NEW kind, NEW S, StartGroupAction(q, u, g, kind, S)
      PROVE  UNCHANGED siteVars /\ \E r : job' = [job EXCEPT ![q] = r]
  BY <1>2 DEF StartGroupAction, Set
<1> QED
  BY <1>1, <1>2 DEF EditActs, Starts

LEMMA PlansLeaveSites ==
  ASSUME NEW q \in Plans, PlanActs(q)
  PROVE  /\ job[q].pc # "done" /\ \E r : job' = [job EXCEPT ![q] = r]
         /\ UNCHANGED siteVars \/ CopyEnds(q) \/ \E s \in Subs : AttachOne(q, s)
<1> USE DEF Is, Set, Answer
<1>1. CASE ReadCatalog(q) \/ Partition(q) \/ OpenTarget(q) \/ Cancelled(q)
  BY <1>1 DEF ReadCatalog, Partition, OpenTarget, Cancelled
<1>2. CASE ReadMembers(q)
  BY <1>2 DEF ReadMembers, GroupFails
<1>3. ASSUME NEW g \in GroupIds, ReadGroup(q, g)
      PROVE  /\ job[q].pc # "done" /\ \E r : job' = [job EXCEPT ![q] = r]
             /\ UNCHANGED siteVars
  BY <1>3 DEF ReadGroup, GroupFails
<1>4. ASSUME NEW s \in Subs, AttachOne(q, s)
      PROVE  job[q].pc # "done" /\ \E r : job' = [job EXCEPT ![q] = r]
  BY <1>4 DEF AttachOne
<1>5. CASE CopyEnds(q)
  BY <1>5 DEF CopyEnds
<1>6. ASSUME NEW u, NEW t, NEW a, StartApply(q, u, t, a) \/ StartOnboarding(q, u, t, a)
      PROVE  /\ job[q].pc # "done" /\ \E r : job' = [job EXCEPT ![q] = r]
             /\ UNCHANGED siteVars
  BY <1>6 DEF StartApply, StartOnboarding
<1> QED
  BY <1>1, <1>2, <1>3, <1>4, <1>5, <1>6 DEF PlanActs

LEMMA SitesStep ==
  ASSUME PlannerStep, PanelsOK PROVE PanelsOK'
<1>1. CASE UNCHANGED siteVars
  BY <1>1 DEF siteVars, PanelsOK
<1>2. CASE OthersAct
  <2>1. CASE \E u \in Visitors, n \in Names : GroupCreated(u, n)
    BY <1>1, <2>1 DEF GroupCreated
  <2>2. ASSUME NEW t \in Inbounds, NEW s \in Subs, NEW p \in Presence, OthersChange(t, s, p)
        PROVE  PanelsOK'
    BY <2>2 DEF OthersChange, PanelsOK
  <2>3. CASE \E t \in Inbounds : Refresh(t) \/ RefreshFails(t) \/ OthersToggle(t) \/ ServerDeleted(t)
    BY <2>3 DEF Refresh, RefreshFails, OthersToggle, ServerDeleted, PanelsOK
  <2>4. CASE \E u \in Users : UserDeleted(u)
    BY <2>4 DEF UserDeleted, PanelsOK
  <2> QED
    BY <1>2, <2>1, <2>2, <2>3, <2>4 DEF OthersAct
<1>3. ASSUME NEW q \in Edits, EditActs(q)
      PROVE  UNCHANGED siteVars
  BY <1>3, EditsLeaveSites
<1>4. ASSUME NEW q \in Plans, PlanActs(q), ~ UNCHANGED siteVars
      PROVE  PanelsOK'
  <2>1. CASE CopyEnds(q)
    BY <2>1 DEF CopyEnds, PanelsOK
  <2>2. ASSUME NEW s \in Subs, AttachOne(q, s) PROVE PanelsOK'
    <3>1. panel' = panel \/ panel' = [panel EXCEPT ![job[q].target][s] = "attached"]
      BY <2>2 DEF AttachOne
    <3>2. "attached" \in Presence
      BY DEF Presence
    <3> QED
      BY <3>1, <3>2 DEF PanelsOK
  <2> QED
    BY <1>4, <2>1, <2>2, PlansLeaveSites
<1> QED
  BY <1>1, <1>2, <1>3, <1>4, WhoseStep

\* Only an onboarding that ends with success marks a server, and a request that has
\* ended stays as it is.
LEMMA MarksEarned ==
  ASSUME JobsOK, PlannerStep
  PROVE  /\ \A q \in Plans : job[q].pc = "done" => job'[q] = job[q]
         /\ \A t \in onboarded' : t \in onboarded \/ Earned(t)'
<1>1. CASE OthersAct
  <2>1. job' = job
    BY <1>1, OthersLeaveJobs
  <2>2. onboarded' = onboarded
    BY <1>1 DEF OthersAct, Refresh, RefreshFails, OthersToggle, ServerDeleted, OthersChange,
       UserDeleted, GroupCreated, siteVars
  <2> QED
    BY <2>1, <2>2
<1>2. ASSUME NEW q \in Edits, EditActs(q)
      PROVE  onboarded' = onboarded /\ \A p \in Plans : job'[p] = job[p]
  <2>1. onboarded' = onboarded
    BY <1>2, EditsLeaveSites DEF siteVars
  <2>2. \E r : job' = [job EXCEPT ![q] = r]
    BY <1>2, EditsLeaveSites
  <2>3. \A p \in Plans : p # q /\ p \in Jobs
    BY PlannerAssumption DEF Jobs
  <2> QED BY <2>1, <2>2, <2>3 DEF JobsOK
<1>3. ASSUME NEW q \in Plans, PlanActs(q)
      PROVE  /\ job[q].pc # "done" /\ \E r : job' = [job EXCEPT ![q] = r]
             /\ onboarded' = onboarded \/ CopyEnds(q)
  <2>1. ASSUME NEW s \in Subs, AttachOne(q, s)
        PROVE  onboarded' = onboarded
    BY <2>1 DEF AttachOne
  <2> QED
    BY <1>3, <2>1, PlansLeaveSites DEF siteVars
<1>4. ASSUME NEW q \in Plans, CopyEnds(q)
      PROVE  \A t \in onboarded' : t \in onboarded \/ Earned(t)'
  <2>1. CASE onboarded' = onboarded
    BY <2>1
  <2>2. CASE /\ job[q].kind = "onboard" /\ ~job[q].failed
             /\ onboarded' = onboarded \cup {job[q].target}
    <3>1. Answer(q, "ok") /\ q \in Jobs /\ "ok" \in Answers0
      BY <1>4, <2>2 DEF CopyEnds, Jobs, Answers0
    <3>2. PICK r \in JobRecords :
            /\ job' = [job EXCEPT ![q] = r]
            /\ r.pc = "done" /\ r.kind = job[q].kind /\ r.answer = "ok" /\ r.target = job[q].target
      BY <3>1, AnswerEnds
    <3>3. job'[q] = r
      BY <3>1, <3>2 DEF JobsOK
    <3> QED BY <2>2, <3>2, <3>3 DEF Earned
  <2> QED BY <1>4, <2>1, <2>2 DEF CopyEnds
<1>5. ASSUME NEW q \in Plans, PlanActs(q)
      PROVE  \A p \in Plans : job[p].pc = "done" => job'[p] = job[p]
  BY <1>3, <1>5 DEF JobsOK, Jobs
<1> QED
  BY <1>1, <1>2, <1>3, <1>4, <1>5, WhoseStep

LEMMA AnswersInit == PlannerInit => AnswersOK
<1> SUFFICES ASSUME PlannerInit PROVE AnswersOK
  OBVIOUS
<1>1. NoJob.pc = "idle"
  BY DEF NoJob
<1>2. \A q \in Jobs : job[q] = NoJob
  BY DEF PlannerInit
<1>3. PanelsOK
  BY StartAssumption DEF PlannerInit, PanelsOK
<1> QED
  BY <1>1, <1>2, <1>3 DEF AnswersOK, EditOK, CopyOK, Jobs, PlannerInit

LEMMA AnswersStep == PlanInv /\ AnswersOK /\ [PlannerNext]_plannerVars => AnswersOK'
<1> SUFFICES ASSUME PlanInv, AnswersOK, [PlannerNext]_plannerVars PROVE AnswersOK'
  OBVIOUS
<1>1. /\ JobsOK /\ RowsOK /\ PanelsOK
      /\ \A q \in Plans : PlanOK(job[q], was[q]) /\ CopyOK(job[q], was[q])
      /\ \A q \in Edits : EditOK(job[q], was[q])
  BY DEF PlanInv, PlansOK, AnswersOK
<1>2. CASE UNCHANGED plannerVars
  BY <1>2 DEF plannerVars, siteVars, AnswersOK, PanelsOK, Earned
<1>3. CASE PlannerNext
  <2>1. Watch /\ PlannerStep
    BY <1>3 DEF PlannerNext
  <2>2. PanelsOK' /\ \A t \in onboarded' : Earned(t)'
    <3>1. PanelsOK'
      BY <1>1, <2>1, SitesStep
    <3>2. /\ \A q \in Plans : job[q].pc = "done" => job'[q] = job[q]
          /\ \A t \in onboarded' : t \in onboarded \/ Earned(t)'
      BY <1>1, <2>1, MarksEarned
    <3>3. \A t \in onboarded : Earned(t)
      BY DEF AnswersOK
    <3>4. ASSUME NEW t \in onboarded PROVE Earned(t)'
      BY <3>2, <3>3 DEF Earned
    <3> QED BY <3>1, <3>2, <3>4
  <2>3. ASSUME NEW p \in Edits, job'[p] = job[p]
        PROVE  EditOK(job'[p], was'[p])
    <3>1. p \in Jobs /\ EditOK(job[p], was[p])
      BY <1>1 DEF Jobs
    <3> QED
      BY <2>1, <2>3, <3>1, WatchKeeps DEF EditOK
  <2>4. ASSUME NEW p \in Plans, job'[p] = job[p]
        PROVE  CopyOK(job'[p], was'[p])
    <3>1. p \in Jobs /\ CopyOK(job[p], was[p])
      BY <1>1 DEF Jobs
    <3>2. was[p].on \subseteq was'[p].on /\ was[p].seen \subseteq was'[p].seen
      BY <2>1, <3>1, WatchKeeps
    <3> QED
      BY <2>4, <3>1, <3>2 DEF CopyOK
  <2>5. CASE OthersAct
    BY <2>2, <2>3, <2>4, <2>5, OthersLeaveJobs DEF AnswersOK
  <2>6. ASSUME NEW q \in Edits, EditActs(q) PROVE AnswersOK'
    <3>1. EditOK(job'[q], was'[q])
      BY <1>1, <2>1, <2>6, EditAnswers
    <3>2. \A p \in Jobs \ {q} : job'[p] = job[p]
      BY <1>1, <2>6, EditStep DEF JobsOK
    <3>3. \A p \in Plans : p # q
      BY PlannerAssumption
    <3> QED
      BY <2>2, <2>3, <2>4, <3>1, <3>2, <3>3 DEF AnswersOK, Jobs
  <2>7. ASSUME NEW q \in Plans, PlanActs(q) PROVE AnswersOK'
    <3>1. CopyOK(job'[q], was'[q])
      BY <1>1, <2>1, <2>7, CopyAnswers
    <3>2. Advances(q)
      BY <1>1, <2>1, <2>7, StartAdvances, CatalogAdvances, GroupAdvances, MembersAdvance,
         PartitionAdvances, CopyAdvances DEF PlanActs, PlanInv, PlansOK
    <3>3. \A p \in Jobs \ {q} : job'[p] = job[p]
      BY <1>1, <3>2 DEF JobsOK, Advances
    <3>4. \A p \in Edits : p # q
      BY PlannerAssumption
    <3> QED
      BY <2>2, <2>3, <2>4, <3>1, <3>3, <3>4 DEF AnswersOK, Jobs
  <2> QED
    BY <2>1, <2>5, <2>6, <2>7, WhoseStep
<1> QED
  BY <1>2, <1>3

\* Whatever is changed meanwhile, a group page reports only what was so while its
\* request ran; a plan or an onboarding that ends with success has every subscription
\* it was for attached while it ran, or, for a plan, shown as attached by a snapshot
\* of that time; and only an onboarding that ended so marks its server.
THEOREM AnswersAreTrue == PlannerSpec => []GroupAnswersTrue
<1>1. PlanInv /\ AnswersOK => GroupAnswersTrue
  <2> SUFFICES ASSUME PlanInv, AnswersOK PROVE GroupAnswersTrue
    OBVIOUS
  <2>1. \A t \in onboarded : Earned(t)
    BY DEF AnswersOK
  <2>2. ASSUME NEW q \in Edits PROVE job[q].pc = "done" => job[q].kind \notin {"apply", "onboard"}
    BY DEF AnswersOK, EditOK
  <2>3. ASSUME NEW q \in Plans PROVE job[q].pc = "done" => job[q].kind \in {"apply", "onboard"}
    BY DEF AnswersOK, CopyOK
  <2> QED BY <2>1, <2>2, <2>3 DEF AnswersOK, EditOK, CopyOK, Earned, Jobs, GroupAnswersTrue
<1>2. PlannerInit => PlanInv /\ AnswersOK
  BY PlanInit, AnswersInit
<1>3. PlanInv /\ AnswersOK /\ [PlannerNext]_plannerVars => (PlanInv /\ AnswersOK)'
  BY PlanStep, AnswersStep
<1> QED
  BY <1>1, <1>2, <1>3, PTL DEF PlannerSpec

(***************************************************************************)
(* PanelClient: a change is posted at most once; a listing of a panel that *)
(* nobody changes is exact, and it fails only for a reason; a listing of a *)
(* panel that others change misses clients only by their removals.  All of *)
(* it for any page size, any limit and any number of clients and changes.  *)
(***************************************************************************)

-----------------------------------------------------------------------------
(* One request.                                                             *)

CallOK ==
  /\ op \in Operations
  /\ phase \in Waiting \cup {"ok", "failed"}
  /\ attempt \in Nat /\ troubles \in Nat
  /\ attempt > 0 => troubles > 0

\* Nobody asks again for a change: what was sent is answered, on its way, or lost.
PostInv ==
  /\ posted \in Nat /\ stray \in Nat
  /\ op # "post" => posted = 0 /\ stray = 0
  /\ op = "post" =>
       /\ phase = "sent" => posted = 0 /\ stray = 0 /\ attempt = 0
       /\ phase \in {"answered", "ok"} => posted = 1 /\ stray = 0
       /\ posted + stray <= 1

USE DEF Waiting, Operations

LEMMA CallInit == PanelInit => CallOK /\ PostInv
BY DEF PanelInit, CallOK, PostInv

LEMMA CallStep == CallOK /\ PostInv /\ [PanelNext]_panelVars => CallOK' /\ PostInv'
<1> SUFFICES ASSUME CallOK, PostInv, [PanelNext]_panelVars PROVE CallOK' /\ PostInv'
  OBVIOUS
<1> USE DEF CallOK, PostInv
<1>1. ASSUME NEW e \in Emails, NEW i \in 1..(Len(list) + 1), OthersAdd(e, i)
      PROVE  CallOK' /\ PostInv'
  BY <1>1 DEF OthersAdd, callSide
<1>2. ASSUME NEW i \in 1..Len(list), OthersRemove(i) PROVE CallOK' /\ PostInv'
  BY <1>2 DEF OthersRemove, callSide
<1>3. CASE PanelHandles
  BY <1>3 DEF PanelHandles, history
<1>4. CASE PanelHandlesStray
  BY <1>4 DEF PanelHandlesStray, callSide, history
<1>5. CASE TemporaryFault
  <2>1. stray' \in IF op = "post" /\ phase = "sent" THEN {stray, stray + 1} ELSE {stray}
    BY <1>5 DEF TemporaryFault, Abandons
  <2>2. op = "post" => phase' = "failed"
    BY <1>5 DEF TemporaryFault, Attempts
  <2>3. /\ phase \in {"sent", "answered"} /\ phase' \in {"sent", "failed"}
        /\ op' = op /\ posted' = posted
        /\ attempt' \in {attempt, attempt + 1}
        /\ troubles' = troubles + 1
    BY <1>5 DEF TemporaryFault
  <2>4. CallOK'
    BY <2>3
  <2>5. CASE op # "post"
    BY <2>1, <2>3, <2>5
  <2>6. CASE op = "post"
    <3>1. posted + stray' <= 1 /\ stray' \in Nat
      <4>1. CASE phase = "sent"
        <5>1. posted = 0 /\ (stray' = 0 \/ stray' = 1)
          BY <2>1, <2>3, <2>6, <4>1
        <5> QED BY <5>1
      <4>2. CASE phase = "answered"
        <5>1. posted = 1 /\ stray = 0 /\ stray' = stray
          BY <2>1, <2>3, <2>6, <4>2
        <5> QED BY <5>1
      <4> QED BY <2>1, <2>3, <2>6, <4>1, <4>2
    <3> QED BY <2>2, <2>3, <2>4, <2>6, <3>1
  <2> QED BY <2>4, <2>5, <2>6
<1>6. CASE PermanentFault
  <2>1. stray' \in IF op = "post" /\ phase = "sent" THEN {stray, stray + 1} ELSE {stray}
    BY <1>6 DEF PermanentFault, Abandons
  <2>2. /\ phase \in {"sent", "answered"} /\ phase' = "failed"
        /\ UNCHANGED <<op, posted, attempt, troubles>>
    BY <1>6 DEF PermanentFault
  <2>3. CallOK'
    BY <2>2
  <2>4. CASE op # "post"
    BY <2>1, <2>2, <2>3, <2>4
  <2>5. CASE op = "post"
    <3>1. posted + stray' <= 1 /\ stray' \in Nat
      <4>1. CASE phase = "sent"
        <5>1. posted = 0 /\ (stray' = 0 \/ stray' = 1)
          BY <2>1, <2>2, <2>5, <4>1
        <5> QED BY <5>1
      <4>2. CASE phase = "answered"
        <5>1. posted = 1 /\ stray = 0 /\ stray' = stray
          BY <2>1, <2>2, <2>5, <4>2
        <5> QED BY <5>1
      <4> QED BY <2>1, <2>2, <2>5, <4>1, <4>2
    <3> QED BY <2>2, <2>3, <2>5, <3>1
  <2> QED BY <2>3, <2>4, <2>5
<1>7. CASE Answered
  BY <1>7 DEF Answered, panelSide, history
<1>8. CASE EmptyOrRepeated \/ AllRead \/ LimitExceeded
  <2>1. /\ op = "list" /\ phase' \in {"ok", "failed"}
        /\ UNCHANGED <<posted, stray, op, attempt, troubles>>
    BY <1>8 DEF EmptyOrRepeated, AllRead, LimitExceeded, PageRead, Ends, panelSide
  <2> QED BY <2>1
<1>9. CASE NextPage
  BY <1>9 DEF NextPage, PageRead, panelSide
<1>10. CASE UNCHANGED panelVars
  BY <1>10 DEF panelVars, panelSide, callSide, history
<1> QED BY <1>1, <1>2, <1>3, <1>4, <1>5, <1>6, <1>7, <1>8, <1>9, <1>10 DEF PanelNext

\* A change is handled by the panel at most once, and once if the call succeeds.
THEOREM ChangesArePostedOnce == PanelSpec => []PostedOnce
<1>1. CallOK /\ PostInv => PostedOnce
  BY DEF CallOK, PostInv, PostedOnce
<1> QED BY <1>1, CallInit, CallStep, PTL DEF PanelSpec

-----------------------------------------------------------------------------
(* The pages of a list that does not change.                                *)

UpTo(n) == IF n > Len(list) THEN Len(list) ELSE n

\* What ListClients has read when it asks for a page.
ReadBefore(p) ==
  IF habit = "whole" THEN IF p = 1 THEN <<>> ELSE list
                     ELSE SubSeq(list, 1, UpTo((p - 1) * PageSize))

ListOK == list \in Seq(Emails) /\ IsInjective(list)

AtPage ==
  /\ ListOK /\ habit \in AllHabits /\ page \in Nat \ {0}
  /\ clients = ReadBefore(page)
  /\ reply = PageOf(page)

LEMMA Products ==
  ASSUME NEW p \in Nat \ {0}
  PROVE  /\ (p - 1) * PageSize \in Nat /\ PageSize \in Nat \ {0}
         /\ p * PageSize = (p - 1) * PageSize + PageSize
         /\ p = MaxPages => p * PageSize = MaxRecords
         /\ (p + 1) - 1 = p
BY PageAssumption DEF MaxRecords

\* A panel that ignores the page: its first answer is all, its second nothing new.
LEMMA WholePage ==
  ASSUME AtPage, habit = "whole"
  PROVE  /\ NothingNew => clients = list
         /\ ~NothingNew => Joined = list /\ Joined = ReadBefore(page + 1)
<1>1. list \in Seq(Emails) /\ reply.items = list
  BY DEF AtPage, ListOK, PageOf
<1>2. Len(list) \in Nat /\ DOMAIN list = 1..Len(list)
  BY <1>1, LenProperties
<1>3. CASE page = 1
  <2>1. clients = <<>>
    BY <1>3 DEF AtPage, ReadBefore
  <2>2. ToSet(clients) = {}
    BY <2>1 DEF ToSet
  <2>3. NothingNew => list = <<>>
    <3>1. SUFFICES ASSUME NothingNew, list # <<>> PROVE FALSE
      OBVIOUS
    <3>2. 1 \in DOMAIN list
      BY <1>1, <1>2, <3>1, EmptySeq
    <3>3. list[1] \in ToSet(list)
      BY <3>2 DEF ToSet
    <3> QED BY <1>1, <2>2, <3>1, <3>3 DEF NothingNew
  <2>4. Joined = list
    BY <1>1, <2>1, ConcatEmptySeq DEF Joined
  <2>5. ReadBefore(page + 1) = list
    BY <1>3 DEF ReadBefore
  <2> QED BY <2>1, <2>3, <2>4, <2>5
<1>4. CASE page # 1
  BY <1>1, <1>4 DEF AtPage, ReadBefore, NothingNew
<1> QED BY <1>3, <1>4

\* A panel that pages: a page behind the last client is empty ...
LEMMA BehindTheLast ==
  ASSUME AtPage, habit # "whole", (page - 1) * PageSize >= Len(list)
  PROVE  NothingNew /\ clients = list
<1> DEFINE a == (page - 1) * PageSize
<1>1. a \in Nat /\ PageSize \in Nat \ {0} /\ page * PageSize = a + PageSize
  BY Products DEF AtPage
<1>2. list \in Seq(Emails) /\ Len(list) \in Nat
  BY LenProperties DEF AtPage, ListOK
<1>3. UpTo(a) = Len(list) /\ UpTo(a + PageSize) = Len(list)
  BY <1>1, <1>2 DEF UpTo
<1>4. clients = SubSeq(list, 1, Len(list))
  BY <1>3 DEF AtPage, ReadBefore
<1>5. reply.items = SubSeq(list, a + 1, Len(list))
  BY <1>1, <1>3 DEF AtPage, PageOf, UpTo
<1>6. reply.items = <<>>
  BY <1>1, <1>2, <1>5, SubSeqEmpty
<1> QED BY <1>2, <1>4, <1>6, SubSeqFull DEF NothingNew, ToSet

\* ... and any other begins with a client that was not read before.
LEMMA WithinTheList ==
  ASSUME AtPage, habit # "whole", (page - 1) * PageSize < Len(list)
  PROVE  /\ ~NothingNew
         /\ Joined = SubSeq(list, 1, UpTo(page * PageSize))
         /\ Joined = ReadBefore(page + 1)
         /\ Len(clients) = (page - 1) * PageSize
         /\ Len(clients) + Len(reply.items) = UpTo(page * PageSize)
         /\ Len(Joined) = UpTo(page * PageSize)
<1> DEFINE a == (page - 1) * PageSize
           b == UpTo(page * PageSize)
<1>1. a \in Nat /\ PageSize \in Nat \ {0} /\ page * PageSize = a + PageSize /\ (page + 1) - 1 = page
  BY Products DEF AtPage
<1>2. list \in Seq(Emails) /\ Len(list) \in Nat /\ DOMAIN list = 1..Len(list)
  BY LenProperties DEF AtPage, ListOK
<1>3. UpTo(a) = a /\ b \in (a + 1)..Len(list) /\ b \in Nat
  BY <1>1, <1>2 DEF UpTo
<1>4. clients = SubSeq(list, 1, a) /\ reply.items = SubSeq(list, a + 1, b)
  BY <1>3 DEF AtPage, ReadBefore, PageOf, UpTo
<1>5. \A i \in 1..Len(list) : list[i] \in Emails
  BY <1>2, ElementOfSeq
<1>6. /\ clients \in Seq(Emails) /\ Len(clients) = a
      /\ \A i \in 1..a : clients[i] = list[i]
  <2>1. \A i \in 1..a : list[i] \in Emails
    BY <1>1, <1>2, <1>5
  <2>2. /\ SubSeq(list, 1, a) \in Seq(Emails)
        /\ Len(SubSeq(list, 1, a)) = IF 1 <= a THEN a - 1 + 1 ELSE 0
        /\ \A i \in 1..(a - 1 + 1) : SubSeq(list, 1, a)[i] = list[1 + i - 1]
    BY <1>1, <2>1, SubSeqProperties
  <2> QED BY <1>1, <1>4, <2>2
<1>7. /\ reply.items \in Seq(Emails) /\ Len(reply.items) = b - a
      /\ reply.items[1] = list[a + 1]
  <2>1. \A i \in (a + 1)..b : list[i] \in Emails
    BY <1>1, <1>2, <1>3, <1>5
  <2>2. /\ SubSeq(list, a + 1, b) \in Seq(Emails)
        /\ Len(SubSeq(list, a + 1, b)) = IF a + 1 <= b THEN b - (a + 1) + 1 ELSE 0
        /\ \A i \in 1..(b - (a + 1) + 1) : SubSeq(list, a + 1, b)[i] = list[(a + 1) + i - 1]
    BY <1>1, <1>3, <2>1, SubSeqProperties
  <2> QED BY <1>1, <1>3, <1>4, <2>2
<1>8. ~NothingNew
  <2>1. SUFFICES ASSUME NothingNew PROVE FALSE
    OBVIOUS
  <2>2. DOMAIN reply.items = 1..(b - a) /\ DOMAIN clients = 1..a
    BY <1>6, <1>7, LenProperties
  <2>3. list[a + 1] \in ToSet(reply.items)
    BY <1>1, <1>3, <1>7, <2>2 DEF ToSet
  <2>4. PICK i \in 1..a : list[a + 1] = clients[i]
    BY <2>1, <2>2, <2>3 DEF NothingNew, ToSet
  <2>5. i \in 1..Len(list) /\ a + 1 \in 1..Len(list) /\ list[a + 1] = list[i] /\ i # a + 1
    BY <1>1, <1>2, <1>6, <2>4
  <2> QED BY <1>2, <2>5 DEF AtPage, ListOK, IsInjective
<1>9. Joined = SubSeq(list, 1, b)
  <2>1. a \in 0..Len(list) /\ b \in a..Len(list)
    BY <1>1, <1>2, <1>3
  <2>2. 1 \in 1..(Len(list) + 1) /\ a \in (1 - 1)..Len(list)
    BY <1>2, <2>1
  <2> HIDE DEF a, b
  <2>3. SubSeq(list, 1, a) \o SubSeq(list, a + 1, b) = SubSeq(list, 1, b)
    BY <1>2, <2>1, <2>2, ConcatAdjacentSubSeq
  <2> QED BY <1>4, <2>3 DEF Joined
<1>10. ReadBefore(page + 1) = SubSeq(list, 1, b)
  BY <1>1 DEF ReadBefore
<1>11. Len(Joined) = b
  <2>1. Len(clients \o reply.items) = Len(clients) + Len(reply.items)
    BY <1>6, <1>7, ConcatProperties
  <2> HIDE DEF b
  <2> QED BY <1>1, <1>3, <1>6, <1>7, <2>1 DEF Joined
<1>12. Len(clients) + Len(reply.items) = b
  <2> HIDE DEF b
  <2> QED BY <1>1, <1>3, <1>6, <1>7
<1>13. Joined = ReadBefore(page + 1)
  BY <1>9, <1>10
<1> QED BY <1>6, <1>8, <1>9, <1>11, <1>12, <1>13

LEMMA PagesAreSeqs ==
  ASSUME AtPage, habit # "whole", (page - 1) * PageSize < Len(list)
  PROVE  clients \in Seq(Emails) /\ reply.items \in Seq(Emails)
<1>1. list \in Seq(Emails) /\ Len(list) \in Nat /\ \A i \in 1..Len(list) : list[i] \in Emails
  BY LenProperties, ElementOfSeq DEF AtPage, ListOK
<1>2. ASSUME NEW m \in Nat \ {0}, NEW n \in 0..Len(list) PROVE SubSeq(list, m, n) \in Seq(Emails)
  <2>1. \A i \in m..n : list[i] \in Emails
    BY <1>1, <1>2
  <2> QED BY <2>1, <1>1, SubSeqProperties
<1>3. (page - 1) * PageSize \in Nat /\ page * PageSize \in Nat
  BY Products DEF AtPage
<1>4. UpTo((page - 1) * PageSize) \in 0..Len(list) /\ UpTo(page * PageSize) \in 0..Len(list)
  BY <1>1, <1>3 DEF UpTo
<1>5. clients \in Seq(Emails)
  <2>1. clients = SubSeq(list, 1, UpTo((page - 1) * PageSize))
    BY DEF AtPage, ReadBefore
  <2>2. 1 \in Nat \ {0}
    OBVIOUS
  <2> QED BY <1>2, <1>4, <2>1, <2>2
<1>6. reply.items = SubSeq(list, (page - 1) * PageSize + 1, UpTo(page * PageSize))
  BY DEF AtPage, PageOf, UpTo
<1>7. (page - 1) * PageSize + 1 \in Nat \ {0}
  BY <1>3
<1> QED BY <1>2, <1>4, <1>5, <1>6, <1>7

\* A page that ends a listing has read all of the list, and a list that the limit
\* admits never meets it.
LEMMA LastPageEnds ==
  ASSUME AtPage
  PROVE  /\ NothingNew => clients = list
         /\ ~NothingNew /\ Complete => Joined = list
         /\ ~NothingNew => Joined = ReadBefore(page + 1)
         /\ habit = "pages" /\ Fits /\ ~NothingNew => ~Overflows /\ (LastPage => Complete)
<1> DEFINE b == UpTo(page * PageSize)
<1>1. CASE habit = "whole"
  BY <1>1, WholePage
<1>2. CASE habit # "whole" /\ (page - 1) * PageSize >= Len(list)
  BY <1>2, BehindTheLast
<1>3. CASE habit # "whole" /\ (page - 1) * PageSize < Len(list)
  <2>1. /\ ~NothingNew /\ Joined = SubSeq(list, 1, b) /\ Joined = ReadBefore(page + 1)
        /\ Len(clients) = (page - 1) * PageSize
        /\ Len(clients) + Len(reply.items) = b /\ Len(Joined) = b
    BY <1>3, WithinTheList
  <2>2. list \in Seq(Emails) /\ Len(list) \in Nat
    BY LenProperties DEF AtPage, ListOK
  <2>3. reply.filtered = IF habit = "pages" THEN Len(list) ELSE Len(list) + 1
    BY DEF AtPage, PageOf
  <2>4. b \in 0..Len(list)
    <3>1. page * PageSize \in Nat
      BY Products DEF AtPage
    <3> QED BY <2>2, <3>1 DEF UpTo
  <2>5. ASSUME Complete PROVE Joined = list
    <3>1. b = Len(list)
      <4> HIDE DEF b
      <4> QED BY <2>1, <2>2, <2>3, <2>4, <2>5 DEF Complete
    <3> QED BY <2>1, <2>2, <3>1, SubSeqFull
  <2>6. ASSUME habit = "pages", Fits PROVE ~Overflows /\ (LastPage => Complete)
    <3>1. Len(list) <= MaxRecords /\ MaxRecords \in Nat
      BY <2>6, PageAssumption DEF Fits, MaxRecords
    <3>2. Len(clients) \in Nat /\ Len(reply.items) = b - Len(clients)
      <4>1. clients \in Seq(Emails) /\ reply.items \in Seq(Emails)
        BY <1>3, PagesAreSeqs
      <4> HIDE DEF b
      <4> QED BY <2>1, <2>4, <4>1, LenProperties
    <3>3. ~Overflows
      <4> HIDE DEF b
      <4> QED BY <2>2, <2>4, <3>1, <3>2 DEF Overflows
    <3>4. ASSUME LastPage PROVE Complete
      <4>1. CASE page = MaxPages
        <5>1. page * PageSize = MaxRecords
          BY <4>1, Products DEF AtPage
        <5>2. b = Len(list)
          BY <2>2, <3>1, <5>1 DEF UpTo
        <5> QED BY <2>1, <2>2, <2>3, <2>6, <5>2 DEF Complete
      <4>2. CASE Len(Joined) >= MaxRecords
        <5> HIDE DEF b
        <5> QED BY <2>1, <2>2, <2>3, <2>4, <2>6, <3>1, <4>2 DEF Complete
      <4> QED BY <3>4, <4>1, <4>2 DEF LastPage
    <3> QED BY <3>3, <3>4
  <2> QED BY <2>1, <2>5, <2>6
<1>4. (page - 1) * PageSize \in Nat /\ Len(list) \in Nat
  BY Products, LenProperties DEF AtPage, ListOK
<1> QED BY <1>1, <1>2, <1>3, <1>4

-----------------------------------------------------------------------------
(* A listing.                                                               *)

CountsOK == added \in Nat /\ removed \in Nat /\ habit \in AllHabits /\ page \in Nat \ {0}

QuietInv ==
  op = "list" /\ Unchanged =>
    /\ ListOK
    /\ phase \in Waiting => clients = ReadBefore(page)
    /\ phase = "answered" => reply = PageOf(page)
    /\ phase = "ok" => clients = list
    /\ phase = "failed" /\ habit = "pages" /\ Fits => broken

ListInv == CallOK /\ CountsOK /\ QuietInv

LEMMA ListInit == PanelInit => ListInv
<1> SUFFICES ASSUME PanelInit PROVE ListInv
  OBVIOUS
<1>1. PICK n \in 0..MaxClients : list = [i \in 1..n |-> i]
  BY DEF PanelInit
<1>2. list \in Seq(Emails) /\ Len(list) = n /\ DOMAIN list = 1..n
  BY <1>1, ChangesAssumption DEF Emails
<1>3. IsInjective(list)
  BY <1>1, <1>2 DEF IsInjective
<1>4. /\ op \in Operations /\ phase = "sent" /\ page = 1 /\ clients = <<>>
      /\ attempt = 0 /\ troubles = 0 /\ added = 0 /\ removed = 0 /\ habit \in AllHabits
  BY HabitsAssumption DEF PanelInit
<1>5. clients = ReadBefore(page)
  <2>1. (1 - 1) * PageSize = 0
    BY PageAssumption
  <2>2. n \in Nat /\ UpTo(0) = 0
    BY <1>2, ChangesAssumption DEF UpTo
  <2>3. SubSeq(list, 1, 0) = <<>>
    BY SubSeqEmpty
  <2> QED BY <1>4, <2>1, <2>2, <2>3 DEF ReadBefore
<1> QED BY <1>2, <1>3, <1>4, <1>5 DEF ListInv, CallOK, CountsOK, QuietInv, ListOK

LEMMA CountsStep == CountsOK /\ [PanelNext]_panelVars => CountsOK'
<1> SUFFICES ASSUME CountsOK, [PanelNext]_panelVars PROVE CountsOK'
  OBVIOUS
<1> USE DEF CountsOK
<1>1. ASSUME NEW e \in Emails, NEW i \in 1..(Len(list) + 1), OthersAdd(e, i) PROVE CountsOK'
  BY <1>1 DEF OthersAdd, callSide
<1>2. ASSUME NEW i \in 1..Len(list), OthersRemove(i) PROVE CountsOK'
  BY <1>2 DEF OthersRemove, callSide
<1>3. CASE PanelHandles \/ PanelHandlesStray \/ TemporaryFault \/ PermanentFault
  BY <1>3 DEF PanelHandles, PanelHandlesStray, TemporaryFault, PermanentFault, callSide, history
<1>4. CASE Answered \/ EmptyOrRepeated \/ AllRead \/ LimitExceeded
  BY <1>4 DEF Answered, EmptyOrRepeated, AllRead, LimitExceeded, Ends, panelSide, history
<1>5. CASE NextPage
  BY <1>5 DEF NextPage, panelSide
<1>6. CASE UNCHANGED panelVars
  BY <1>6 DEF panelVars, panelSide, callSide, history
<1> QED BY <1>1, <1>2, <1>3, <1>4, <1>5, <1>6 DEF PanelNext

LEMMA QuietListStep == CallOK /\ CountsOK /\ QuietInv /\ [PanelNext]_panelVars => QuietInv'
<1> SUFFICES ASSUME CallOK, CountsOK, QuietInv, [PanelNext]_panelVars,
                    (op = "list")', Unchanged'
             PROVE  /\ ListOK'
                    /\ phase' \in Waiting => clients' = ReadBefore(page)'
                    /\ phase' = "answered" => reply' = PageOf(page)'
                    /\ phase' = "ok" => clients' = list'
                    /\ phase' = "failed" /\ habit' = "pages" /\ Fits' => broken'
  BY DEF QuietInv
<1> DEFINE Goal == /\ ListOK'
                   /\ phase' \in Waiting => clients' = ReadBefore(page)'
                   /\ phase' = "answered" => reply' = PageOf(page)'
                   /\ phase' = "ok" => clients' = list'
                   /\ phase' = "failed" /\ habit' = "pages" /\ Fits' => broken'
<1>1. added' = 0 /\ removed' = 0 /\ page \in Nat /\ page + 1 \in Nat
  BY DEF Unchanged, CountsOK
<1>2. ASSUME op = "list", Unchanged
      PROVE  /\ ListOK
             /\ phase \in Waiting => clients = ReadBefore(page)
             /\ phase = "answered" => reply = PageOf(page)
             /\ phase = "ok" => clients = list
             /\ phase = "failed" /\ habit = "pages" /\ Fits => broken
  BY <1>2 DEF QuietInv
<1>3. ASSUME NEW e \in Emails, NEW i \in 1..(Len(list) + 1), OthersAdd(e, i) PROVE Goal
  BY <1>1, <1>3 DEF OthersAdd, CountsOK
<1>4. ASSUME NEW i \in 1..Len(list), OthersRemove(i) PROVE Goal
  BY <1>1, <1>4 DEF OthersRemove, CountsOK
<1>5. CASE PanelHandles
  <2>1. /\ UNCHANGED <<list, habit, op, page, clients, added, removed>>
        /\ phase = "sent" /\ phase' = "answered" /\ reply' = PageOf(page)
    BY <1>5 DEF PanelHandles, history
  <2>2. op = "list" /\ Unchanged
    BY <1>1, <2>1 DEF Unchanged
  <2>3. ReadBefore(page)' = ReadBefore(page) /\ PageOf(page)' = PageOf(page) /\ ListOK' = ListOK
    BY <2>1 DEF ReadBefore, UpTo, PageOf, ListOK
  <2> QED BY <1>2, <2>1, <2>2, <2>3
<1>6. CASE PanelHandlesStray \/ UNCHANGED panelVars
  <2>1. UNCHANGED <<list, habit, op, phase, reply, page, clients, added, removed, broken>>
    BY <1>6 DEF PanelHandlesStray, panelVars, panelSide, callSide, history
  <2>2. op = "list" /\ Unchanged
    BY <1>1, <2>1 DEF Unchanged
  <2>3. /\ ReadBefore(page)' = ReadBefore(page) /\ PageOf(page)' = PageOf(page)
        /\ ListOK' = ListOK /\ Fits' = Fits
    BY <2>1 DEF ReadBefore, UpTo, PageOf, ListOK, Fits
  <2> QED BY <1>2, <2>1, <2>2, <2>3
<1>7. CASE TemporaryFault \/ PermanentFault
  <2>1. /\ UNCHANGED <<list, habit, op, page, clients, added, removed>>
        /\ phase \in Waiting /\ phase' \in {"sent", "failed"}
    BY <1>7 DEF TemporaryFault, PermanentFault
  <2>2. op = "list" /\ Unchanged
    BY <1>1, <2>1 DEF Unchanged
  <2>3. ReadBefore(page)' = ReadBefore(page) /\ ListOK' = ListOK
    BY <2>1 DEF ReadBefore, UpTo, ListOK
  <2>4. ASSUME phase' = "failed" PROVE broken'
    <3>1. CASE PermanentFault
      BY <3>1 DEF PermanentFault
    <3>2. CASE TemporaryFault
      <4>1. ~(attempt + 1 < 2)
        BY <2>2, <2>4, <3>2 DEF TemporaryFault, Attempts
      <4>2. troubles >= 1
        BY <4>1 DEF CallOK
      <4> QED BY <3>2, <4>2 DEF TemporaryFault
    <3> QED BY <1>7, <3>1, <3>2
  <2> QED BY <1>2, <2>1, <2>2, <2>3, <2>4
<1>8. CASE Answered
  BY <1>8 DEF Answered
<1>9. CASE EmptyOrRepeated \/ AllRead \/ LimitExceeded
  <2>1. /\ UNCHANGED <<list, habit, op, page, added, removed, broken>>
        /\ phase = "answered"
    BY <1>9 DEF EmptyOrRepeated, AllRead, LimitExceeded, PageRead, Ends, panelSide
  <2>2. op = "list" /\ Unchanged
    BY <1>1, <2>1 DEF Unchanged
  <2>3. AtPage
    BY <1>2, <2>1, <2>2 DEF AtPage, CountsOK
  <2>4. ListOK' = ListOK /\ Fits' = Fits
    BY <2>1 DEF ListOK, Fits
  <2>5. CASE EmptyOrRepeated
    BY <1>2, <2>1, <2>2, <2>3, <2>4, <2>5, LastPageEnds DEF EmptyOrRepeated, Ends
  <2>6. CASE AllRead
    BY <1>2, <2>1, <2>2, <2>3, <2>4, <2>6, LastPageEnds DEF AllRead, Ends
  <2>7. CASE LimitExceeded
    <3>1. phase' = "failed" /\ ~(habit = "pages" /\ Fits)
      BY <2>3, <2>7, LastPageEnds DEF LimitExceeded, Ends
    <3> QED BY <1>2, <2>1, <2>2, <2>4, <3>1
  <2> QED BY <1>9, <2>5, <2>6, <2>7
<1>10. CASE NextPage
  <2>1. /\ UNCHANGED <<list, habit, op, added, removed>>
        /\ phase = "answered" /\ phase' = "sent" /\ page' = page + 1
        /\ ~NothingNew /\ clients' = Joined
    BY <1>10 DEF NextPage, PageRead, panelSide
  <2>2. op = "list" /\ Unchanged
    BY <1>1, <2>1 DEF Unchanged
  <2>3. AtPage
    BY <1>2, <2>1, <2>2 DEF AtPage, CountsOK
  <2>4. Joined = ReadBefore(page + 1)
    BY <2>1, <2>3, LastPageEnds
  <2>5. ReadBefore(page)' = ReadBefore(page + 1) /\ ListOK' = ListOK
    BY <2>1 DEF ReadBefore, UpTo, ListOK
  <2> QED BY <1>2, <2>1, <2>2, <2>4, <2>5
<1> QED BY <1>3, <1>4, <1>5, <1>6, <1>7, <1>8, <1>9, <1>10 DEF PanelNext

LEMMA ListingInvariant == PanelSpec => [](CallOK /\ CountsOK /\ QuietInv)
<1>1. PanelInit => CallOK /\ PostInv /\ CountsOK /\ QuietInv
  BY CallInit, ListInit DEF ListInv
<1> QED BY <1>1, CallStep, CountsStep, QuietListStep, PTL DEF PanelSpec

\* A listing of a panel that nobody changes is the panel's list, in its order.
THEOREM QuietListsAreExact == PanelSpec => []QuietListIsExact
<1>1. QuietInv => QuietListIsExact
  BY DEF QuietInv, QuietListIsExact
<1> QED BY <1>1, ListingInvariant, PTL

ReadInv == op = "get" /\ phase = "failed" => broken

LEMMA ReadStep == CallOK /\ ReadInv /\ [PanelNext]_panelVars => ReadInv'
<1> SUFFICES ASSUME CallOK, ReadInv, [PanelNext]_panelVars, (op = "get")', phase' = "failed"
             PROVE  broken'
  BY DEF ReadInv
<1>1. CASE PanelHandlesStray \/ UNCHANGED panelVars
  BY <1>1 DEF ReadInv, PanelHandlesStray, panelVars, panelSide, callSide, history
<1>2. CASE TemporaryFault
  <2>1. ~(attempt + 1 < 2)
    BY <1>2 DEF TemporaryFault, Attempts
  <2>2. troubles >= 1
    BY <2>1 DEF CallOK
  <2> QED BY <1>2, <2>2 DEF TemporaryFault
<1>3. CASE PermanentFault
  BY <1>3 DEF PermanentFault
<1>4. CASE PanelHandles \/ Answered \/ NextPage
  BY <1>4 DEF PanelHandles, Answered, NextPage
<1>5. CASE EmptyOrRepeated \/ AllRead \/ LimitExceeded
  BY <1>5 DEF EmptyOrRepeated, AllRead, LimitExceeded, PageRead, Ends
<1>6. ASSUME NEW e \in Emails, NEW i \in 1..(Len(list) + 1), OthersAdd(e, i) PROVE FALSE
  BY <1>6 DEF OthersAdd, Changing, callSide
<1>7. ASSUME NEW i \in 1..Len(list), OthersRemove(i) PROVE FALSE
  BY <1>7 DEF OthersRemove, Changing, callSide
<1> QED BY <1>1, <1>2, <1>3, <1>4, <1>5, <1>6, <1>7 DEF PanelNext

\* Reading fails only after a permanent error, two temporary ones in a request, or,
\* for a listing, because there are too many clients.
THEOREM ReadingFailsForAReason == PanelSpec => []FailsForAReason
<1>1. QuietInv /\ ReadInv => FailsForAReason
  BY DEF QuietInv, ReadInv, FailsForAReason
<1>2. PanelInit => CallOK /\ PostInv /\ ReadInv
  BY CallInit DEF PanelInit, ReadInv
<1>3. PanelSpec => []ReadInv
  BY <1>2, CallStep, ReadStep, PTL DEF PanelSpec
<1> QED BY <1>1, <1>3, ListingInvariant, PTL

-----------------------------------------------------------------------------
(* Types.                                                                   *)

LEMMA PartOfSeq ==
  ASSUME NEW S, NEW s \in Seq(S), NEW m \in Nat \ {0}, NEW n \in Int, n <= Len(s)
  PROVE  SubSeq(s, m, n) \in Seq(S)
<1>1. Len(s) \in Nat
  BY LenProperties
<1>2. \A i \in m..n : s[i] \in S
  BY <1>1, ElementOfSeq
<1> QED BY <1>2, SubSeqProperties

LEMMA AnswerOK ==
  ASSUME PanelTypeOK
  PROVE  PageOf(page) \in Answers
<1> DEFINE n == UpTo(page * PageSize)
           items == IF habit = "whole" THEN list ELSE SubSeq(list, (page - 1) * PageSize + 1, n)
<1>1. list \in Seq(Emails) /\ Len(list) \in Nat /\ page \in Nat \ {0} /\ added \in Nat
  BY LenProperties, PageAssumption DEF PanelTypeOK
<1>2. (page - 1) * PageSize + 1 \in Nat \ {0} /\ page * PageSize \in Nat
  BY <1>1, Products
<1>3. n \in Int /\ n <= Len(list)
  BY <1>1, <1>2 DEF UpTo
<1>4. items \in Seq(Emails)
  <2>1. SubSeq(list, (page - 1) * PageSize + 1, n) \in Seq(Emails)
    BY <1>1, <1>2, <1>3, PartOfSeq
  <2> QED BY <1>1, <2>1
<1>5. PageOf(page) = [items |-> items, filtered |-> IF habit = "pages" THEN Len(list) ELSE Len(list) + 1,
                      added |-> added]
  BY DEF PageOf, UpTo
<1> QED BY <1>1, <1>4, <1>5 DEF Answers

\* The client keeps its types, and never more records than the limit.
THEOREM ClientTypes == PanelSpec => []PanelTypeOK
<1>1. PanelInit => PanelTypeOK
  <2> SUFFICES ASSUME PanelInit PROVE PanelTypeOK
    OBVIOUS
  <2>1. PICK n \in 0..MaxClients : list = [i \in 1..n |-> i]
    BY DEF PanelInit
  <2>2. list \in Seq(Emails)
    BY <2>1, ChangesAssumption DEF Emails
  <2>3. clients \in Seq(Emails) /\ Len(clients) = 0
    BY EmptySeq DEF PanelInit
  <2>4. /\ habit \in Habits /\ op \in Operations /\ phase = "sent" /\ attempt = 0
        /\ page = 1 /\ posted = 0 /\ stray = 0 /\ added = 0 /\ removed = 0 /\ reply = NoReply
    BY DEF PanelInit
  <2>5. 1 \in 1..MaxPages /\ 0 <= MaxRecords
    BY PageAssumption DEF MaxRecords
  <2> QED BY <2>2, <2>3, <2>4, <2>5 DEF PanelTypeOK
<1>2. PanelTypeOK /\ [PanelNext]_panelVars => PanelTypeOK'
  <2> SUFFICES ASSUME PanelTypeOK, [PanelNext]_panelVars PROVE PanelTypeOK'
    OBVIOUS
  <2> USE DEF PanelTypeOK
  <2>1. ASSUME NEW e \in Emails, NEW i \in 1..(Len(list) + 1), OthersAdd(e, i) PROVE PanelTypeOK'
    <3>1. list' \in Seq(Emails)
      <4>1. Len(list) \in Nat /\ i \in Nat \ {0} /\ i - 1 <= Len(list) /\ i - 1 \in Int
        BY LenProperties
      <4>2. SubSeq(list, 1, i - 1) \in Seq(Emails) /\ SubSeq(list, i, Len(list)) \in Seq(Emails)
        BY <4>1, PartOfSeq
      <4>3. <<e>> \in Seq(Emails)
        OBVIOUS
      <4>4. SubSeq(list, 1, i - 1) \o <<e>> \in Seq(Emails)
        BY <4>2, <4>3, ConcatProperties
      <4>5. (SubSeq(list, 1, i - 1) \o <<e>>) \o SubSeq(list, i, Len(list)) \in Seq(Emails)
        BY <4>2, <4>4, ConcatProperties
      <4> QED BY <2>1, <4>5 DEF OthersAdd, InsertAt
    <3>2. /\ UNCHANGED <<habit, op, phase, attempt, reply, page, clients, posted, stray, removed>>
          /\ added' = added + 1
      BY <2>1 DEF OthersAdd, callSide
    <3> QED BY <3>1, <3>2
  <2>2. ASSUME NEW i \in 1..Len(list), OthersRemove(i) PROVE PanelTypeOK'
    <3>1. list' \in Seq(Emails)
      <4>1. Len(list) \in Nat /\ i \in Nat \ {0} /\ i - 1 <= Len(list) /\ i - 1 \in Int
            /\ i + 1 \in Nat \ {0}
        BY LenProperties
      <4>2. SubSeq(list, 1, i - 1) \in Seq(Emails) /\ SubSeq(list, i + 1, Len(list)) \in Seq(Emails)
        BY <4>1, PartOfSeq
      <4>3. SubSeq(list, 1, i - 1) \o SubSeq(list, i + 1, Len(list)) \in Seq(Emails)
        BY <4>2, ConcatProperties
      <4> QED BY <2>2, <4>3 DEF OthersRemove, RemoveAt
    <3>2. /\ UNCHANGED <<habit, op, phase, attempt, reply, page, clients, posted, stray, added>>
          /\ removed' = removed + 1
      BY <2>2 DEF OthersRemove, callSide
    <3> QED BY <3>1, <3>2
  <2>3. CASE PanelHandles
    <3>1. reply' \in Answers /\ phase' = "answered"
      BY <2>3, AnswerOK DEF PanelHandles
    <3>2. /\ UNCHANGED <<list, habit, op, attempt, page, clients, stray, added, removed>>
          /\ posted' \in {posted, posted + 1}
      BY <2>3 DEF PanelHandles, history
    <3> QED BY <3>1, <3>2 DEF Answers
  <2>4. CASE PanelHandlesStray
    <3>1. /\ UNCHANGED <<list, habit, op, phase, attempt, reply, page, clients, added, removed>>
          /\ stray' = stray - 1 /\ stray > 0 /\ posted' = posted + 1
      BY <2>4 DEF PanelHandlesStray, callSide, history
    <3> QED BY <3>1 DEF Answers
  <2>5. CASE TemporaryFault \/ PermanentFault
    <3>1. /\ UNCHANGED <<list, habit, op, page, clients, posted, added, removed>>
          /\ phase' \in {"sent", "failed"} /\ reply' = NoReply /\ stray' \in {stray, stray + 1}
      BY <2>5 DEF TemporaryFault, PermanentFault, Abandons
    <3>2. attempt' \in 0..1
      BY <2>5 DEF TemporaryFault, PermanentFault, Attempts
    <3>3. stray' \in Nat
      BY <3>1
    <3> QED BY <3>1, <3>2, <3>3
  <2>6. CASE Answered
    BY <2>6 DEF Answered, panelSide, history
  <2>7. CASE EmptyOrRepeated \/ LimitExceeded
    <3>1. /\ UNCHANGED <<list, habit, posted, stray, op, attempt, page, added, removed>>
          /\ phase' \in {"ok", "failed"} /\ reply' = NoReply /\ clients' \in {clients, <<>>}
      BY <2>7 DEF EmptyOrRepeated, LimitExceeded, Ends, panelSide
    <3>2. clients' \in Seq(Emails) /\ Len(clients') <= MaxRecords
      <4>1. <<>> \in Seq(Emails) /\ Len(<<>>) = 0 /\ 0 <= MaxRecords
        BY EmptySeq, PageAssumption DEF MaxRecords
      <4> QED BY <3>1, <4>1
    <3> QED BY <3>1, <3>2
  <2>8. ASSUME phase = "answered", ~Overflows
        PROVE  Joined \in Seq(Emails) /\ Len(Joined) <= MaxRecords
    <3>1. reply.items \in Seq(Emails)
      BY <2>8 DEF Answers
    <3>2. /\ Joined \in Seq(Emails) /\ Len(Joined) = Len(clients) + Len(reply.items)
          /\ Len(clients) \in Nat /\ Len(reply.items) \in Nat
      BY <3>1, ConcatProperties, LenProperties DEF Joined
    <3>3. MaxRecords \in Nat
      BY PageAssumption DEF MaxRecords
    <3> QED BY <2>8, <3>2, <3>3 DEF Overflows
  <2>9. CASE AllRead
    <3>1. /\ UNCHANGED <<list, habit, posted, stray, op, attempt, page, added, removed>>
          /\ phase = "answered" /\ ~Overflows
          /\ phase' = "ok" /\ reply' = NoReply /\ clients' = Joined
      BY <2>9 DEF AllRead, PageRead, Ends, panelSide
    <3> QED BY <2>8, <3>1
  <2>10. CASE NextPage
    <3>1. /\ UNCHANGED <<list, habit, posted, stray, op, added, removed>>
          /\ phase = "answered" /\ ~Overflows
          /\ phase' = "sent" /\ reply' = NoReply /\ clients' = Joined
          /\ attempt' = 0 /\ page' = page + 1 /\ page # MaxPages
      BY <2>10 DEF NextPage, PageRead, panelSide, LastPage
    <3>2. page' \in 1..MaxPages
      BY <3>1, PageAssumption
    <3> QED BY <2>8, <3>1, <3>2
  <2>11. CASE UNCHANGED panelVars
    BY <2>11 DEF panelVars, panelSide, callSide, history
  <2> QED BY <2>1, <2>2, <2>3, <2>4, <2>5, <2>6, <2>7, <2>9, <2>10, <2>11 DEF PanelNext
<1> QED BY <1>1, <1>2, PTL DEF PanelSpec

-----------------------------------------------------------------------------
(* A list that others change.                                               *)

AtMost(S, n) == IsFiniteSet(S) /\ Cardinality(S) <= n

LEMMA FewerAtMost ==
  ASSUME NEW S, NEW T, NEW n, NEW f \in Injection(S, T), AtMost(T, n), n \in Nat
  PROVE  AtMost(S, n)
<1>1. IsFiniteSet(S) /\ Cardinality(S) <= Cardinality(T) /\ Cardinality(T) <= n
  BY FS_Injection DEF AtMost
<1>2. Cardinality(S) \in Nat /\ Cardinality(T) \in Nat
  BY <1>1, FS_CardinalityType DEF AtMost
<1> QED
  BY <1>1, <1>2 DEF AtMost

LEMMA PartAtMost ==
  ASSUME NEW T, NEW S \in SUBSET T, NEW n \in Nat, AtMost(T, n)
  PROVE  AtMost(S, n)
<1>1. IsFiniteSet(S) /\ Cardinality(S) <= Cardinality(T)
  BY FS_Subset DEF AtMost
<1>2. Cardinality(S) \in Nat /\ Cardinality(T) \in Nat
  BY <1>1, FS_CardinalityType DEF AtMost
<1> QED
  BY <1>1, <1>2 DEF AtMost

LEMMA OneMore ==
  ASSUME NEW S, NEW x, NEW n \in Nat, AtMost(S, n)
  PROVE  AtMost(S \cup {x}, n + 1)
<1>1. Cardinality(S) \in Nat
  BY FS_CardinalityType DEF AtMost
<1> QED
  BY <1>1, FS_AddElement DEF AtMost

\* The places up to b whose clients are in A and not in seen.
Unread(s, b, A, seen) == {j \in 1..Len(s) : j <= b /\ s[j] \in A /\ s[j] \notin seen}

LEMMA Inserted ==
  ASSUME NEW s \in Seq(Emails), NEW i \in 1..(Len(s) + 1), NEW e \in Emails
  PROVE  LET t == InsertAt(s, i, e) IN
         /\ t \in Seq(Emails) /\ Len(t) = Len(s) + 1 /\ t[i] = e
         /\ \A j \in 1..(Len(s) + 1) : (j < i => t[j] = s[j]) /\ (j > i => t[j] = s[j - 1])
<1> DEFINE a == SubSeq(s, 1, i - 1)
           z == SubSeq(s, i, Len(s))
           m == a \o <<e>>
<1>1. Len(s) \in Nat /\ i \in Nat \ {0} /\ \A j \in 1..Len(s) : s[j] \in Emails
  BY LenProperties, ElementOfSeq
<1>2. /\ a \in Seq(Emails) /\ Len(a) = i - 1
      /\ \A j \in 1..(i - 1) : a[j] = s[j]
  <2>1. \A j \in 1..(i - 1) : s[j] \in Emails
    BY <1>1
  <2>2. /\ a \in Seq(Emails) /\ Len(a) = IF 1 <= i - 1 THEN i - 1 - 1 + 1 ELSE 0
        /\ \A j \in 1..(i - 1 - 1 + 1) : a[j] = s[1 + j - 1]
    BY <1>1, <2>1, SubSeqProperties
  <2> HIDE DEF a
  <2> QED
    BY <1>1, <2>2
<1>3. /\ z \in Seq(Emails) /\ Len(z) = Len(s) - i + 1
      /\ \A j \in 1..(Len(s) - i + 1) : z[j] = s[i + j - 1]
  <2>1. \A j \in i..Len(s) : s[j] \in Emails
    BY <1>1
  <2>2. /\ z \in Seq(Emails) /\ Len(z) = IF i <= Len(s) THEN Len(s) - i + 1 ELSE 0
        /\ \A j \in 1..(Len(s) - i + 1) : z[j] = s[i + j - 1]
    BY <1>1, <2>1, SubSeqProperties
  <2> HIDE DEF z
  <2> QED
    BY <1>1, <2>2
<1>4. <<e>> \in Seq(Emails) /\ Len(<<e>>) = 1 /\ <<e>>[1] = e
  OBVIOUS
<1>5. /\ m \in Seq(Emails) /\ Len(m) = i
      /\ \A j \in 1..i : m[j] = IF j <= i - 1 THEN a[j] ELSE <<e>>[j - (i - 1)]
  <2> HIDE DEF a
  <2>1. /\ m \in Seq(Emails) /\ Len(m) = Len(a) + Len(<<e>>)
        /\ \A j \in 1..(Len(a) + Len(<<e>>)) :
             m[j] = IF j <= Len(a) THEN a[j] ELSE <<e>>[j - Len(a)]
    BY <1>2, <1>4, ConcatProperties
  <2>2. Len(a) = i - 1 /\ Len(a) + Len(<<e>>) = i
    BY <1>1, <1>2, <1>4
  <2> HIDE DEF m
  <2> QED
    BY <2>1, <2>2
<1>6. InsertAt(s, i, e) = m \o z
  BY DEF InsertAt
<1> HIDE DEF a, z, m
<1>7. /\ m \o z \in Seq(Emails) /\ Len(m \o z) = Len(s) + 1
      /\ \A j \in 1..(Len(s) + 1) : (m \o z)[j] = IF j <= i THEN m[j] ELSE z[j - i]
  <2>1. /\ m \o z \in Seq(Emails) /\ Len(m \o z) = Len(m) + Len(z)
        /\ \A j \in 1..(Len(m) + Len(z)) : (m \o z)[j] = IF j <= Len(m) THEN m[j] ELSE z[j - Len(m)]
    BY <1>3, <1>5, ConcatProperties
  <2>2. Len(m) = i /\ Len(m) + Len(z) = Len(s) + 1
    BY <1>1, <1>3, <1>5
  <2> QED
    BY <2>1, <2>2
<1>8. (m \o z)[i] = e
  <2>1. m[i] = <<e>>[i - (i - 1)] /\ i - (i - 1) = 1
    BY <1>1, <1>5
  <2> QED
    BY <1>1, <1>4, <1>7, <2>1
<1>9. ASSUME NEW j \in 1..(Len(s) + 1), j < i PROVE (m \o z)[j] = s[j]
  <2>1. j \in 1..i /\ j <= i - 1 /\ j \in 1..(i - 1) /\ j <= i
    BY <1>1, <1>9
  <2>2. (m \o z)[j] = m[j]
    BY <1>7, <2>1
  <2>3. m[j] = a[j]
    BY <1>5, <2>1
  <2> QED
    BY <1>2, <2>1, <2>2, <2>3
<1>10. ASSUME NEW j \in 1..(Len(s) + 1), j > i PROVE (m \o z)[j] = s[j - 1]
  <2>1. j - i \in 1..(Len(s) - i + 1) /\ i + (j - i) - 1 = j - 1
    BY <1>1, <1>10
  <2> QED
    BY <1>3, <1>7, <1>10, <2>1
<1> QED
  BY <1>6, <1>7, <1>8, <1>9, <1>10

LEMMA Dropped ==
  ASSUME NEW s \in Seq(Emails), NEW i \in 1..Len(s)
  PROVE  LET t == RemoveAt(s, i) IN
         /\ t \in Seq(Emails) /\ Len(t) = Len(s) - 1
         /\ \A j \in 1..(Len(s) - 1) : t[j] = IF j < i THEN s[j] ELSE s[j + 1]
<1> DEFINE a == SubSeq(s, 1, i - 1)
           z == SubSeq(s, i + 1, Len(s))
<1>1. Len(s) \in Nat /\ i \in Nat \ {0} /\ \A j \in 1..Len(s) : s[j] \in Emails
  BY LenProperties, ElementOfSeq
<1>2. /\ a \in Seq(Emails) /\ Len(a) = i - 1
      /\ \A j \in 1..(i - 1) : a[j] = s[j]
  <2>1. \A j \in 1..(i - 1) : s[j] \in Emails
    BY <1>1
  <2>2. /\ a \in Seq(Emails) /\ Len(a) = IF 1 <= i - 1 THEN i - 1 - 1 + 1 ELSE 0
        /\ \A j \in 1..(i - 1 - 1 + 1) : a[j] = s[1 + j - 1]
    BY <1>1, <2>1, SubSeqProperties
  <2> HIDE DEF a
  <2> QED
    BY <1>1, <2>2
<1>3. /\ z \in Seq(Emails) /\ Len(z) = Len(s) - i
      /\ \A j \in 1..(Len(s) - i) : z[j] = s[i + j]
  <2>1. \A j \in (i + 1)..Len(s) : s[j] \in Emails
    BY <1>1
  <2>2. /\ z \in Seq(Emails) /\ Len(z) = IF i + 1 <= Len(s) THEN Len(s) - (i + 1) + 1 ELSE 0
        /\ \A j \in 1..(Len(s) - (i + 1) + 1) : z[j] = s[(i + 1) + j - 1]
    BY <1>1, <2>1, SubSeqProperties
  <2> HIDE DEF z
  <2> QED
    BY <1>1, <2>2
<1>4. RemoveAt(s, i) = a \o z
  BY DEF RemoveAt
<1> HIDE DEF a, z
<1>5. /\ a \o z \in Seq(Emails) /\ Len(a \o z) = Len(s) - 1
      /\ \A j \in 1..(Len(s) - 1) : (a \o z)[j] = IF j <= i - 1 THEN a[j] ELSE z[j - (i - 1)]
  <2>1. /\ a \o z \in Seq(Emails) /\ Len(a \o z) = Len(a) + Len(z)
        /\ \A j \in 1..(Len(a) + Len(z)) : (a \o z)[j] = IF j <= Len(a) THEN a[j] ELSE z[j - Len(a)]
    BY <1>2, <1>3, ConcatProperties
  <2>2. Len(a) = i - 1 /\ Len(a) + Len(z) = Len(s) - 1
    BY <1>1, <1>2, <1>3
  <2> QED
    BY <2>1, <2>2
<1>6. ASSUME NEW j \in 1..(Len(s) - 1), j < i PROVE (a \o z)[j] = s[j]
  BY <1>1, <1>2, <1>5, <1>6
<1>7. ASSUME NEW j \in 1..(Len(s) - 1), ~(j < i) PROVE (a \o z)[j] = s[j + 1]
  <2>1. j - (i - 1) \in 1..(Len(s) - i) /\ i + (j - (i - 1)) = j + 1
    BY <1>1, <1>7
  <2> QED
    BY <1>1, <1>3, <1>5, <1>7, <2>1
<1> QED
  BY <1>4, <1>5, <1>6, <1>7

\* A client that is added pushes others back, and none of them forward.
LEMMA AddedUnread ==
  ASSUME NEW s \in Seq(Emails), NEW i \in 1..(Len(s) + 1), NEW e \in Emails,
         NEW A, NEW seen, e \notin A, NEW b \in Int, NEW c \in Int, NEW n \in Nat,
         c = b \/ (b = Len(s) /\ c = Len(s) + 1),
         AtMost(Unread(s, b, A, seen), n)
  PROVE  AtMost(Unread(InsertAt(s, i, e), c, A, seen), n)
<1> DEFINE t == InsertAt(s, i, e)
           f == [j \in Unread(t, c, A, seen) |-> IF j < i THEN j ELSE j - 1]
<1>1. Len(s) \in Nat
  BY LenProperties
<1>2. /\ t \in Seq(Emails) /\ Len(t) = Len(s) + 1 /\ t[i] = e
      /\ \A j \in 1..(Len(s) + 1) : (j < i => t[j] = s[j]) /\ (j > i => t[j] = s[j - 1])
  BY Inserted
<1> HIDE DEF t
<1>3. \A j \in Unread(t, c, A, seen) :
        j \in 1..(Len(s) + 1) /\ j <= c /\ t[j] \in A /\ t[j] \notin seen /\ j # i
  BY <1>2 DEF Unread
<1>4. ASSUME NEW j \in Unread(t, c, A, seen) PROVE f[j] \in Unread(s, b, A, seen)
  <2>1. CASE j < i
    <3>1. f[j] = j /\ j \in 1..Len(s) /\ j <= b
      BY <1>1, <1>3, <2>1
    <3> QED
      BY <1>2, <1>3, <2>1, <3>1 DEF Unread
  <2>2. CASE j > i
    <3>1. f[j] = j - 1 /\ j - 1 \in 1..Len(s) /\ j - 1 <= b
      BY <1>1, <1>3, <2>2
    <3> QED
      BY <1>2, <1>3, <2>2, <3>1 DEF Unread
  <2> QED
    BY <1>3, <2>1, <2>2
<1>5. \A j, k \in Unread(t, c, A, seen) : f[j] = f[k] => j = k
  BY <1>1, <1>3
<1>6. f \in Injection(Unread(t, c, A, seen), Unread(s, b, A, seen))
  BY <1>4, <1>5 DEF Injection, IsInjective
<1> QED
  BY <1>6, FewerAtMost DEF t

\* One that is removed lets one of them slip over a boundary, and none is lost.
LEMMA RemovedUnread ==
  ASSUME NEW s \in Seq(Emails), NEW i \in 1..Len(s), NEW A, NEW seen, NEW b \in Int, NEW n \in Nat,
         AtMost(Unread(s, b, A, seen), n)
  PROVE  /\ AtMost(Unread(RemoveAt(s, i), b, A, seen), n + 1)
         /\ b = Len(s) => AtMost(Unread(RemoveAt(s, i), Len(s) - 1, A, seen), n)
<1> DEFINE t == RemoveAt(s, i)
           U(c) == Unread(t, c, A, seen)
           V == Unread(s, b, A, seen)
           f(c) == [j \in U(c) |-> IF j < i THEN j ELSE j + 1]
<1>1. Len(s) \in Nat
  BY LenProperties
<1>2. /\ t \in Seq(Emails) /\ Len(t) = Len(s) - 1
      /\ \A j \in 1..(Len(s) - 1) : t[j] = IF j < i THEN s[j] ELSE s[j + 1]
  BY Dropped
<1> HIDE DEF t
<1>3. ASSUME NEW c \in Int, NEW j \in U(c)
      PROVE  /\ j \in 1..(Len(s) - 1) /\ j <= c
             /\ f(c)[j] = IF j < i THEN j ELSE j + 1
             /\ f(c)[j] \in 1..Len(s) /\ s[f(c)[j]] \in A /\ s[f(c)[j]] \notin seen
  <2>1. j \in 1..(Len(s) - 1) /\ j <= c /\ t[j] \in A /\ t[j] \notin seen
    BY <1>2 DEF Unread
  <2>2. f(c)[j] = IF j < i THEN j ELSE j + 1
    OBVIOUS
  <2> HIDE DEF f
  <2> QED
    BY <1>1, <1>2, <2>1, <2>2
<1>4. ASSUME NEW c \in Int PROVE \A j, k \in U(c) : f(c)[j] = f(c)[k] => j = k
  <2> SUFFICES ASSUME NEW j \in U(c), NEW k \in U(c), f(c)[j] = f(c)[k] PROVE j = k
    OBVIOUS
  <2>1. /\ j \in 1..(Len(s) - 1) /\ f(c)[j] = IF j < i THEN j ELSE j + 1
        /\ k \in 1..(Len(s) - 1) /\ f(c)[k] = IF k < i THEN k ELSE k + 1
    BY <1>3
  <2>2. (IF j < i THEN j ELSE j + 1) = (IF k < i THEN k ELSE k + 1)
    BY <2>1
  <2> QED
    BY <1>1, <2>1, <2>2
<1>5. AtMost(U(b), n + 1)
  <2>1. ASSUME NEW j \in U(b) PROVE f(b)[j] \in V \cup {b + 1}
    <3>1. j \in Int /\ j <= b /\ f(b)[j] \in {j, j + 1}
      BY <1>3
    <3>2. f(b)[j] \in 1..Len(s) /\ s[f(b)[j]] \in A /\ s[f(b)[j]] \notin seen
      BY <1>3
    <3> HIDE DEF f
    <3>3. f(b)[j] <= b \/ f(b)[j] = b + 1
      BY <3>1
    <3> QED
      BY <3>2, <3>3 DEF Unread
  <2>2. f(b) \in Injection(U(b), V \cup {b + 1})
    BY <1>4, <2>1 DEF Injection, IsInjective
  <2>3. AtMost(V \cup {b + 1}, n + 1)
    BY OneMore
  <2>4. n + 1 \in Nat
    OBVIOUS
  <2> HIDE DEF U, V, f
  <2> QED
    BY <2>2, <2>3, <2>4, FewerAtMost
<1>6. ASSUME b = Len(s) PROVE AtMost(U(Len(s) - 1), n)
  <2> DEFINE c == Len(s) - 1
  <2>1. c \in Int
    BY <1>1
  <2>2. ASSUME NEW j \in U(c) PROVE f(c)[j] \in V
    <3>1. f(c)[j] \in 1..Len(s) /\ s[f(c)[j]] \in A /\ s[f(c)[j]] \notin seen
      BY <1>3, <2>1
    <3> HIDE DEF f
    <3> QED
      BY <1>1, <1>6, <3>1 DEF Unread
  <2>3. f(c) \in Injection(U(c), V)
    BY <1>4, <2>1, <2>2 DEF Injection, IsInjective
  <2> HIDE DEF U, V, f, c
  <2>4. AtMost(U(c), n)
    BY <2>3, FewerAtMost DEF V
  <2> QED
    BY <2>4 DEF c
<1> QED
  BY <1>5, <1>6 DEF t

-----------------------------------------------------------------------------
(* A listing while others change the list.                                  *)

Start == (page - 1) * PageSize
Stop  == page * PageSize

NoTwice == \A i, j \in 1..Len(list) : list[i] = list[j] => i = j

\* Nothing that was read is further back than this.
ReadUpTo(s, seen, b) == \A j \in 1..Len(s) : s[j] \in seen => j <= b

\* Between two pages: what is missing before the place where the next begins.
Between ==
  /\ Len(clients) <= Start
  /\ AtMost(Unread(list, Start, atStart, ToSet(clients)), removed)
  /\ ~crowded => ReadUpTo(list, ToSet(clients), Start + (added - seenAdded))

\* With a page at hand: what is missing before its end, and at all if it is the last.
AtHand ==
  /\ AtMost(Unread(list, Stop, atStart, Told), removed)
  /\ ~crowded /\ ~Crowds => ReadUpTo(list, Told, Stop + (added - reply.added))
  /\ Complete \/ (NothingNew /\ ~crowded /\ ~Crowds) =>
       AtMost(Unread(list, Len(list), atStart, Told), removed)

AllTold(s, seen) == \A e \in atStart \cap ToSet(s) : e \in seen

MissInv ==
  op = "list" =>
    /\ NoTwice
    /\ phase \in Waiting =>
         /\ seenAdded \in Nat /\ seenAdded <= added
         /\ page = 1 => clients = <<>>
         /\ IF habit = "whole" THEN page > 1 => AllTold(list, ToSet(clients)) ELSE Between
    /\ phase = "answered" =>
         /\ reply.added <= added
         /\ IF habit = "whole" THEN AllTold(list, Told)
                               ELSE AtHand /\ Len(reply.items) <= PageSize
    /\ phase = "ok" /\ ~crowded =>
         AtMost(Unread(list, Len(list), atStart, ToSet(clients)), removed)

LEMMA PlacesOf ==
  ASSUME NEW s \in Seq(Emails)
  PROVE  Len(s) \in Nat /\ \A e : e \in ToSet(s) <=> \E j \in 1..Len(s) : s[j] = e
BY LenProperties DEF ToSet

LEMMA PageNumbers ==
  ASSUME PanelTypeOK
  PROVE  Start \in Nat /\ PageSize \in Nat \ {0} /\ Stop = Start + PageSize /\ Len(list) \in Nat
<1>1. page \in Nat \ {0} /\ list \in Seq(Emails)
  BY PageAssumption DEF PanelTypeOK
<1> QED
  BY <1>1, Products, LenProperties DEF Start, Stop

LEMMA PageHolds ==
  ASSUME PanelTypeOK, habit # "whole"
  PROVE  LET items == PageOf(page).items IN
         /\ items \in Seq(Emails) /\ Len(items) \in Nat /\ Len(items) <= PageSize
         /\ \A j \in 1..Len(list) : Start < j /\ j <= Stop => list[j] \in ToSet(items)
         /\ \A e \in ToSet(items) : \E j \in 1..Len(list) : list[j] = e /\ j <= Stop
<1> DEFINE n == UpTo(Stop)
           items == SubSeq(list, Start + 1, n)
<1>1. /\ Start \in Nat /\ PageSize \in Nat \ {0} /\ Stop = Start + PageSize /\ Len(list) \in Nat
      /\ list \in Seq(Emails)
  BY PageNumbers DEF PanelTypeOK
<1>2. PageOf(page).items = items
  BY DEF PageOf, UpTo, Start, Stop
<1>3. n \in Nat /\ n <= Len(list) /\ n <= Stop /\ (Stop <= Len(list) => n = Stop) /\ (n # Stop => n = Len(list))
  BY <1>1 DEF UpTo
<1>4. /\ items \in Seq(Emails)
      /\ Len(items) = IF Start + 1 <= n THEN n - (Start + 1) + 1 ELSE 0
      /\ \A i \in 1..(n - (Start + 1) + 1) : items[i] = list[(Start + 1) + i - 1]
  <2>1. \A i \in (Start + 1)..n : list[i] \in Emails
    BY <1>1, <1>3, ElementOfSeq
  <2> HIDE DEF n
  <2> QED
    BY <1>1, <1>3, <2>1, SubSeqProperties
<1> HIDE DEF n, items
<1>5. /\ Len(items) \in Nat /\ Len(items) <= PageSize
      /\ \A i \in 1..Len(items) : items[i] = list[Start + i] /\ Start + i <= n /\ Start + i \in 1..Len(list)
  BY <1>1, <1>3, <1>4
<1>6. ASSUME NEW j \in 1..Len(list), Start < j, j <= Stop
      PROVE  list[j] \in ToSet(items)
  <2>1. j - Start \in 1..Len(items) /\ Start + (j - Start) = j
    BY <1>1, <1>3, <1>4, <1>6
  <2>2. items[j - Start] = list[j]
    BY <1>5, <2>1
  <2> QED
    BY <1>4, <2>1, <2>2, PlacesOf
<1>7. ASSUME NEW e \in ToSet(items)
      PROVE  \E j \in 1..Len(list) : list[j] = e /\ j <= Stop
  <2>1. PICK i \in 1..Len(items) : items[i] = e
    BY <1>4, PlacesOf
  <2>2. list[Start + i] = e /\ Start + i \in 1..Len(list) /\ Start + i <= n
    BY <1>5, <2>1
  <2> QED
    BY <1>1, <1>3, <2>2
<1> QED
  BY <1>2, <1>4, <1>5, <1>6, <1>7

LEMMA MissInit == PanelInit => MissInv
<1> SUFFICES ASSUME PanelInit PROVE MissInv
  OBVIOUS
<1>1. PICK n \in 0..MaxClients : list = [i \in 1..n |-> i]
  BY DEF PanelInit
<1>2. list \in Seq(Emails) /\ Len(list) = n /\ n \in Nat
  BY <1>1, ChangesAssumption DEF Emails
<1>3. NoTwice
  BY <1>1, <1>2 DEF NoTwice
<1>4. /\ phase = "sent" /\ page = 1 /\ clients = <<>> /\ added = 0 /\ removed = 0
      /\ seenAdded = 0
  BY DEF PanelInit
<1>5. Start = 0 /\ Len(clients) = 0 /\ ToSet(clients) = {}
  BY <1>4, PageAssumption DEF Start, ToSet
<1>6. Unread(list, 0, atStart, ToSet(clients)) = {}
  BY <1>2 DEF Unread
<1>7. AtMost({}, 0)
  BY FS_EmptySet DEF AtMost
<1>8. Between
  <2>1. AtMost(Unread(list, Start, atStart, ToSet(clients)), removed)
    BY <1>4, <1>5, <1>6, <1>7
  <2>2. ReadUpTo(list, ToSet(clients), Start + (added - seenAdded))
    BY <1>5 DEF ReadUpTo
  <2> QED
    BY <1>5, <2>1, <2>2 DEF Between
<1> QED
  BY <1>3, <1>4, <1>8 DEF MissInv

\* What others do.
LEMMA MissOthersAdd ==
  ASSUME PanelTypeOK, MissInv, NEW e \in Emails, NEW i \in 1..(Len(list) + 1), OthersAdd(e, i)
  PROVE  MissInv'
<1>1. /\ op = "list" /\ phase \in Waiting
      /\ e \notin ToSet(list) /\ e \notin atStart
      /\ list' = InsertAt(list, i, e) /\ added' = added + 1
      /\ crowded' = (crowded \/ e \in Told)
      /\ UNCHANGED <<habit, op, phase, reply, page, clients, atStart, removed, seenAdded>>
  BY DEF OthersAdd, Changing, callSide
<1>2. /\ list \in Seq(Emails) /\ added \in Nat /\ removed \in Nat
      /\ Start \in Nat /\ PageSize \in Nat \ {0} /\ Stop = Start + PageSize /\ Len(list) \in Nat
      /\ Start' = Start /\ Stop' = Stop /\ Told' = Told /\ Crowds' = Crowds
      /\ Complete' = Complete /\ NothingNew' = NothingNew
  BY <1>1, PageNumbers DEF PanelTypeOK, Start, Stop, Told, Crowds, Complete, Joined, NothingNew
<1>3. /\ list' \in Seq(Emails) /\ Len(list') = Len(list) + 1 /\ list'[i] = e
      /\ \A j \in 1..(Len(list) + 1) : (j < i => list'[j] = list[j]) /\ (j > i => list'[j] = list[j - 1])
  <2> DEFINE t == InsertAt(list, i, e)
  <2>1. /\ t \in Seq(Emails) /\ Len(t) = Len(list) + 1 /\ t[i] = e
        /\ \A j \in 1..(Len(list) + 1) : (j < i => t[j] = list[j]) /\ (j > i => t[j] = list[j - 1])
    BY <1>2, Inserted
  <2>2. list' = t
    BY <1>1
  <2> HIDE DEF t
  <2> QED
    BY <2>1, <2>2
<1>4. \A j \in 1..Len(list) : list[j] # e
  BY <1>1, <1>2, PlacesOf
<1>5. ASSUME NEW j \in 1..Len(list'), j # i
      PROVE  \E k \in 1..Len(list) : /\ list'[j] = list[k]
                                     /\ (j < i /\ k = j) \/ (j > i /\ k = j - 1)
  <2>1. CASE j < i
    BY <1>2, <1>3, <2>1
  <2>2. CASE j > i
    <3>1. j - 1 \in 1..Len(list)
      BY <1>2, <1>3, <2>2
    <3> QED
      BY <1>3, <2>2, <3>1
  <2> QED
    BY <1>2, <1>3, <1>5, <2>1, <2>2
<1>6. NoTwice'
  <2> SUFFICES ASSUME NEW j \in 1..Len(list'), NEW k \in 1..Len(list'), list'[j] = list'[k]
               PROVE  j = k
    BY DEF NoTwice
  <2>1. CASE j = i \/ k = i
    BY <1>3, <1>4, <1>5, <2>1
  <2>2. CASE j # i /\ k # i
    <3>1. PICK x \in 1..Len(list) : list'[j] = list[x] /\ ((j < i /\ x = j) \/ (j > i /\ x = j - 1))
      BY <1>5, <2>2
    <3>2. PICK y \in 1..Len(list) : list'[k] = list[y] /\ ((k < i /\ y = k) \/ (k > i /\ y = k - 1))
      BY <1>5, <2>2
    <3>3. x = y
      BY <1>1, <3>1, <3>2 DEF MissInv, NoTwice
    <3> QED
      BY <1>2, <1>3, <3>1, <3>2, <3>3
  <2> QED
    BY <2>1, <2>2
<1>7. ASSUME NEW seen, NEW b \in Int, ReadUpTo(list, seen, b), e \notin seen
      PROVE  ReadUpTo(list', seen, b + 1)
  <2> SUFFICES ASSUME NEW j \in 1..Len(list'), list'[j] \in seen PROVE j <= b + 1
    BY DEF ReadUpTo
  <2>1. PICK k \in 1..Len(list) : list'[j] = list[k] /\ ((j < i /\ k = j) \/ (j > i /\ k = j - 1))
    BY <1>3, <1>5, <1>7
  <2>2. k <= b
    BY <1>7, <2>1 DEF ReadUpTo
  <2> QED
    BY <1>2, <2>1, <2>2
<1>8. ToSet(clients) \subseteq Told
  BY DEF Told
<1>9. ASSUME habit # "whole"
      PROVE  Between'
  <2>1. Between /\ seenAdded \in Nat
    BY <1>1, <1>9 DEF MissInv
  <2>2. AtMost(Unread(list', Start, atStart, ToSet(clients)), removed)
    BY <1>1, <1>2, <2>1, AddedUnread DEF Between
  <2>3. ASSUME ~crowded' PROVE ReadUpTo(list', ToSet(clients), Start + (added + 1 - seenAdded))
    <3>1. e \notin ToSet(clients) /\ ReadUpTo(list, ToSet(clients), Start + (added - seenAdded))
      BY <1>1, <1>8, <2>1, <2>3 DEF Between
    <3>2. /\ Start + (added - seenAdded) \in Int
          /\ Start + (added + 1 - seenAdded) = (Start + (added - seenAdded)) + 1
      BY <1>2, <2>1
    <3> QED
      BY <1>7, <3>1, <3>2
  <2> QED
    BY <1>1, <1>2, <2>1, <2>2, <2>3 DEF Between
<1>10. ASSUME habit # "whole", phase = "answered"
       PROVE  AtHand'
  <2>1. AtHand /\ reply.added \in Nat
    BY <1>1, <1>10 DEF MissInv, PanelTypeOK, Answers
  <2>2. AtMost(Unread(list', Stop, atStart, Told), removed)
    BY <1>1, <1>2, <2>1, AddedUnread DEF AtHand
  <2>3. ASSUME ~crowded', ~Crowds PROVE ReadUpTo(list', Told, Stop + (added - reply.added) + 1)
    <3>1. e \notin Told /\ ReadUpTo(list, Told, Stop + (added - reply.added))
      BY <1>1, <2>1, <2>3 DEF AtHand
    <3>2. Stop + (added - reply.added) \in Int
      BY <1>2, <2>1
    <3> QED
      BY <1>7, <3>1, <3>2
  <2>4. ASSUME Complete \/ (NothingNew /\ ~crowded' /\ ~Crowds)
        PROVE  AtMost(Unread(list', Len(list'), atStart, Told), removed)
    <3>1. AtMost(Unread(list, Len(list), atStart, Told), removed)
      BY <1>1, <2>1, <2>4 DEF AtHand
    <3> QED
      BY <1>1, <1>2, <1>3, <3>1, AddedUnread
  <2>5. ~crowded' /\ ~Crowds' => ReadUpTo(list', Told', Stop' + (added' - reply'.added))
    <3>1. Crowds' <=> Crowds
      BY <1>1 DEF Crowds
    <3>2. /\ Told' = Told /\ Stop' = Stop
          /\ Stop' + (added' - reply'.added) = Stop + (added - reply.added) + 1
      <4>1. reply' = reply /\ added' = added + 1 /\ Stop' = Stop /\ Told' = Told
        BY <1>1, <1>2
      <4>2. Stop \in Int /\ added \in Int /\ reply.added \in Int
        BY <1>2, <2>1
      <4> QED
        BY <4>1, <4>2
    <3> QED
      BY <2>3, <3>1, <3>2
  <2>6. Complete' \/ (NothingNew' /\ ~crowded' /\ ~Crowds') =>
          AtMost(Unread(list', Len(list'), atStart', Told'), removed')
    BY <1>1, <1>2, <2>4
  <2>7. AtMost(Unread(list', Stop', atStart', Told'), removed')
    BY <1>1, <1>2, <2>2
  <2> QED
    BY <2>5, <2>6, <2>7 DEF AtHand
<1>11. ASSUME NEW seen, AllTold(list, seen) PROVE AllTold(list', seen)
  <2>1. ASSUME NEW x \in atStart, x \in ToSet(list') PROVE x \in ToSet(list)
    <3>1. PICK j \in 1..Len(list') : list'[j] = x
      BY <1>3, <2>1, PlacesOf
    <3>2. j # i
      BY <1>1, <1>3, <2>1, <3>1
    <3> QED
      BY <1>2, <1>5, <3>1, <3>2, PlacesOf
  <2> QED
    BY <1>1, <1>11, <2>1 DEF AllTold
<1>12. /\ seenAdded' \in Nat /\ seenAdded' <= added'
       /\ page' = 1 => clients' = <<>>
       /\ phase' = "answered" => reply'.added <= added'
  BY <1>1, <1>2 DEF MissInv, PanelTypeOK, Answers
<1>13. CASE habit = "whole"
  <2>1. page' > 1 => AllTold(list, ToSet(clients))'
    BY <1>1, <1>11, <1>13 DEF MissInv, AllTold
  <2>2. phase' = "answered" => AllTold(list, Told)'
    BY <1>1, <1>2, <1>11, <1>13 DEF MissInv, AllTold
  <2> QED
    BY <1>1, <1>6, <1>12, <1>13, <2>1, <2>2 DEF MissInv
<1>14. CASE habit # "whole"
  <2>1. phase' = "answered" => Len(reply'.items) <= PageSize
    BY <1>1, <1>14 DEF MissInv
  <2> QED
    BY <1>1, <1>6, <1>9, <1>10, <1>12, <1>14, <2>1 DEF MissInv
<1> QED
  BY <1>13, <1>14

LEMMA MissOthersRemove ==
  ASSUME PanelTypeOK, MissInv, NEW i \in 1..Len(list), OthersRemove(i)
  PROVE  MissInv'
<1>1. /\ op = "list" /\ phase \in Waiting
      /\ list' = RemoveAt(list, i) /\ removed' = removed + 1
      /\ UNCHANGED <<habit, op, phase, reply, page, clients, atStart, added, seenAdded, crowded>>
  BY DEF OthersRemove, Changing, callSide
<1>2. /\ list \in Seq(Emails) /\ added \in Nat /\ removed \in Nat
      /\ Start \in Nat /\ PageSize \in Nat \ {0} /\ Stop = Start + PageSize /\ Len(list) \in Nat
      /\ Start' = Start /\ Stop' = Stop /\ Told' = Told /\ Crowds' = Crowds
      /\ Complete' = Complete /\ NothingNew' = NothingNew
  BY <1>1, PageNumbers DEF PanelTypeOK, Start, Stop, Told, Crowds, Complete, Joined, NothingNew
<1>3. /\ list' \in Seq(Emails) /\ Len(list') = Len(list) - 1
      /\ \A j \in 1..(Len(list) - 1) : list'[j] = IF j < i THEN list[j] ELSE list[j + 1]
  BY <1>1, <1>2, Dropped
<1>4. ASSUME NEW j \in 1..Len(list')
      PROVE  \E k \in 1..Len(list) : /\ list'[j] = list[k]
                                     /\ (j < i /\ k = j) \/ (~(j < i) /\ k = j + 1)
  <2>1. j \in 1..(Len(list) - 1) /\ j \in 1..Len(list) /\ j + 1 \in 1..Len(list)
    BY <1>2, <1>3
  <2> QED
    BY <1>3, <2>1
<1>5. NoTwice'
  <2> SUFFICES ASSUME NEW j \in 1..Len(list'), NEW k \in 1..Len(list'), list'[j] = list'[k]
               PROVE  j = k
    BY DEF NoTwice
  <2>1. PICK x \in 1..Len(list) : list'[j] = list[x] /\ ((j < i /\ x = j) \/ (~(j < i) /\ x = j + 1))
    BY <1>4
  <2>2. PICK y \in 1..Len(list) : list'[k] = list[y] /\ ((k < i /\ y = k) \/ (~(k < i) /\ y = k + 1))
    BY <1>4
  <2>3. x = y
    BY <1>1, <2>1, <2>2 DEF MissInv, NoTwice
  <2> QED
    BY <1>2, <1>3, <2>1, <2>2, <2>3
<1>6. ASSUME NEW seen, NEW b \in Int, ReadUpTo(list, seen, b)
      PROVE  ReadUpTo(list', seen, b)
  <2> SUFFICES ASSUME NEW j \in 1..Len(list'), list'[j] \in seen PROVE j <= b
    BY DEF ReadUpTo
  <2>1. PICK k \in 1..Len(list) : list'[j] = list[k] /\ ((j < i /\ k = j) \/ (~(j < i) /\ k = j + 1))
    BY <1>4
  <2>2. k <= b
    BY <1>6, <2>1 DEF ReadUpTo
  <2> QED
    BY <1>2, <1>3, <2>1, <2>2
<1>7. ASSUME habit # "whole"
      PROVE  Between'
  <2>1. Between /\ seenAdded \in Nat
    BY <1>1, <1>7 DEF MissInv
  <2>2. AtMost(Unread(list', Start, atStart, ToSet(clients)), removed + 1)
    BY <1>1, <1>2, <2>1, RemovedUnread DEF Between
  <2>3. ASSUME ~crowded PROVE ReadUpTo(list', ToSet(clients), Start + (added - seenAdded))
    <3>1. /\ ReadUpTo(list, ToSet(clients), Start + (added - seenAdded))
          /\ Start + (added - seenAdded) \in Int
      BY <1>2, <2>1, <2>3 DEF Between
    <3> QED
      BY <1>6, <3>1
  <2> QED
    BY <1>1, <1>2, <2>1, <2>2, <2>3 DEF Between
<1>8. ASSUME habit # "whole", phase = "answered"
      PROVE  AtHand'
  <2>1. AtHand /\ reply.added \in Nat
    BY <1>1, <1>8 DEF MissInv, PanelTypeOK, Answers
  <2>2. AtMost(Unread(list', Stop, atStart, Told), removed + 1)
    BY <1>1, <1>2, <2>1, RemovedUnread DEF AtHand
  <2>3. ASSUME ~crowded, ~Crowds PROVE ReadUpTo(list', Told, Stop + (added - reply.added))
    <3>1. /\ ReadUpTo(list, Told, Stop + (added - reply.added))
          /\ Stop + (added - reply.added) \in Int
      BY <1>2, <2>1, <2>3 DEF AtHand
    <3> QED
      BY <1>6, <3>1
  <2>4. ASSUME Complete \/ (NothingNew /\ ~crowded /\ ~Crowds)
        PROVE  AtMost(Unread(list', Len(list'), atStart, Told), removed + 1)
    <3>1. AtMost(Unread(list, Len(list), atStart, Told), removed)
      BY <2>1, <2>4 DEF AtHand
    <3>2. AtMost(Unread(list', Len(list'), atStart, Told), removed)
      BY <1>1, <1>2, <1>3, <3>1, RemovedUnread
    <3> QED
      BY <1>2, <3>2, FS_CardinalityType DEF AtMost
  <2> QED
    BY <1>1, <1>2, <2>2, <2>3, <2>4 DEF AtHand
<1>9. ASSUME NEW seen, AllTold(list, seen) PROVE AllTold(list', seen)
  <2>1. ASSUME NEW x, x \in ToSet(list') PROVE x \in ToSet(list)
    BY <1>2, <1>3, <1>4, <2>1, PlacesOf
  <2> QED
    BY <1>1, <1>9, <2>1 DEF AllTold
<1>10. CASE habit = "whole"
  BY <1>1, <1>2, <1>5, <1>9, <1>10 DEF MissInv, AllTold
<1>11. CASE habit # "whole"
  BY <1>1, <1>2, <1>5, <1>7, <1>8, <1>11 DEF MissInv
<1> QED
  BY <1>10, <1>11

LEMMA JoinedTold ==
  ASSUME PanelTypeOK, phase = "answered"
  PROVE  /\ reply.items \in Seq(Emails) /\ Len(reply.items) \in Nat /\ Len(clients) \in Nat
         /\ Told = ToSet(clients) \cup ToSet(reply.items)
         /\ ToSet(Joined) = Told /\ Len(Joined) = Len(clients) + Len(reply.items)
         /\ reply.added \in Nat
<1> DEFINE c == clients
           r == reply.items
<1>1. c \in Seq(Emails) /\ r \in Seq(Emails) /\ reply.added \in Nat
  BY DEF PanelTypeOK, Answers
<1>2. Told = ToSet(c) \cup ToSet(r) /\ Joined = c \o r
  BY DEF Told, Joined
<1> HIDE DEF c, r
<1>3. /\ c \o r \in Seq(Emails) /\ Len(c \o r) = Len(c) + Len(r)
      /\ Len(c) \in Nat /\ Len(r) \in Nat
      /\ \A i \in 1..Len(c) : (c \o r)[i] = c[i]
      /\ \A i \in 1..Len(r) : (c \o r)[Len(c) + i] = r[i]
  BY <1>1
<1>4. ASSUME NEW e \in ToSet(c \o r) PROVE e \in ToSet(c) \cup ToSet(r)
  <2>1. PICK i \in 1..Len(c \o r) : (c \o r)[i] = e
    BY <1>3, PlacesOf
  <2>2. CASE i <= Len(c)
    BY <1>1, <1>3, <2>1, <2>2, PlacesOf
  <2>3. CASE i > Len(c)
    <3>1. i - Len(c) \in 1..Len(r) /\ Len(c) + (i - Len(c)) = i
      BY <1>3, <2>3
    <3>2. r[i - Len(c)] = e
      BY <1>3, <2>1, <3>1
    <3> QED
      BY <1>1, <3>1, <3>2, PlacesOf
  <2> QED
    BY <1>3, <2>2, <2>3
<1>5. ASSUME NEW e, e \in ToSet(c) \/ e \in ToSet(r) PROVE e \in ToSet(c \o r)
  <2>1. ASSUME NEW i \in 1..Len(c), c[i] = e PROVE e \in ToSet(c \o r)
    <3>1. i \in 1..Len(c \o r) /\ (c \o r)[i] = e
      BY <1>3, <2>1
    <3> QED
      BY <1>3, <3>1, PlacesOf
  <2>2. ASSUME NEW i \in 1..Len(r), r[i] = e PROVE e \in ToSet(c \o r)
    <3>1. Len(c) + i \in 1..Len(c \o r) /\ (c \o r)[Len(c) + i] = e
      BY <1>3, <2>2
    <3> QED
      BY <1>3, <3>1, PlacesOf
  <2> QED
    BY <1>1, <1>5, <2>1, <2>2, PlacesOf
<1> QED
  BY <1>1, <1>2, <1>3, <1>4, <1>5 DEF c, r

\* The panel answers.
LEMMA MissPanelHandles == ASSUME PanelTypeOK, MissInv, PanelHandles PROVE MissInv'
<1>1. /\ phase = "sent" /\ phase' = "answered" /\ reply' = PageOf(page)
      /\ UNCHANGED <<list, habit, op, page, clients, atStart, added, removed, seenAdded, crowded>>
  BY DEF PanelHandles, history
<1>2. CASE op # "list"
  BY <1>1, <1>2 DEF MissInv
<1> SUFFICES ASSUME op = "list" PROVE MissInv'
  BY <1>2
<1>3. /\ list \in Seq(Emails) /\ added \in Nat /\ removed \in Nat /\ page \in Nat /\ page >= 1
      /\ clients \in Seq(Emails) /\ Len(clients) \in Nat
      /\ Start \in Nat /\ PageSize \in Nat \ {0} /\ Stop = Start + PageSize /\ Len(list) \in Nat
      /\ Start' = Start /\ Stop' = Stop
  BY <1>1, PageNumbers, PageAssumption, LenProperties DEF PanelTypeOK, Start, Stop
<1>4. /\ NoTwice /\ seenAdded \in Nat /\ seenAdded <= added
      /\ page = 1 => clients = <<>>
      /\ habit # "whole" => Between
  BY <1>1 DEF MissInv
<1> DEFINE items == PageOf(page).items
           told  == ToSet(clients) \cup ToSet(items)
<1>5. /\ reply'.items = items /\ reply'.added = added
      /\ Told' = told
      /\ habit = "whole" => items = list
  BY <1>1 DEF PageOf, Told
<1>6. NoTwice'
  BY <1>1, <1>4 DEF NoTwice
<1>7. CASE habit = "whole"
  <2>1. AllTold(list, Told)' /\ (page' > 1 => AllTold(list, ToSet(clients))')
    BY <1>1, <1>5, <1>7 DEF AllTold, MissInv
  <2> QED
    BY <1>1, <1>3, <1>4, <1>5, <1>6, <1>7, <2>1 DEF MissInv
<1>8. CASE habit # "whole"
  <2>1. /\ items \in Seq(Emails) /\ Len(items) \in Nat /\ Len(items) <= PageSize
        /\ \A j \in 1..Len(list) : Start < j /\ j <= Stop => list[j] \in ToSet(items)
        /\ \A e \in ToSet(items) : \E j \in 1..Len(list) : list[j] = e /\ j <= Stop
    BY <1>8, PageHolds
  <2>2. reply'.filtered \in Nat /\ reply'.filtered >= Len(list)
    BY <1>1, <1>3 DEF PageOf
  <2>3. /\ Complete' <=> Len(clients) + Len(items) >= reply'.filtered
        /\ NothingNew' <=> ToSet(items) \subseteq ToSet(clients)
        /\ Crowds' <=> page > 1 /\ added - seenAdded >= PageSize
    <3>1. Joined' = clients \o items
      BY <1>1, <1>5 DEF Joined
    <3>2. Len(clients \o items) = Len(clients) + Len(items)
      BY <1>3, <2>1
    <3> QED
      BY <1>1, <1>5, <3>1, <3>2 DEF Complete, NothingNew, Crowds
  <2> HIDE DEF items
  <2>4. ASSUME NEW j \in 1..Len(list), list[j] \in ToSet(clients), ~crowded, ~Crowds'
        PROVE  j < Stop
    <3>1. page # 1
      <4>1. ASSUME clients = <<>> PROVE FALSE
        <5>1. ToSet(clients) = {}
          BY <4>1 DEF ToSet
        <5> QED
          BY <2>4, <5>1
      <4> QED
        BY <1>4, <4>1
    <3>2. j <= Start + (added - seenAdded)
      BY <1>4, <1>8, <2>4 DEF Between, ReadUpTo
    <3>3. added - seenAdded < PageSize
      BY <1>3, <1>4, <2>3, <2>4, <3>1
    <3> QED
      BY <1>3, <1>4, <3>2, <3>3
  <2>5. Unread(list, Stop, atStart, told) \subseteq Unread(list, Start, atStart, ToSet(clients))
    <3>1. ASSUME NEW j \in 1..Len(list), j <= Stop, list[j] \notin told
          PROVE  j <= Start
      BY <1>3, <2>1, <3>1
    <3> QED
      BY <3>1 DEF Unread
  <2>6. AtMost(Unread(list, Stop, atStart, told), removed)
    BY <1>3, <1>4, <1>8, <2>5, PartAtMost DEF Between
  <2>7. ASSUME ~crowded, ~Crowds' PROVE ReadUpTo(list, told, Stop)
    <3>1. ASSUME NEW j \in 1..Len(list), list[j] \in told PROVE j <= Stop
      <4>1. CASE list[j] \in ToSet(clients)
        BY <1>3, <2>4, <2>7, <4>1
      <4>2. CASE list[j] \in ToSet(items)
        <5>1. PICK k \in 1..Len(list) : list[k] = list[j] /\ k <= Stop
          BY <2>1, <4>2
        <5>2. k = j
          BY <1>4, <5>1 DEF NoTwice
        <5> QED
          BY <5>1, <5>2
      <4> QED
        BY <3>1, <4>1, <4>2
    <3> QED
      BY <3>1 DEF ReadUpTo
  <2>8. ASSUME Complete' \/ (NothingNew' /\ ~crowded /\ ~Crowds')
        PROVE  Len(list) <= Stop
    <3>1. CASE Complete'
      <4>1. Len(clients) <= Start
        BY <1>4, <1>8 DEF Between
      <4> QED
        BY <1>3, <2>1, <2>2, <2>3, <3>1, <4>1
    <3>2. CASE NothingNew' /\ ~crowded /\ ~Crowds'
      <4>1. ASSUME Len(list) > Stop PROVE FALSE
        <5>1. Stop \in 1..Len(list) /\ Start < Stop /\ Stop <= Stop
          BY <1>3, <4>1
        <5>2. list[Stop] \in ToSet(clients)
          BY <2>1, <2>3, <3>2, <5>1
        <5>3. Stop < Stop
          BY <2>4, <3>2, <5>1, <5>2
        <5> QED
          BY <1>3, <5>3
      <4> QED
        BY <1>3, <4>1
    <3> QED
      BY <2>8, <3>1, <3>2
  <2>9. ASSUME Complete' \/ (NothingNew' /\ ~crowded /\ ~Crowds')
        PROVE  AtMost(Unread(list, Len(list), atStart, told), removed)
    <3>1. Unread(list, Len(list), atStart, told) \subseteq Unread(list, Stop, atStart, told)
      BY <1>3, <2>8, <2>9 DEF Unread
    <3> QED
      BY <1>3, <2>6, <3>1, PartAtMost
  <2>10. AtHand'
    <3>1. Stop' + (added' - reply'.added) = Stop
      <4>1. added' = added /\ reply'.added = added /\ Stop' = Stop
        BY <1>1, <1>3, <1>5
      <4> QED
        BY <1>3, <4>1
    <3>2. ~crowded' /\ ~Crowds' => ReadUpTo(list', Told', Stop' + (added' - reply'.added))
      BY <1>1, <1>5, <2>7, <3>1
    <3>3. Complete' \/ (NothingNew' /\ ~crowded' /\ ~Crowds') =>
            AtMost(Unread(list', Len(list'), atStart', Told'), removed')
      BY <1>1, <1>5, <2>9
    <3>4. AtMost(Unread(list', Stop', atStart', Told'), removed')
      BY <1>1, <1>3, <1>5, <2>6
    <3> QED
      BY <3>2, <3>3, <3>4 DEF AtHand
  <2>11. Between'
    BY <1>1, <1>3, <1>4, <1>8 DEF Between
  <2>12. Len(reply'.items) <= PageSize /\ reply'.added <= added'
    BY <1>1, <1>3, <1>5, <2>1
  <2> QED
    BY <1>1, <1>4, <1>6, <1>8, <2>10, <2>11, <2>12 DEF MissInv
<1> QED
  BY <1>7, <1>8

\* An attempt that fails is repeated, or ends the listing without a result.
LEMMA MissFaults ==
  ASSUME PanelTypeOK, MissInv, TemporaryFault \/ PermanentFault
  PROVE  MissInv'
<1>1. /\ phase \in Waiting /\ phase' \in {"sent", "failed"}
      /\ UNCHANGED <<list, habit, op, page, clients, atStart, added, removed, seenAdded, crowded>>
  BY DEF TemporaryFault, PermanentFault
<1>2. CASE op # "list"
  BY <1>1, <1>2 DEF MissInv
<1>3. CASE op = "list"
  <2>1. /\ NoTwice /\ seenAdded \in Nat /\ seenAdded <= added
        /\ page = 1 => clients = <<>>
        /\ IF habit = "whole" THEN page > 1 => AllTold(list, ToSet(clients)) ELSE Between
    BY <1>1, <1>3 DEF MissInv
  <2>2. NoTwice'
    BY <1>1, <2>1 DEF NoTwice
  <2>3. Between => Between'
    BY <1>1 DEF Between, Start
  <2>4. AllTold(list, ToSet(clients)) => AllTold(list, ToSet(clients))'
    BY <1>1 DEF AllTold
  <2> QED
    BY <1>1, <1>3, <2>1, <2>2, <2>3, <2>4 DEF MissInv
<1> QED
  BY <1>2, <1>3

\* All that is not missing was told.
LEMMA AllToldMissesNothing ==
  ASSUME PanelTypeOK, NEW seen, AllTold(list, seen)
  PROVE  AtMost(Unread(list, Len(list), atStart, seen), removed)
<1>1. list \in Seq(Emails) /\ removed \in Nat
  BY DEF PanelTypeOK
<1>2. ASSUME NEW j \in Unread(list, Len(list), atStart, seen) PROVE FALSE
  <2>1. j \in 1..Len(list) /\ list[j] \in atStart /\ list[j] \notin seen
    BY DEF Unread
  <2>2. list[j] \in ToSet(list)
    BY <1>1, <2>1, PlacesOf
  <2> QED
    BY <2>1, <2>2 DEF AllTold
<1>3. Unread(list, Len(list), atStart, seen) = {}
  BY <1>2
<1> QED
  BY <1>1, <1>3, FS_EmptySet DEF AtMost

\* A page that ends the listing.
LEMMA MissEnds ==
  ASSUME PanelTypeOK, MissInv, EmptyOrRepeated \/ AllRead \/ LimitExceeded
  PROVE  MissInv'
<1>1. /\ op = "list" /\ phase = "answered" /\ phase' \in {"ok", "failed"}
      /\ crowded' = (crowded \/ Crowds)
      /\ UNCHANGED <<list, habit, op, page, atStart, added, removed, seenAdded>>
  BY DEF EmptyOrRepeated, AllRead, LimitExceeded, PageRead, Ends, panelSide
<1>2. phase' = "ok" =>
        /\ ToSet(clients') = Told
        /\ Complete \/ NothingNew
  <2>1. CASE EmptyOrRepeated
    <3>1. clients' = clients /\ NothingNew
      BY <2>1 DEF EmptyOrRepeated, Ends
    <3> QED
      BY <1>1, <3>1, JoinedTold DEF NothingNew
  <2>2. CASE AllRead
    <3>1. clients' = Joined /\ Complete
      BY <2>2 DEF AllRead, Ends
    <3> QED
      BY <1>1, <3>1, JoinedTold
  <2>3. CASE LimitExceeded
    BY <2>3 DEF LimitExceeded, Ends
  <2> QED
    BY <2>1, <2>2, <2>3
<1>3. NoTwice'
  BY <1>1 DEF MissInv, NoTwice
<1>4. ASSUME phase' = "ok", ~crowded'
      PROVE  AtMost(Unread(list, Len(list), atStart, Told), removed)
  <2>1. ~crowded /\ ~Crowds
    BY <1>1, <1>4
  <2>2. CASE habit = "whole"
    BY <1>1, <2>2, AllToldMissesNothing DEF MissInv
  <2>3. CASE habit # "whole"
    <3>1. AtHand
      BY <1>1, <2>3 DEF MissInv
    <3> QED
      BY <1>2, <1>4, <2>1, <3>1 DEF AtHand
  <2> QED
    BY <2>2, <2>3
<1>5. phase' = "ok" /\ ~crowded' =>
        AtMost(Unread(list', Len(list'), atStart', ToSet(clients')), removed')
  BY <1>1, <1>2, <1>4
<1> QED
  BY <1>1, <1>3, <1>5 DEF MissInv

\* A page that is not the last.
LEMMA MissNextPage ==
  ASSUME PanelTypeOK, MissInv, NextPage
  PROVE  MissInv'
<1>1. /\ op = "list" /\ phase = "answered" /\ phase' = "sent"
      /\ clients' = Joined /\ page' = page + 1
      /\ crowded' = (crowded \/ Crowds)
      /\ seenAdded' = reply.added
      /\ UNCHANGED <<list, habit, op, atStart, added, removed>>
  BY DEF NextPage, PageRead, panelSide
<1>2. /\ NoTwice /\ reply.added <= added
      /\ IF habit = "whole" THEN AllTold(list, Told) ELSE Between /\ AtHand /\ Len(reply.items) <= PageSize
  BY <1>1 DEF MissInv
<1>3. /\ ToSet(Joined) = Told /\ Len(Joined) = Len(clients) + Len(reply.items)
      /\ Len(reply.items) \in Nat /\ Len(clients) \in Nat /\ reply.added \in Nat
  BY <1>1, JoinedTold
<1>4. /\ page \in Nat \ {0} /\ Start \in Nat /\ PageSize \in Nat \ {0} /\ Stop = Start + PageSize
  BY PageNumbers, PageAssumption DEF PanelTypeOK
<1>5. Start' = Stop /\ page' > 1
  <2>1. (page + 1) - 1 = page
    BY <1>4
  <2> QED
    BY <1>1, <1>4, <2>1 DEF Start, Stop
<1>6. NoTwice'
  BY <1>1, <1>2 DEF NoTwice
<1>7. CASE habit = "whole"
  <2>1. AllTold(list, ToSet(clients))'
    BY <1>1, <1>2, <1>3, <1>7 DEF AllTold
  <2> QED
    BY <1>1, <1>2, <1>3, <1>5, <1>6, <1>7, <2>1 DEF MissInv
<1>8. CASE habit # "whole"
  <2>1. Len(clients') <= Start'
    BY <1>1, <1>2, <1>3, <1>4, <1>5, <1>8 DEF Between
  <2>2. AtMost(Unread(list', Start', atStart', ToSet(clients')), removed')
    BY <1>1, <1>2, <1>3, <1>5, <1>8 DEF AtHand
  <2>3. ~crowded' => ReadUpTo(list', ToSet(clients'), Start' + (added' - seenAdded'))
    <3>1. ~crowded' => ~crowded /\ ~Crowds
      BY <1>1
    <3>2. ~crowded' => ReadUpTo(list, Told, Stop + (added - reply.added))
      BY <1>2, <1>8, <3>1 DEF AtHand
    <3> QED
      BY <1>1, <1>3, <1>5, <3>2
  <2>4. Between'
    BY <2>1, <2>2, <2>3 DEF Between
  <2> QED
    BY <1>1, <1>2, <1>3, <1>5, <1>6, <1>8, <2>4 DEF MissInv
<1> QED
  BY <1>7, <1>8

LEMMA MissSame ==
  ASSUME MissInv,
         UNCHANGED <<list, habit, op, phase, reply, page, clients, atStart, added, removed, seenAdded, crowded>>
  PROVE  MissInv'
<1>1. /\ NoTwice' <=> NoTwice
      /\ Between' <=> Between
      /\ AtHand' <=> AtHand
      /\ AllTold(list, Told)' <=> AllTold(list, Told)
      /\ AllTold(list, ToSet(clients))' <=> AllTold(list, ToSet(clients))
  BY DEF NoTwice, Between, AtHand, AllTold, Start, Stop, Told, Crowds, Complete, Joined, NothingNew
<1> QED
  BY <1>1 DEF MissInv

LEMMA MissStep == PanelTypeOK /\ MissInv /\ [PanelNext]_panelVars => MissInv'
<1> SUFFICES ASSUME PanelTypeOK, MissInv, [PanelNext]_panelVars PROVE MissInv'
  OBVIOUS
<1>1. CASE PanelHandlesStray
  <2>1. UNCHANGED <<list, habit, op, phase, reply, page, clients, atStart, added, removed, seenAdded, crowded>>
    BY <1>1 DEF PanelHandlesStray, callSide, history
  <2> QED
    BY <2>1, MissSame
<1>2. CASE Answered
  <2>1. op' = op /\ op # "list"
    BY <1>2 DEF Answered
  <2> QED
    BY <2>1 DEF MissInv
<1>3. CASE UNCHANGED panelVars
  <2>1. UNCHANGED <<list, habit, op, phase, reply, page, clients, atStart, added, removed, seenAdded, crowded>>
    BY <1>3 DEF panelVars, panelSide, callSide, history
  <2> QED
    BY <2>1, MissSame
<1> QED
  BY <1>1, <1>2, <1>3, MissOthersAdd, MissOthersRemove, MissPanelHandles, MissFaults, MissEnds,
     MissNextPage DEF PanelNext

\* Who is missing stands at a place that was not read.
LEMMA MissingAreUnread ==
  ASSUME PanelTypeOK, NEW A, NEW seen, NEW n \in Nat, AtMost(Unread(list, Len(list), A, seen), n)
  PROVE  Cardinality((A \cap ToSet(list)) \ seen) <= n
<1> DEFINE U == Unread(list, Len(list), A, seen)
           M == (A \cap ToSet(list)) \ seen
           f == [j \in U |-> list[j]]
<1>1. list \in Seq(Emails) /\ Len(list) \in Nat
  BY LenProperties DEF PanelTypeOK
<1>2. ASSUME NEW e \in M PROVE \E j \in U : f[j] = e
  <2>1. PICK j \in 1..Len(list) : list[j] = e
    BY <1>1, PlacesOf
  <2>2. j \in U
    BY <1>1, <1>2, <2>1 DEF Unread
  <2> QED
    BY <2>1, <2>2
<1>3. ASSUME NEW j \in U PROVE f[j] \in M
  <2>1. j \in 1..Len(list) /\ list[j] \in A /\ list[j] \notin seen
    BY <1>3 DEF Unread
  <2>2. list[j] \in ToSet(list)
    BY <1>1, <2>1, PlacesOf
  <2> QED
    BY <2>1, <2>2
<1>4. f \in Surjection(U, M)
  BY <1>2, <1>3 DEF Surjection
<1>5. IsFiniteSet(U) /\ Cardinality(U) <= n
  BY DEF AtMost
<1> HIDE DEF U, M, f
<1>6. IsFiniteSet(M) /\ Cardinality(M) <= Cardinality(U)
  BY <1>4, <1>5, FS_Surjection
<1>7. Cardinality(M) \in Nat /\ Cardinality(U) \in Nat
  BY <1>5, <1>6, FS_CardinalityType
<1> QED
  BY <1>5, <1>6, <1>7 DEF M

LEMMA MissInvariant == PanelSpec => []MissInv
BY MissInit, MissStep, ClientTypes, PTL DEF PanelSpec

\* However others change the panel during a listing, it misses at most one client
\* for each one they remove, if less than a page is added between two pages and
\* none is added again that was told.
THEOREM ListingsMissOnlyByRemoval == PanelSpec => []MissesOnlyByRemoval
<1>1. PanelTypeOK /\ MissInv => MissesOnlyByRemoval
  <2> SUFFICES ASSUME PanelTypeOK, MissInv, op = "list", phase = "ok", ~crowded
               PROVE  Cardinality((atStart \cap ToSet(list)) \ ToSet(clients)) <= removed
    BY DEF MissesOnlyByRemoval
  <2>1. removed \in Nat /\ AtMost(Unread(list, Len(list), atStart, ToSet(clients)), removed)
    BY DEF MissInv, PanelTypeOK
  <2> QED
    BY <2>1, MissingAreUnread
<1> QED
  BY <1>1, ClientTypes, MissInvariant, PTL

(***************************************************************************)
(* WebUI: for any requests, people, logins and bounds, nothing outlives    *)
(* its account, the administrator stays, and nobody is logged in to, or    *)
(* changes the servers of, an account of somebody else.                    *)
(***************************************************************************)

USE NoneAssumption, OperatorAssumption, BoundAssumption
USE DEF UserRecords, ServerRows, RequestRecords, Places, Exists, HasLogin, At, Goto, Done

-----------------------------------------------------------------------------
(* What a request remembers is still true: an id is never given out again.   *)

\* Ids are those given out, each to one row.
IdsUnique ==
  /\ \A u \in users : u.id \in 1..lastUser
  /\ \A u, v \in users : u.id = v.id => u = v

\* If the account i still exists, it is that of person w.
Belongs(i, w) == i \in 1..lastUser /\ \A u \in users : u.id = i => u.who = w

RowSteps == {"insert", "form", "select", "metadata", "all"}

RequestOK(r) ==
  /\ r.pc # "idle" => r.who \in People
  /\ r.pc = "create" => r.login \in Logins
  /\ r.pc \in {"mark", "session"} => Belongs(r.id, r.who)
  /\ r.pc = "in" =>
       /\ r.me \in UserRecords
       /\ Belongs(r.me.id, r.who)
       /\ \A u \in users : u.id = r.me.id => u = r.me
  /\ r.pc = "delete" => r.id \in 1..lastUser /\ \A u \in users : u.id = r.id => ~u.admin
  /\ r.pc \in RowSteps => r.row \in ServerRows /\ Belongs(r.row.user, r.who)

\* Nothing runs before there is an administrator.
Ready == up \/ (\E q \in Requests : req[q].pc # "idle") => HasLogin(AdminLogin)

WebInv ==
  /\ TypeOK /\ IdsUnique /\ Ready
  /\ \A q \in Requests : RequestOK(req[q])
  /\ SessionIsOwn /\ NoOrphans /\ AdminStays

LEMMA IdleOK == Idle \in RequestRecords /\ RequestOK(Idle)
<1>1. Idle \in RequestRecords
  <2> HIDE DEF UserRecords, ServerRows
  <2> QED BY DEF Idle
<1>2. RequestOK(Idle)
  BY DEF Idle, RequestOK, RowSteps
<1> QED BY <1>1, <1>2

LEMMA InitInv == Init => WebInv
<1> SUFFICES ASSUME Init PROVE WebInv
  OBVIOUS
<1> USE DEF Init
<1>1. TypeOK
  <2>1. Idle \in RequestRecords
    BY IdleOK
  <2> HIDE DEF UserRecords, ServerRows, RequestRecords
  <2> QED BY <2>1 DEF TypeOK
<1>2. IdsUnique /\ SessionIsOwn /\ NoOrphans /\ AdminStays
  BY DEF IdsUnique, SessionIsOwn, NoOrphans, AdminStays
<1>3. Ready
  BY DEF Ready, Idle
<1>4. \A q \in Requests : RequestOK(req[q])
  BY IdleOK
<1> QED BY <1>1, <1>2, <1>3, <1>4 DEF WebInv

-----------------------------------------------------------------------------
(* Steps of one request, which leave the others where they are.              *)

\* Accounts are only deleted, or made under new ids.
UsersMove ==
  /\ lastUser' \in Nat /\ lastUser' >= lastUser
  /\ \A u \in users' : u \in users \/ u.id > lastUser

LEMMA RequestStays ==
  ASSUME TypeOK, UsersMove, NEW r \in RequestRecords, RequestOK(r)
  PROVE  RequestOK(r)'
<1>1. \A i, w : Belongs(i, w) => Belongs(i, w)'
  BY DEF TypeOK, UsersMove, Belongs
<1>2. r.pc = "in" => r.me.id \in 1..lastUser
  BY DEF RequestOK, Belongs
<1>3. r.pc = "in" => \A u \in users' : u.id = r.me.id => u = r.me
  BY <1>2 DEF TypeOK, UsersMove, RequestOK
<1>4. r.pc = "delete" =>
        r.id \in 1..lastUser' /\ \A u \in users' : u.id = r.id => ~u.admin
  BY DEF TypeOK, UsersMove, RequestOK
<1> QED BY <1>1, <1>3, <1>4 DEF RequestOK

\* The part of the invariant about requests, after a step of q.
LEMMA RequestMoves ==
  ASSUME WebInv, UsersMove, NEW q \in Requests, NEW r \in RequestRecords,
         req' = [req EXCEPT ![q] = r], RequestOK(r)'
  PROVE  req' \in [Requests -> RequestRecords] /\ \A p \in Requests : RequestOK(req[p])'
<1>1. req \in [Requests -> RequestRecords]
  BY DEF WebInv, TypeOK
<1>2. ASSUME NEW p \in Requests PROVE RequestOK(req[p])'
  <2>1. CASE p = q
    BY <1>1, <2>1
  <2>2. CASE p # q
    <3>1. req'[p] = req[p]
      BY <1>1, <2>2
    <3>2. RequestOK(req[p])
      BY DEF WebInv
    <3> QED BY <1>1, <3>1, <3>2, RequestStays DEF WebInv
  <2> QED BY <2>1, <2>2
<1> QED BY <1>1, <1>2

\* A step that touches at most the invites.
LEMMA Quiet ==
  ASSUME WebInv, NEW q \in Requests, NEW r \in RequestRecords,
         req' = [req EXCEPT ![q] = r], RequestOK(r), up \/ req[q].pc # "idle",
         UNCHANGED <<up, users, lastUser, session, servers, lastServer>>,
         invites' \subseteq [token : Nat, used : BOOLEAN], lastInvite' \in Nat
  PROVE  WebInv'
<1>1. UsersMove
  BY DEF WebInv, TypeOK, UsersMove
<1>2. RequestOK(r)'
  BY <1>1, RequestStays DEF WebInv
<1>3. TypeOK' /\ \A p \in Requests : RequestOK(req[p])'
  BY <1>1, <1>2, RequestMoves DEF WebInv, TypeOK
<1>4. IdsUnique' /\ SessionIsOwn' /\ NoOrphans' /\ AdminStays'
  BY DEF WebInv, IdsUnique, SessionIsOwn, NoOrphans, AdminStays
<1>5. HasLogin(AdminLogin)
  BY DEF WebInv, Ready
<1> QED BY <1>3, <1>4, <1>5 DEF WebInv, Ready

LEMMA RequestIn ==
  ASSUME WebInv, NEW q \in Requests
  PROVE  /\ req \in [Requests -> RequestRecords]
         /\ req[q] \in RequestRecords
         /\ RequestOK(req[q])
BY DEF WebInv, TypeOK

\* An account with the id of a row is the account of that row.
LEMMA RowBelongs ==
  ASSUME WebInv, NEW u \in users
  PROVE  u \in UserRecords /\ Belongs(u.id, u.who) /\ \A v \in users : v.id = u.id => v = u
BY DEF WebInv, TypeOK, IdsUnique, Belongs

LEMMA QuietStep ==
  ASSUME WebInv, NEW q \in Requests,
         \/ CheckLogin(q) \/ MarkInviteUsed(q) \/ Refuse(q) \/ InviteCreate(q) \/ InviteDelete(q)
         \/ UserDelete(q) \/ ServerNew(q) \/ ServerEdit(q) \/ SubmitForm(q) \/ SelectToken(q)
         \/ \E p \in People : Login(q, p) \/ Register(q, p) \/ Enter(q, p)
  PROVE  WebInv'
<1> req[q] \in RequestRecords /\ RequestOK(req[q])
  BY RequestIn
<1> lastInvite \in Nat /\ invites \subseteq [token : Nat, used : BOOLEAN]
  BY DEF WebInv, TypeOK
<1>1. CASE CheckLogin(q)
  <2>1. CASE Done(q)
    BY <1>1, <2>1, IdleOK, Quiet DEF CheckLogin, tables
  <2>2. ASSUME NEW l \in Logins, req' = [req EXCEPT ![q].pc = "create", ![q].login = l]
        PROVE  WebInv'
    <3> DEFINE r == [req[q] EXCEPT !.pc = "create", !.login = l]
    <3>1. r \in RequestRecords
      OBVIOUS
    <3>2. RequestOK(r)
      BY <1>1, <2>2 DEF CheckLogin, RequestOK, RowSteps
    <3>3. req' = [req EXCEPT ![q] = r]
      BY <2>2, RequestIn
    <3> HIDE DEF r
    <3> QED BY <1>1, <3>1, <3>2, <3>3, Quiet DEF CheckLogin, tables
  <2> QED BY <1>1, <2>1, <2>2 DEF CheckLogin
<1>2. CASE MarkInviteUsed(q)
  <2> DEFINE r == [req[q] EXCEPT !.pc = "session"]
  <2>1. r \in RequestRecords
    OBVIOUS
  <2>2. RequestOK(r)
    BY <1>2 DEF MarkInviteUsed, RequestOK, RowSteps
  <2>3. req' = [req EXCEPT ![q] = r]
    BY <1>2, RequestIn DEF MarkInviteUsed
  <2>4. invites' \subseteq [token : Nat, used : BOOLEAN]
    <3> DEFINE Invites == [token : Nat, used : BOOLEAN]
    <3>1. \A v \in Invites : [v EXCEPT !.used = TRUE] \in Invites
      OBVIOUS
    <3>2. invites \subseteq Invites
      OBVIOUS
    <3> HIDE DEF Invites
    <3>3. ASSUME NEW w \in invites' PROVE w \in Invites
      <4>1. CASE invites' = invites
        BY <3>2, <4>1
      <4>2. CASE invites' = {IF v.token = req[q].invite THEN [v EXCEPT !.used = TRUE] ELSE v :
                               v \in invites}
        BY <3>1, <3>2, <4>2
      <4> QED BY <1>2, <4>1, <4>2 DEF MarkInviteUsed
    <3> QED BY <3>3 DEF Invites
  <2> HIDE DEF r
  <2> QED BY <1>2, <2>1, <2>2, <2>3, <2>4, Quiet DEF MarkInviteUsed
<1>3. CASE Refuse(q)
  BY <1>3, IdleOK, Quiet DEF Refuse, tables
<1>4. CASE InviteCreate(q)
  <2>1. [token |-> lastInvite + 1, used |-> FALSE] \in [token : Nat, used : BOOLEAN]
    OBVIOUS
  <2>2. invites' \subseteq [token : Nat, used : BOOLEAN]
    BY <1>4, <2>1, Zenon DEF InviteCreate
  <2>3. lastInvite' \in Nat
    BY <1>4 DEF InviteCreate
  <2> QED BY <1>4, <2>2, <2>3, IdleOK, Quiet DEF InviteCreate, IsAdmin
<1>5. CASE InviteDelete(q)
  <2>1. invites' \subseteq [token : Nat, used : BOOLEAN]
    BY <1>5 DEF InviteDelete
  <2> QED BY <1>5, <2>1, IdleOK, Quiet DEF InviteDelete, IsAdmin
<1>6. CASE UserDelete(q)
  <2> PICK u \in users : MayDelete(q, u) /\ req' = [req EXCEPT ![q].pc = "delete", ![q].id = u.id]
    BY <1>6 DEF UserDelete
  <2> DEFINE r == [req[q] EXCEPT !.pc = "delete", !.id = u.id]
  <2>1. r \in RequestRecords
    BY RowBelongs
  <2>2. RequestOK(r)
    BY <1>6, RowBelongs DEF UserDelete, IsAdmin, MayDelete, RequestOK, RowSteps, Belongs
  <2>3. req' = [req EXCEPT ![q] = r]
    BY RequestIn
  <2> HIDE DEF r
  <2> QED BY <1>6, <2>1, <2>2, <2>3, Quiet DEF UserDelete, IsAdmin, tables
<1>7. CASE ServerNew(q)
  <2> PICK a \in Addresses, t \in Tokens :
        req' = [req EXCEPT ![q].pc = "insert", ![q].row = ServerRow(0, Me(q).id, a, t)]
    BY <1>7 DEF ServerNew
  <2> DEFINE row == ServerRow(0, Me(q).id, a, t)
             r == [req[q] EXCEPT !.pc = "insert", !.row = row]
  <2>1. row \in ServerRows /\ Belongs(row.user, req[q].who) /\ req[q].who \in People
    BY <1>7 DEF ServerNew, Me, ServerRow, RequestOK
  <2>2. req' = [req EXCEPT ![q] = r]
    BY RequestIn
  <2> HIDE DEF row
  <2>3. r \in RequestRecords
    BY <2>1
  <2>4. RequestOK(r)
    BY <2>1 DEF RequestOK, RowSteps
  <2> HIDE DEF r
  <2> QED BY <1>7, <2>2, <2>3, <2>4, Quiet DEF ServerNew, tables
<1>8. CASE ServerEdit(q)
  <2> PICK s \in servers : Finds(q, s) /\ req' = [req EXCEPT ![q].pc = "form", ![q].row = s]
    BY <1>8 DEF ServerEdit
  <2> DEFINE r == [req[q] EXCEPT !.pc = "form", !.row = s]
  <2>1. s \in ServerRows
    BY DEF WebInv, TypeOK
  <2>2. Belongs(s.user, req[q].who) /\ req[q].who \in People
    BY <1>8 DEF ServerEdit, Finds, Me, RequestOK
  <2>3. req' = [req EXCEPT ![q] = r]
    BY RequestIn
  <2>4. r \in RequestRecords
    BY <2>1
  <2>5. RequestOK(r)
    BY <2>1, <2>2 DEF RequestOK, RowSteps
  <2> HIDE DEF r
  <2> QED BY <1>8, <2>3, <2>4, <2>5, Quiet DEF ServerEdit, tables
<1>9. CASE SubmitForm(q)
  <2>1. req[q].row \in ServerRows /\ Belongs(req[q].row.user, req[q].who) /\ req[q].who \in People
    BY <1>9 DEF SubmitForm, RequestOK, RowSteps
  <2> PICK a \in Addresses, t \in Tokens \cup {None} :
        req' = [req EXCEPT
          ![q].pc = "select",
          ![q].blank = t = None,
          ![q].row = ServerRow(@.id, @.user, a, IF t = None THEN @.token ELSE t)]
    BY <1>9 DEF SubmitForm
  <2> DEFINE row == ServerRow(req[q].row.id, req[q].row.user, a,
                              IF t = None THEN req[q].row.token ELSE t)
             r == [req[q] EXCEPT !.pc = "select", !.blank = (t = None), !.row = row]
  <2>2. row \in ServerRows /\ row.user = req[q].row.user
    BY <2>1 DEF ServerRow
  <2>3. req' = [req EXCEPT ![q] = r]
    BY RequestIn
  <2> HIDE DEF row
  <2>4. r \in RequestRecords
    BY <2>2
  <2>5. RequestOK(r)
    BY <2>1, <2>2 DEF RequestOK, RowSteps
  <2> HIDE DEF r
  <2> QED BY <1>9, <2>3, <2>4, <2>5, Quiet DEF SubmitForm, tables
<1>10. CASE SelectToken(q)
  <2>1. CASE Done(q)
    BY <1>10, <2>1, IdleOK, Quiet DEF SelectToken, tables
  <2>2. ASSUME NEW l \in {"metadata", "all"}, Goto(q, l) PROVE WebInv'
    <3> DEFINE r == [req[q] EXCEPT !.pc = l]
    <3>1. r \in RequestRecords
      OBVIOUS
    <3>2. RequestOK(r)
      BY <1>10 DEF SelectToken, RequestOK, RowSteps
    <3>3. req' = [req EXCEPT ![q] = r]
      BY <2>2, RequestIn
    <3> HIDE DEF r
    <3> QED BY <1>10, <3>1, <3>2, <3>3, Quiet DEF SelectToken, tables
  <2> QED BY <1>10, <2>1, <2>2 DEF SelectToken
<1>11. ASSUME NEW p \in People, Login(q, p) PROVE WebInv'
  <2> PICK u \in users : u.who = p /\ Begin(q, [Idle EXCEPT !.pc = "session", !.who = p, !.id = u.id])
    BY <1>11 DEF Login
  <2> DEFINE r == [Idle EXCEPT !.pc = "session", !.who = p, !.id = u.id]
  <2>1. r \in RequestRecords
    BY IdleOK, RowBelongs
  <2>2. RequestOK(r)
    BY RowBelongs DEF RequestOK, RowSteps, Idle
  <2>3. up /\ req' = [req EXCEPT ![q] = r]
    BY DEF Begin
  <2> HIDE DEF r
  <2> QED BY <1>11, <2>1, <2>2, <2>3, Quiet DEF Login, tables
<1>12. ASSUME NEW p \in People, Register(q, p) PROVE WebInv'
  <2> PICK v \in invites : Begin(q, [Idle EXCEPT !.pc = "register", !.who = p, !.invite = v.token])
    BY <1>12 DEF Register
  <2> DEFINE r == [Idle EXCEPT !.pc = "register", !.who = p, !.invite = v.token]
  <2>1. r \in RequestRecords
    BY IdleOK
  <2>2. RequestOK(r)
    BY DEF RequestOK, RowSteps, Idle
  <2>3. up /\ req' = [req EXCEPT ![q] = r]
    BY DEF Begin
  <2> HIDE DEF r
  <2> QED BY <1>12, <2>1, <2>2, <2>3, Quiet DEF Register, tables
<1>13. ASSUME NEW p \in People, Enter(q, p) PROVE WebInv'
  <2> PICK u \in users : u.id = session[p] /\ Begin(q, [Idle EXCEPT !.pc = "in", !.who = p, !.me = u])
    BY <1>13 DEF Enter
  <2> DEFINE r == [Idle EXCEPT !.pc = "in", !.who = p, !.me = u]
  <2>1. u.who = p
    BY DEF WebInv, SessionIsOwn
  <2>2. r \in RequestRecords
    BY IdleOK, RowBelongs
  <2>3. RequestOK(r)
    BY <2>1, RowBelongs DEF RequestOK, RowSteps, Idle
  <2>4. up /\ req' = [req EXCEPT ![q] = r]
    BY DEF Begin
  <2> HIDE DEF r
  <2> QED BY <1>13, <2>2, <2>3, <2>4, Quiet DEF Enter, tables
<1> QED BY <1>1, <1>2, <1>3, <1>4, <1>5, <1>6, <1>7, <1>8, <1>9, <1>10, <1>11, <1>12, <1>13

-----------------------------------------------------------------------------
(* Steps that change sessions, servers or accounts.                          *)

\* A step that touches the servers, or the sessions, of existing accounts.
LEMMA RowsMove ==
  ASSUME WebInv, NEW q \in Requests,
         Done(q), up \/ req[q].pc # "idle",
         UNCHANGED <<up, users, lastUser, invites, lastInvite>>,
         servers' \subseteq ServerRows, lastServer' \in Nat, session' \in [People -> Nat \cup {None}],
         SessionIsOwn', NoOrphans'
  PROVE  WebInv'
<1>1. UsersMove
  BY DEF WebInv, TypeOK, UsersMove
<1>2. RequestOK(Idle)'
  BY <1>1, IdleOK, RequestStays DEF WebInv
<1>3. TypeOK' /\ \A p \in Requests : RequestOK(req[p])'
  BY <1>1, <1>2, IdleOK, RequestMoves DEF WebInv, TypeOK
<1>4. IdsUnique' /\ AdminStays'
  BY DEF WebInv, IdsUnique, AdminStays
<1>5. HasLogin(AdminLogin)
  BY DEF WebInv, Ready
<1> QED BY <1>3, <1>4, <1>5 DEF WebInv, Ready

LEMMA RowStep ==
  ASSUME WebInv, NEW q \in Requests,
         \/ StartSession(q) \/ CreateServer(q) \/ UpdateServer(q) \/ DeleteServer(q)
         \/ \E p \in People : Logout(q, p)
  PROVE  WebInv'
<1> req[q] \in RequestRecords /\ RequestOK(req[q])
  BY RequestIn
<1> /\ session \in [People -> Nat \cup {None}] /\ servers \subseteq ServerRows /\ lastServer \in Nat
    /\ SessionIsOwn /\ NoOrphans
  BY DEF WebInv, TypeOK
<1>1. CASE StartSession(q)
  <2>1. session' \in [People -> Nat \cup {None}]
    BY <1>1 DEF StartSession
  <2>2. SessionIsOwn' /\ NoOrphans'
    BY <1>1 DEF StartSession, MayStart, RequestOK, Belongs, SessionIsOwn, NoOrphans
  <2> QED BY <1>1, <2>1, <2>2, RowsMove DEF StartSession
<1>2. CASE CreateServer(q)
  <2> DEFINE s == [req[q].row EXCEPT !.id = lastServer + 1]
  <2>1. req[q].row \in ServerRows
    BY <1>2 DEF CreateServer, RequestOK, RowSteps
  <2>2. s \in ServerRows /\ s.user = req[q].row.user
    BY <2>1
  <2>3. \/ servers' = servers \cup {s} /\ Exists(s.user) /\ lastServer' = lastServer + 1
        \/ UNCHANGED <<servers, lastServer>>
    BY <1>2, <2>2 DEF CreateServer
  <2> HIDE DEF s
  <2>4. servers' \subseteq ServerRows /\ lastServer' \in Nat
    BY <2>2, <2>3
  <2>5. SessionIsOwn' /\ NoOrphans'
    BY <1>2, <2>3 DEF CreateServer, SessionIsOwn, NoOrphans
  <2> QED BY <1>2, <2>4, <2>5, RowsMove DEF CreateServer
<1>3. CASE UpdateServer(q)
  <2>1. req[q].row \in ServerRows
    BY <1>3 DEF UpdateServer, RequestOK, RowSteps
  <2>2. \A s \in Stored(q) : s \in servers /\ s.user = req[q].row.user
    BY DEF Stored
  <2>3. \A s \in ServerRows : [s EXCEPT !.address = req[q].row.address] \in ServerRows
    BY <2>1
  <2>4. \A s \in Stored(q) : Written(q, s) \in ServerRows /\ Written(q, s).user = s.user
    BY <2>1, <2>2, <2>3 DEF Written
  <2>5. \A t \in servers' : t \in servers \/ \E s \in Stored(q) : t = Written(q, s)
    BY <1>3 DEF UpdateServer
  <2>6. servers' \subseteq ServerRows /\ lastServer' \in Nat
    BY <1>3, <2>4, <2>5 DEF UpdateServer
  <2>7. SessionIsOwn' /\ NoOrphans'
    BY <1>3, <2>2, <2>4, <2>5 DEF UpdateServer, SessionIsOwn, NoOrphans
  <2> QED BY <1>3, <2>6, <2>7, RowsMove DEF UpdateServer
<1>4. CASE DeleteServer(q)
  <2>1. SessionIsOwn' /\ NoOrphans'
    BY <1>4 DEF DeleteServer, SessionIsOwn, NoOrphans
  <2> QED BY <1>4, <2>1, RowsMove DEF DeleteServer
<1>5. ASSUME NEW p \in People, Logout(q, p) PROVE WebInv'
  <2>1. up /\ Done(q) /\ session' = [session EXCEPT ![p] = None]
    BY <1>5 DEF Logout, Begin
  <2>2. session' \in [People -> Nat \cup {None}]
    BY <2>1
  <2>3. SessionIsOwn' /\ NoOrphans'
    <3>1. \A u \in users : u.id # None
      BY DEF WebInv, TypeOK
    <3> QED BY <1>5, <2>1, <3>1 DEF Logout, SessionIsOwn, NoOrphans
  <2> QED BY <1>5, <2>1, <2>2, <2>3, RowsMove DEF Logout
<1> QED BY <1>1, <1>2, <1>3, <1>4, <1>5

LEMMA Expires ==
  ASSUME WebInv, NEW p \in People, SessionExpires(p)
  PROVE  WebInv'
<1>1. TypeOK'
  BY DEF WebInv, TypeOK, SessionExpires
<1>2. \A u \in users : u.id # None
  BY DEF WebInv, TypeOK
<1>3. SessionIsOwn' /\ NoOrphans'
  BY <1>2 DEF WebInv, TypeOK, SessionExpires, SessionIsOwn, NoOrphans
<1>4. IdsUnique' /\ AdminStays' /\ Ready'
  BY DEF WebInv, SessionExpires, IdsUnique, AdminStays, Ready
<1>5. \A q \in Requests : RequestOK(req[q])'
  BY DEF WebInv, SessionExpires, RequestOK, Belongs
<1> QED BY <1>1, <1>3, <1>4, <1>5 DEF WebInv

LEMMA Killed == WebInv /\ Kill => WebInv'
<1> SUFFICES ASSUME WebInv, Kill PROVE WebInv'
  OBVIOUS
<1>1. TypeOK'
  <2>1. Idle \in RequestRecords
    BY IdleOK
  <2> HIDE DEF UserRecords, ServerRows, RequestRecords
  <2> QED BY <2>1 DEF WebInv, TypeOK, Kill, tables
<1>2. IdsUnique' /\ SessionIsOwn' /\ NoOrphans' /\ AdminStays'
  BY DEF WebInv, Kill, tables, IdsUnique, SessionIsOwn, NoOrphans, AdminStays
<1>3. Ready'
  BY DEF Kill, Ready, Idle
<1>4. \A q \in Requests : RequestOK(req[q])'
  BY DEF Kill, tables, Idle, RequestOK, RowSteps
<1> QED BY <1>1, <1>2, <1>3, <1>4 DEF WebInv

\* A new account has a new id, so nothing refers to it yet.
LEMMA NewUser ==
  ASSUME WebInv, UNCHANGED <<session, servers>>,
         NEW l \in Logins, NEW admin \in BOOLEAN, NEW p \in People, NEW v \in Nat \cup {None},
         admin <=> l = AdminLogin, admin \/ HasLogin(AdminLogin),
         Inserts(l, admin, p, v)
  PROVE  /\ users' \subseteq UserRecords /\ UsersMove /\ IdsUnique'
         /\ SessionIsOwn' /\ NoOrphans' /\ AdminStays' /\ HasLogin(AdminLogin)'
         /\ \A i : i = NextUserId => Belongs(i, p)'
<1> DEFINE new == User(NextUserId, l, admin, p, v)
<1>1. lastUser \in Nat /\ \A u \in users : u \in UserRecords /\ u.id \in 1..lastUser
  BY DEF WebInv, TypeOK, IdsUnique
<1>2. /\ new \in UserRecords
      /\ new.id = lastUser + 1 /\ new.login = l /\ new.admin = admin /\ new.who = p
  BY <1>1 DEF User, NextUserId
<1>3. users' = users \cup {new} /\ lastUser' = lastUser + 1 /\ ~HasLogin(l)
  BY DEF Inserts
<1> HIDE DEF new
<1>4. users' \subseteq UserRecords /\ UsersMove
  BY <1>1, <1>2, <1>3 DEF UsersMove
<1>5. IdsUnique'
  <2>1. \A u \in users' : u.id \in 1..lastUser'
    BY <1>1, <1>2, <1>3
  <2>2. ASSUME NEW x \in users', NEW y \in users', x.id = y.id PROVE x = y
    BY <1>1, <1>2, <1>3, <2>2 DEF WebInv, IdsUnique
  <2> QED BY <2>1, <2>2 DEF IdsUnique
<1>6. SessionIsOwn'
  <2>1. \A i \in People : session[i] # new.id
    BY <1>1, <1>2, NoneAssumption DEF WebInv, NoOrphans
  <2> QED BY <1>3, <2>1 DEF WebInv, SessionIsOwn
<1>7. NoOrphans'
  BY <1>3 DEF WebInv, NoOrphans
<1>8. HasLogin(AdminLogin)' /\ AdminStays'
  BY <1>2, <1>3 DEF WebInv, AdminStays
<1>9. ASSUME NEW i, i = NextUserId PROVE Belongs(i, p)'
  BY <1>1, <1>2, <1>3, <1>9 DEF Belongs, NextUserId
<1> QED BY <1>4, <1>5, <1>6, <1>7, <1>8, <1>9

LEMMA Boots == WebInv /\ Boot => WebInv'
<1> SUFFICES ASSUME WebInv, Boot PROVE WebInv'
  OBVIOUS
<1>1. CASE HasLogin(AdminLogin) /\ UNCHANGED <<users, lastUser>>
  <2>1. TypeOK' /\ IdsUnique' /\ SessionIsOwn' /\ NoOrphans' /\ AdminStays' /\ Ready'
    BY <1>1 DEF Boot, WebInv, TypeOK, IdsUnique, SessionIsOwn, NoOrphans, AdminStays, Ready
  <2>2. \A q \in Requests : RequestOK(req[q])'
    BY <1>1 DEF Boot, WebInv, RequestOK, Belongs
  <2> QED BY <2>1, <2>2 DEF WebInv
<1>2. CASE Inserts(AdminLogin, TRUE, Operator, None)
  <2>1. /\ users' \subseteq UserRecords /\ UsersMove /\ IdsUnique'
        /\ SessionIsOwn' /\ NoOrphans' /\ AdminStays' /\ HasLogin(AdminLogin)'
    BY <1>2, NewUser DEF Boot
  <2>2. TypeOK'
    BY <2>1 DEF Boot, WebInv, TypeOK, UsersMove
  <2>3. ASSUME NEW q \in Requests PROVE RequestOK(req[q])'
    <3>1. RequestOK(req[q])' <=> (\A r \in {req[q]} : RequestOK(r)')
      BY DEF Boot
    <3> QED BY <2>1, <3>1, RequestIn, RequestStays DEF WebInv
  <2> QED BY <2>1, <2>2, <2>3 DEF WebInv, Ready
<1> QED BY <1>1, <1>2 DEF Boot

LEMMA UserStep ==
  ASSUME WebInv, NEW q \in Requests, CreateUser(q) \/ DeleteUser(q)
  PROVE  WebInv'
<1> req[q] \in RequestRecords /\ RequestOK(req[q])
  BY RequestIn
<1>1. req[q].pc # "idle" /\ HasLogin(AdminLogin)
  BY DEF CreateUser, DeleteUser, WebInv, Ready
<1>2. CASE CreateUser(q) /\ Done(q) /\ UNCHANGED <<users, lastUser>>
  <2>1. SessionIsOwn' /\ NoOrphans'
    BY <1>2 DEF CreateUser, WebInv, SessionIsOwn, NoOrphans
  <2>2. servers \subseteq ServerRows /\ lastServer \in Nat /\ session \in [People -> Nat \cup {None}]
    BY DEF WebInv, TypeOK
  <2> QED BY <1>1, <1>2, <2>1, <2>2, RowsMove DEF CreateUser
<1>3. CASE /\ CreateUser(q)
           /\ Inserts(req[q].login, FALSE, req[q].who, req[q].invite)
           /\ req' = [req EXCEPT ![q].pc = "mark", ![q].id = NextUserId]
  <2>1. req[q].login \in Logins /\ req[q].who \in People /\ req[q].login # AdminLogin
    BY <1>1, <1>3 DEF CreateUser, RequestOK, Inserts
  <2> PICK w \in People : w = req[q].who
    BY <2>1
  <2> PICK i : i = NextUserId
    OBVIOUS
  <2>2. /\ users' \subseteq UserRecords /\ UsersMove /\ IdsUnique'
        /\ SessionIsOwn' /\ NoOrphans' /\ AdminStays' /\ HasLogin(AdminLogin)'
        /\ Belongs(i, w)'
    BY <1>1, <1>3, <2>1, NewUser DEF CreateUser
  <2>3. i \in Nat
    BY DEF WebInv, TypeOK, NextUserId
  <2> PICK r \in RequestRecords : r = [req[q] EXCEPT !.pc = "mark", !.id = i]
    BY <2>3
  <2>4. req' = [req EXCEPT ![q] = r]
    BY <1>3, RequestIn
  <2>5. RequestOK(r)'
    <3>1. r.pc = "mark" /\ r.id = i /\ r.who = w
      OBVIOUS
    <3> QED BY <2>2, <3>1 DEF RequestOK, RowSteps
  <2>6. req' \in [Requests -> RequestRecords] /\ \A p \in Requests : RequestOK(req[p])'
    BY <2>2, <2>3, <2>4, <2>5, RequestMoves
  <2>7. TypeOK'
    BY <1>3, <2>2, <2>6 DEF CreateUser, WebInv, TypeOK, UsersMove
  <2> QED BY <2>2, <2>6, <2>7 DEF WebInv, Ready
<1>4. CASE DeleteUser(q)
  <2>1. /\ users' = {u \in users : u.id # req[q].id} /\ lastUser' = lastUser
        /\ session' = [p \in People |-> IF session[p] = req[q].id THEN None ELSE session[p]]
        /\ servers' = {s \in servers : s.user # req[q].id}
        /\ Done(q)
    BY <1>4 DEF DeleteUser, DeletesUser
  <2>2. UsersMove
    BY <2>1 DEF UsersMove, WebInv, TypeOK
  <2>3. RequestOK(Idle)'
    BY <2>2, IdleOK, RequestStays DEF WebInv
  <2>4. req' \in [Requests -> RequestRecords] /\ \A p \in Requests : RequestOK(req[p])'
    BY <2>1, <2>2, <2>3, IdleOK, RequestMoves
  <2>5. TypeOK'
    BY <1>4, <2>1, <2>4 DEF DeleteUser, WebInv, TypeOK
  <2>6. IdsUnique'
    BY <2>1 DEF WebInv, IdsUnique
  <2>7. SessionIsOwn'
    <3>1. \A u \in users : u.id # None
      BY DEF WebInv, TypeOK
    <3> QED BY <2>1, <3>1 DEF WebInv, SessionIsOwn
  <2>8. NoOrphans'
    BY <2>1 DEF WebInv, NoOrphans
  <2>9. HasLogin(AdminLogin)' /\ AdminStays'
    <3>1. PICK u \in users : u.login = AdminLogin
      BY <1>1
    <3>2. u.admin
      BY <3>1 DEF WebInv, AdminStays
    <3>3. u \in users'
      BY <1>4, <2>1, <3>2 DEF DeleteUser, RequestOK
    <3> QED BY <2>1, <3>1, <3>3 DEF WebInv, AdminStays
  <2> QED BY <2>4, <2>5, <2>6, <2>7, <2>8, <2>9 DEF WebInv, Ready
<1> QED BY <1>2, <1>3, <1>4 DEF CreateUser

LEMMA NextInv == WebInv /\ [Next]_webVars => WebInv'
<1> SUFFICES ASSUME WebInv, [Next]_webVars PROVE WebInv'
  OBVIOUS
<1>1. ASSUME NEW q \in Requests, NEW p \in People,
             Login(q, p) \/ Logout(q, p) \/ Register(q, p) \/ Enter(q, p)
      PROVE  WebInv'
  BY <1>1, QuietStep, RowStep
<1>2. ASSUME NEW q \in Requests, Handle(q) PROVE WebInv'
  BY <1>2, QuietStep, RowStep, UserStep DEF Handle
<1>3. CASE UNCHANGED webVars
  <2>1. TypeOK' /\ IdsUnique' /\ SessionIsOwn' /\ NoOrphans' /\ AdminStays' /\ Ready'
    BY <1>3 DEF webVars, WebInv, TypeOK, IdsUnique, SessionIsOwn, NoOrphans, AdminStays, Ready
  <2>2. \A q \in Requests : RequestOK(req[q])'
    BY <1>3 DEF webVars, WebInv, RequestOK, Belongs
  <2> QED BY <2>1, <2>2 DEF WebInv
<1> QED BY <1>1, <1>2, <1>3, Boots, Killed, Expires DEF Next

THEOREM InvHolds == Spec => []WebInv
BY InitInv, NextInv, PTL DEF Spec

-----------------------------------------------------------------------------
(* The results.                                                              *)

\* Every table and every request in progress keeps its type, through any mix of handlers.
THEOREM Typed == Spec => []TypeOK
<1>1. WebInv => TypeOK
  BY DEF WebInv
<1> QED BY <1>1, InvHolds, PTL

\* Nobody is logged in to an account whose password somebody else gave.
THEOREM SessionsAreOwn == Spec => []SessionIsOwn
<1>1. WebInv => SessionIsOwn
  BY DEF WebInv
<1> QED BY <1>1, InvHolds, PTL

\* No session and no server is left behind by, or created for, a deleted account.
THEOREM NothingOrphaned == Spec => []NoOrphans
<1>1. WebInv => NoOrphans
  BY DEF WebInv
<1> QED BY <1>1, InvHolds, PTL

\* The configured administrator stays, and stays the only one.
THEOREM AdminRemains == Spec => []AdminStays
<1>1. WebInv => AdminStays
  BY DEF WebInv
<1> QED BY <1>1, InvHolds, PTL

\* A server that changes belongs to who sent the request, or goes with its account.
OwnStep ==
  \A s \in servers \ servers' :
    \/ ~\E u \in users' : u.id = s.user
    \/ \E q \in Requests : \E u \in users :
         u.id = s.user /\ u.who = req[q].who /\ req'[q] # req[q]

LEMMA ChangesOwn ==
  ASSUME WebInv, NEW q \in Requests, UpdateServer(q) \/ DeleteServer(q)
  PROVE  OwnStep
<1>1. req[q].pc \in RowSteps /\ Belongs(req[q].row.user, req[q].who)
  BY RequestIn DEF UpdateServer, DeleteServer, RequestOK, RowSteps
<1>2. req'[q] # req[q]
  <2>1. req'[q] = Idle
    BY RequestIn DEF UpdateServer, DeleteServer
  <2> QED BY <1>1, <2>1 DEF Idle, RowSteps
<1>3. ASSUME NEW s \in servers, s \notin servers'
      PROVE  \E u \in users : u.id = s.user /\ u.who = req[q].who
  <2>1. s \in Stored(q)
    BY <1>3 DEF UpdateServer, DeleteServer
  <2>2. PICK u \in users : u.id = s.user
    BY DEF WebInv, NoOrphans
  <2> QED BY <1>1, <2>1, <2>2 DEF Stored, Belongs
<1> QED BY <1>2, <1>3 DEF OwnStep

LEMMA StepOwn == WebInv /\ [Next]_webVars => OwnStep \/ UNCHANGED webVars
<1> SUFFICES ASSUME WebInv, Next PROVE OwnStep
  OBVIOUS
<1>1. CASE servers \subseteq servers'
  BY <1>1 DEF OwnStep
<1>2. ASSUME NEW q \in Requests, NEW p \in People,
             Login(q, p) \/ Logout(q, p) \/ Register(q, p) \/ Enter(q, p)
      PROVE  servers \subseteq servers'
  BY <1>2 DEF Login, Logout, Register, Enter, tables
<1>3. ASSUME NEW q \in Requests, Handle(q) PROVE OwnStep
  <2>1. CASE UpdateServer(q) \/ DeleteServer(q)
    BY <2>1, ChangesOwn
  <2>2. CASE DeleteUser(q)
    BY <2>2 DEF DeleteUser, DeletesUser, OwnStep
  <2>3. CASE servers \subseteq servers'
    BY <1>1, <2>3
  <2>4. \/ UpdateServer(q) \/ DeleteServer(q) \/ DeleteUser(q)
        \/ servers \subseteq servers'
    BY <1>3 DEF Handle, CheckLogin, CreateUser, MarkInviteUsed, StartSession, Refuse, InviteCreate,
         InviteDelete, UserDelete, ServerNew, CreateServer, ServerEdit, SubmitForm, SelectToken, tables
  <2> QED BY <2>1, <2>2, <2>3, <2>4
<1>4. (Boot \/ Kill \/ \E p \in People : SessionExpires(p)) => servers \subseteq servers'
  BY DEF Boot, Kill, SessionExpires, tables
<1> QED BY <1>1, <1>2, <1>3, <1>4 DEF Next

\* Nobody's request changes or removes the servers of another person's account.
THEOREM ServersAreOwn == Spec => OnlyOwnServers
<1>1. WebInv /\ [Next]_webVars => [OwnStep]_webVars
  BY StepOwn
<1>2. Spec => [][OwnStep]_webVars
  BY <1>1, InvHolds, PTL DEF Spec
<1> QED BY <1>2, Zenon DEF OnlyOwnServers, OwnStep

=============================================================================
