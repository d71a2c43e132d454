--------------------------- MODULE LinkCacheProofs ---------------------------
(***************************************************************************)
(* Proofs about LinkCache for any set of keys and of calls and any number  *)
(* of slots.                                                               *)
(***************************************************************************)
EXTENDS LinkCache, FiniteSetTheorems, TLAPS

USE DEF Maybe, PCs, Leading, Ended, Errors, IsLeading, HasEnded

\* The steps of the cache, with the quantifiers of Next in front.
LEMMA StepCases ==
  ASSUME Next
  PROVE  \/ \E gone \in SUBSET Keys : DropKeys(gone)
         \/ \E c \in Calls, k \in Keys, cached \in BOOLEAN :
              Hit(c, k, cached) \/ Join(c, k, cached) \/ Lead(c, k, cached)
         \/ \E c \in Calls :
              \/ AcquireSlot(c) \/ SlotCancelled(c) \/ FetchSucceeds(c)
              \/ FetchFails(c) \/ Finish(c) \/ WaitDone(c) \/ WaitCancelled(c)
<1>1. CASE Prune
  <2>1. ASSUME NEW s \in Servers, PruneServer(s, {})
        PROVE  \E gone \in SUBSET Keys : DropKeys(gone)
    BY <2>1 DEF PruneServer
  <2>2. ASSUME NEW s \in Servers, NEW e \in Epochs, NEW keep \in SUBSET Keys,
               PruneServerEpoch(s, e, keep)
        PROVE  \E gone \in SUBSET Keys : DropKeys(gone)
    BY <2>2 DEF PruneServerEpoch
  <2>3. ASSUME NEW alive \in SUBSET Servers, PruneDeletedServers(alive)
        PROVE  \E gone \in SUBSET Keys : DropKeys(gone)
    BY <2>3 DEF PruneDeletedServers
  <2> QED
    BY <1>1, <2>1, <2>2, <2>3 DEF Prune
<1>2. CASE \E c \in Calls : Step(c)
  BY <1>2 DEF Step, Start, Return
<1> QED
  BY <1>1, <1>2 DEF Next

-----------------------------------------------------------------------------
(* Types, and the slots channel: a token per panel call in progress.        *)

SlotInv == IsFiniteSet(Fetching) /\ SlotsAreFetches

LEMMA FetchBegins ==
  ASSUME TypeOK, SlotInv, NEW c \in Calls, AcquireSlot(c)
  PROVE  TypeOK' /\ SlotInv'
<1>1. Fetching' = Fetching \cup {c} /\ c \notin Fetching
  BY DEF AcquireSlot, TypeOK, Fetching
<1>2. IsFiniteSet(Fetching') /\ Cardinality(Fetching') = Cardinality(Fetching) + 1
  BY <1>1, FS_AddElement DEF SlotInv
<1> QED
  BY <1>2, LimitAssumption DEF AcquireSlot, SlotFree, SlotInv, SlotsAreFetches, TypeOK

LEMMA FetchEnds ==
  ASSUME TypeOK, SlotInv, NEW c \in Calls, pc[c] = "fetch", slots' = slots - 1,
         NEW v \in Maybe(Calls), NEW e \in Errors, Outcome(c, v, e)
  PROVE  TypeOK' /\ SlotInv'
<1>1. Fetching' = Fetching \ {c} /\ c \in Fetching
  BY DEF Outcome, TypeOK, Fetching
<1>2. IsFiniteSet(Fetching') /\ Cardinality(Fetching') = Cardinality(Fetching) - 1
  BY <1>1, FS_RemoveElement DEF SlotInv
<1>3. Cardinality(Fetching') \in Nat
  BY <1>2, FS_CardinalityType
<1> QED
  BY <1>2, <1>3, LimitAssumption DEF Outcome, SlotInv, SlotsAreFetches, TypeOK

LEMMA NotFetching ==
  ASSUME TypeOK, SlotInv, UNCHANGED slots, Fetching' = Fetching
  PROVE  SlotInv'
BY DEF SlotInv, SlotsAreFetches

LEMMA TypingStep ==
  ASSUME TypeOK, SlotInv, [Next]_vars
  PROVE  TypeOK' /\ SlotInv'
<1>1. CASE UNCHANGED vars
  BY <1>1 DEF vars, shared, local, TypeOK, SlotInv, SlotsAreFetches, Fetching
<1>2. ASSUME NEW gone \in SUBSET Keys, DropKeys(gone)
      PROVE  TypeOK' /\ SlotInv'
  <2>1. TypeOK'
    BY <1>2 DEF DropKeys, FlightsAfter, ObsoleteAfter, local, TypeOK
  <2>2. UNCHANGED slots /\ Fetching' = Fetching
    BY <1>2 DEF DropKeys, FlightsAfter, local, Fetching
  <2> QED
    BY <2>1, <2>2, NotFetching
<1>3. ASSUME NEW c \in Calls, NEW k \in Keys, NEW cached \in BOOLEAN,
             Hit(c, k, cached) \/ Join(c, k, cached) \/ Lead(c, k, cached)
      PROVE  TypeOK' /\ SlotInv'
  <2>1. TypeOK'
    <3>1. CASE Hit(c, k, cached)
      BY <3>1 DEF Hit, Begin, Usable, shared, TypeOK
    <3>2. CASE Join(c, k, cached)
      BY <3>2 DEF Join, Begin, shared, TypeOK
    <3>3. CASE Lead(c, k, cached)
      BY <3>3 DEF Lead, Begin, TypeOK
    <3> QED
      BY <1>3, <3>1, <3>2, <3>3
  <2>2. UNCHANGED slots /\ Fetching' = Fetching
    BY <1>3 DEF Hit, Join, Lead, Begin, shared, Fetching, TypeOK
  <2> QED
    BY <2>1, <2>2, NotFetching
<1>4. ASSUME NEW c \in Calls, AcquireSlot(c)
      PROVE  TypeOK' /\ SlotInv'
  BY <1>4, FetchBegins
<1>5. ASSUME NEW c \in Calls, SlotCancelled(c)
      PROVE  TypeOK' /\ SlotInv'
  <2>1. TypeOK'
    BY <1>5 DEF SlotCancelled, Outcome, TypeOK
  <2>2. UNCHANGED slots /\ Fetching' = Fetching
    BY <1>5 DEF SlotCancelled, Outcome, Fetching, TypeOK
  <2> QED
    BY <2>1, <2>2, NotFetching
<1>6. ASSUME NEW c \in Calls, FetchSucceeds(c) \/ FetchFails(c)
      PROVE  TypeOK' /\ SlotInv'
  <2>1. CASE FetchSucceeds(c)
    BY <2>1, FetchEnds DEF FetchSucceeds, ReleaseSlot
  <2>2. CASE FetchFails(c)
    <3>1. PICK e \in {"failed", "panic"} : Outcome(c, stale[c], e) /\ ReleaseSlot(e)
      BY <2>2 DEF FetchFails
    <3>2. stale[c] \in Maybe(Calls)
      BY DEF TypeOK
    <3> QED
      BY <2>2, <3>1, <3>2, FetchEnds DEF FetchFails, ReleaseSlot
  <2> QED
    BY <1>6, <2>1, <2>2
<1>7. ASSUME NEW c \in Calls, Finish(c) \/ WaitDone(c) \/ WaitCancelled(c)
      PROVE  TypeOK' /\ SlotInv'
  <2>1. TypeOK'
    <3>1. CASE Finish(c)
      BY <3>1 DEF Finish, FinishedValues, FinishedFlights, Closed, TypeOK
    <3>2. CASE WaitDone(c)
      <4>1. flight[c] \in Calls
        BY <3>2 DEF WaitDone, TypeOK
      <4> QED
        BY <3>2, <4>1 DEF WaitDone, shared, TypeOK
    <3>3. CASE WaitCancelled(c)
      BY <3>3 DEF WaitCancelled, shared, TypeOK
    <3> QED
      BY <1>7, <3>1, <3>2, <3>3
  <2>2. UNCHANGED slots /\ Fetching' = Fetching
    BY <1>7 DEF Finish, WaitDone, WaitCancelled, shared, Fetching, TypeOK
  <2> QED
    BY <2>1, <2>2, NotFetching
<1> QED
  BY <1>1, <1>2, <1>3, <1>4, <1>5, <1>6, <1>7, StepCases

LEMMA TypingInit == Init => TypeOK /\ SlotInv
<1> SUFFICES ASSUME Init PROVE TypeOK /\ SlotInv
  OBVIOUS
<1>1. Fetching = {}
  BY DEF Init, Fetching
<1> QED
  BY <1>1, FS_EmptySet, LimitAssumption DEF Init, TypeOK, SlotInv, SlotsAreFetches

\* Every variable keeps its type; in particular the slots channel never holds
\* more tokens than its capacity and is never received from when empty.
THEOREM Typing == Spec => []TypeOK
<1>1. Init => TypeOK /\ SlotInv
  BY TypingInit
<1>2. TypeOK /\ SlotInv /\ [Next]_vars => (TypeOK /\ SlotInv)'
  BY TypingStep
<1> QED
  BY <1>1, <1>2, PTL DEF Spec

\* The slots channel counts the panel calls in progress (runFetch).
THEOREM SlotAccounting == Spec => []SlotsAreFetches
<1>1. TypeOK /\ SlotInv /\ [Next]_vars => (TypeOK /\ SlotInv)'
  BY TypingStep
<1>2. SlotInv => SlotsAreFetches
  BY DEF SlotInv
<1> QED
  BY TypingInit, <1>1, <1>2, PTL DEF Spec

-----------------------------------------------------------------------------
(* Flights.  The registered flight of a key is exactly its one running      *)
(* flight that was not pruned; cached values come from ended, unpruned      *)
(* flights; nobody writes a key under its running flight.                   *)

RegisteredRuns ==
  \A k \in Keys :
    flights[k] # None =>
      /\ IsLeading(flights[k])
      /\ key[flights[k]] = k
      /\ flights[k] \notin pruned

RunningRegistered ==
  \A c \in Calls :
    IsLeading(c) =>
      /\ key[c] \in Keys
      /\ flight[c] = c
      /\ c \notin pruned => flights[key[c]] = c

PrunedRan ==
  /\ \A c \in pruned : IsLeading(c) \/ HasEnded(c)
  /\ obsolete \subseteq pruned

CachedEnded ==
  \A k \in Keys :
    values[k] # None => HasEnded(values[k]) /\ values[k] \notin pruned

LeaderAnswers ==
  \A c \in Calls :
    /\ pc[c] \in {"idle", "slot", "fetch", "wait"} => err[c] = "none"
    /\ pc[c] = "finish" /\ err[c] = "none" => value[c] = c

StaleIsOlder ==
  \A c \in Calls :
    IsLeading(c) /\ c \notin pruned /\ values[key[c]] # None
      => values[key[c]] \in before[c]

FlightInv ==
  /\ TypeOK
  /\ RegisteredRuns
  /\ RunningRegistered
  /\ PrunedRan
  /\ CachedEnded
  /\ LeaderAnswers
  /\ StaleIsOlder
  /\ StaleStaysCurrent

USE DEF RegisteredRuns, RunningRegistered, PrunedRan, CachedEnded, LeaderAnswers,
        StaleIsOlder, StaleStaysCurrent

LEMMA FlightInit == Init => FlightInv
BY TypingInit DEF Init, FlightInv

LEMMA FlightStep ==
  ASSUME FlightInv, TypeOK', [Next]_vars
  PROVE  FlightInv'
<1> USE NoneAssumption
<1>1. CASE UNCHANGED vars
  BY <1>1 DEF vars, shared, local, FlightInv
<1>2. ASSUME NEW gone \in SUBSET Keys, DropKeys(gone)
      PROVE  FlightInv'
  BY <1>2 DEF DropKeys, FlightsAfter, ObsoleteAfter, local, FlightInv, TypeOK
<1>3. ASSUME NEW c \in Calls, NEW k \in Keys, NEW cached \in BOOLEAN,
             Hit(c, k, cached) \/ Join(c, k, cached)
      PROVE  FlightInv'
  BY <1>3 DEF Hit, Join, Begin, shared, FlightInv, TypeOK
<1>4. ASSUME NEW c \in Calls, NEW k \in Keys, NEW cached \in BOOLEAN, Lead(c, k, cached)
      PROVE  FlightInv'
  <2>1. RegisteredRuns' /\ RunningRegistered'
    BY <1>4 DEF Lead, Begin, FlightInv, TypeOK
  <2>2. PrunedRan' /\ CachedEnded' /\ LeaderAnswers'
    BY <1>4 DEF Lead, Begin, FlightInv, TypeOK
  <2>3. StaleIsOlder' /\ StaleStaysCurrent'
    BY <1>4 DEF Lead, Begin, FlightInv, TypeOK
  <2> HIDE DEF RegisteredRuns, RunningRegistered, PrunedRan, CachedEnded, LeaderAnswers,
               StaleIsOlder, StaleStaysCurrent
  <2> QED
    BY <2>1, <2>2, <2>3 DEF FlightInv
<1>5. ASSUME NEW c \in Calls,
             AcquireSlot(c) \/ SlotCancelled(c) \/ FetchSucceeds(c) \/ FetchFails(c)
      PROVE  FlightInv'
  <2>1. CASE AcquireSlot(c)
    BY <2>1 DEF AcquireSlot, FlightInv, TypeOK
  <2>2. CASE SlotCancelled(c)
    BY <2>2 DEF SlotCancelled, Outcome, FlightInv, TypeOK
  <2>3. CASE FetchSucceeds(c)
    BY <2>3 DEF FetchSucceeds, Outcome, FlightInv, TypeOK
  <2>4. CASE FetchFails(c)
    BY <2>4 DEF FetchFails, Outcome, FlightInv, TypeOK
  <2> QED
    BY <1>5, <2>1, <2>2, <2>3, <2>4
<1>6. ASSUME NEW c \in Calls, Finish(c)
      PROVE  FlightInv'
  BY <1>6 DEF Finish, FinishedValues, FinishedFlights, Registered, MayStore, FlightInv, TypeOK
<1>7. ASSUME NEW c \in Calls, WaitDone(c) \/ WaitCancelled(c)
      PROVE  FlightInv'
  BY <1>7 DEF WaitDone, WaitCancelled, shared, FlightInv, TypeOK
<1> QED
  BY <1>1, <1>2, <1>3, <1>4, <1>5, <1>6, <1>7, StepCases

THEOREM FlightsOrdered == Spec => []FlightInv
<1>1. FlightInv /\ TypeOK' /\ [Next]_vars => FlightInv'
  BY FlightStep
<1> QED
  BY FlightInit, Typing, <1>1, PTL DEF Spec

\* Links whose key was pruned while they were fetched never enter the cache.
THEOREM PruneIsFinal == Spec => []PrunedNeverCached
<1>1. FlightInv => PrunedNeverCached
  <2> SUFFICES ASSUME FlightInv, NEW k \in Keys PROVE values[k] \notin pruned
    BY DEF PrunedNeverCached
  <2>1. CASE values[k] = None
    BY <2>1, NoneAssumption DEF FlightInv, TypeOK
  <2>2. CASE values[k] # None
    BY <2>2 DEF FlightInv
  <2> QED
    BY <2>1, <2>2
<1> QED
  BY FlightsOrdered, <1>1, PTL

\* At most one unpruned flight runs per key.
THEOREM OneFlightPerKey == Spec => []SingleFlight
<1>1. FlightInv => SingleFlight
  BY DEF FlightInv, SingleFlight
<1> QED
  BY FlightsOrdered, <1>1, PTL

\* A running flight's stale copy is the cached value.
THEOREM StaleCurrent == Spec => []StaleStaysCurrent
<1>1. FlightInv => StaleStaysCurrent
  BY DEF FlightInv
<1> QED
  BY FlightsOrdered, <1>1, PTL

\* A cached value is replaced only by the answer of a call that began after
\* the call that fetched the old value had ended.
THEOREM NewerReplaces == Spec => NewerReplacesOlder
<1>1. FlightInv /\ TypeOK' /\ [Next]_vars =>
        [\A k \in Keys :
           values[k] # None /\ values'[k] \notin {None, values[k]}
             => values[k] \in before[values'[k]]]_vars
  <2> SUFFICES ASSUME FlightInv, [Next]_vars, NEW k \in Keys,
                      values[k] # None, values'[k] \notin {None, values[k]}
               PROVE  values[k] \in before[values'[k]]
    OBVIOUS
  <2> USE NoneAssumption DEF FlightInv, TypeOK
  <2>1. CASE UNCHANGED vars
    BY <2>1 DEF vars, shared
  <2>2. ASSUME NEW gone \in SUBSET Keys, DropKeys(gone)
        PROVE  FALSE
    BY <2>2 DEF DropKeys, FlightsAfter
  <2>3. ASSUME NEW c \in Calls, NEW x \in Keys, NEW cached \in BOOLEAN,
               Hit(c, x, cached) \/ Join(c, x, cached) \/ Lead(c, x, cached)
        PROVE  FALSE
    BY <2>3 DEF Hit, Join, Lead, shared
  <2>4. ASSUME NEW c \in Calls,
               \/ AcquireSlot(c) \/ SlotCancelled(c) \/ FetchSucceeds(c)
               \/ FetchFails(c) \/ WaitDone(c) \/ WaitCancelled(c)
        PROVE  FALSE
    BY <2>4 DEF AcquireSlot, SlotCancelled, FetchSucceeds, FetchFails, Outcome,
                WaitDone, WaitCancelled, shared
  <2>5. ASSUME NEW c \in Calls, Finish(c)
        PROVE  values[k] \in before[values'[k]]
    BY <2>5 DEF Finish, FinishedValues, Registered, MayStore
  <2> QED
    BY <2>1, <2>2, <2>3, <2>4, <2>5, StepCases
<1> QED
  BY FlightsOrdered, Typing, <1>1, PTL DEF Spec, NewerReplacesOlder

-----------------------------------------------------------------------------
(* Freshness.  The flight a call leads or waits for was running when the    *)
(* call began, and a closed flight answers with its own fetch or an error.  *)

ClosedAnswers ==
  \A d \in done :
    /\ HasEnded(d)
    /\ err[d] = "none" => value[d] = d

FlightIsRecent ==
  \A c \in Calls :
    /\ IsLeading(c) => c \notin before[c]
    /\ pc[c] = "wait" => flight[c] \in Calls /\ flight[c] \notin before[c]

FreshInv == ClosedAnswers /\ FlightIsRecent /\ FreshAfterRefresh

USE DEF ClosedAnswers, FlightIsRecent, FreshAfterRefresh

LEMMA FreshStep ==
  ASSUME FlightInv, FreshInv, [Next]_vars
  PROVE  FreshInv'
<1> USE NoneAssumption
<1>1. CASE UNCHANGED vars
  BY <1>1 DEF vars, shared, local, FreshInv
<1>2. ASSUME NEW gone \in SUBSET Keys, DropKeys(gone)
      PROVE  FreshInv'
  BY <1>2 DEF DropKeys, FlightsAfter, local, FreshInv
<1>3. ASSUME NEW c \in Calls, NEW k \in Keys, NEW cached \in BOOLEAN,
             Hit(c, k, cached)
      PROVE  FreshInv'
  BY <1>3 DEF Hit, Begin, Usable, shared, FreshInv, FlightInv, TypeOK
<1>4. ASSUME NEW c \in Calls, NEW k \in Keys, NEW cached \in BOOLEAN,
             Join(c, k, cached)
      PROVE  FreshInv'
  BY <1>4 DEF Join, Begin, shared, FreshInv, FlightInv, TypeOK
<1>5. ASSUME NEW c \in Calls, NEW k \in Keys, NEW cached \in BOOLEAN,
             Lead(c, k, cached)
      PROVE  FreshInv'
  BY <1>5 DEF Lead, Begin, FreshInv, FlightInv, TypeOK
<1>6. ASSUME NEW c \in Calls, AcquireSlot(c)
      PROVE  FreshInv'
  BY <1>6 DEF AcquireSlot, FreshInv, FlightInv, TypeOK
<1>7. ASSUME NEW c \in Calls, SlotCancelled(c) \/ FetchSucceeds(c) \/ FetchFails(c)
      PROVE  FreshInv'
  BY <1>7 DEF SlotCancelled, FetchSucceeds, FetchFails, Outcome, FreshInv, FlightInv, TypeOK
<1>8. ASSUME NEW c \in Calls, Finish(c)
      PROVE  FreshInv'
  BY <1>8 DEF Finish, Closed, FreshInv, FlightInv, TypeOK
<1>9. ASSUME NEW c \in Calls, WaitDone(c)
      PROVE  FreshInv'
  BY <1>9 DEF WaitDone, shared, FreshInv, FlightInv, TypeOK
<1>10. ASSUME NEW c \in Calls, WaitCancelled(c)
       PROVE  FreshInv'
  BY <1>10 DEF WaitCancelled, shared, FreshInv, FlightInv, TypeOK
<1> QED
  BY <1>1, <1>2, <1>3, <1>4, <1>5, <1>6, <1>7, <1>8, <1>9, <1>10, StepCases

\* A refresh that reports success never answers with links fetched before it
\* began.
THEOREM RefreshIsFresh == Spec => []FreshAfterRefresh
<1>1. Init => FreshInv
  BY DEF Init, FreshInv
<1>2. FlightInv /\ FreshInv /\ [Next]_vars => FreshInv'
  BY FreshStep
<1>3. FreshInv => FreshAfterRefresh
  BY DEF FreshInv
<1> QED
  BY FlightsOrdered, <1>1, <1>2, <1>3, PTL DEF Spec

-----------------------------------------------------------------------------
(* Errors and links.                                                        *)

\* A call that accepts a cached value leads or joins a flight only while
\* nothing is cached, so the flight has no stale links to hand out.
NoStaleForSubscribers ==
  \A c \in Calls :
    /\ pc[c] \in {"slot", "fetch"} /\ useCached[c] => stale[c] = None
    /\ pc[c] \in {"idle", "slot", "fetch", "wait"} => value[c] = None
    /\ pc[c] = "finish" /\ err[c] # "none" => value[c] = stale[c]
    /\ pc[c] = "wait" /\ useCached[c] =>
         LET f == flight[c] IN
         /\ f \in Calls
         /\ pc[f] \in {"slot", "fetch"} => stale[f] = None
         /\ (pc[f] = "finish" \/ HasEnded(f)) /\ err[f] # "none" => value[f] = None
         /\ IsLeading(f) \/ HasEnded(f)

QuietInv == NoStaleForSubscribers /\ ErrorHasNoLinks

USE DEF NoStaleForSubscribers, ErrorHasNoLinks

LEMMA QuietStep ==
  ASSUME FlightInv, QuietInv, [Next]_vars
  PROVE  QuietInv'
<1> USE NoneAssumption
<1>1. CASE UNCHANGED vars
  BY <1>1 DEF vars, shared, local, QuietInv
<1>2. ASSUME NEW gone \in SUBSET Keys, DropKeys(gone)
      PROVE  QuietInv'
  BY <1>2 DEF DropKeys, local, QuietInv
<1>3. ASSUME NEW c \in Calls, NEW k \in Keys, NEW cached \in BOOLEAN,
             Hit(c, k, cached)
      PROVE  QuietInv'
  BY <1>3 DEF Hit, Begin, Usable, shared, QuietInv, FlightInv, TypeOK
<1>4. ASSUME NEW c \in Calls, NEW k \in Keys, NEW cached \in BOOLEAN,
             Join(c, k, cached)
      PROVE  QuietInv'
  BY <1>4 DEF Join, Begin, Usable, shared, QuietInv, FlightInv, TypeOK
<1>5. ASSUME NEW c \in Calls, NEW k \in Keys, NEW cached \in BOOLEAN,
             Lead(c, k, cached)
      PROVE  QuietInv'
  BY <1>5 DEF Lead, Begin, Usable, QuietInv, FlightInv, TypeOK
<1>6. ASSUME NEW c \in Calls, AcquireSlot(c)
      PROVE  QuietInv'
  BY <1>6 DEF AcquireSlot, QuietInv, FlightInv, TypeOK
<1>7. ASSUME NEW c \in Calls, NEW v, NEW e, Outcome(c, v, e),
             pc[c] \in {"slot", "fetch"}, v = stale[c] \/ e = "none"
      PROVE  QuietInv'
  BY <1>7 DEF Outcome, QuietInv, FlightInv, TypeOK
<1>8. ASSUME NEW c \in Calls, SlotCancelled(c) \/ FetchSucceeds(c) \/ FetchFails(c)
      PROVE  QuietInv'
  BY <1>8, <1>7 DEF SlotCancelled, FetchSucceeds, FetchFails
<1>9. ASSUME NEW c \in Calls, Finish(c)
      PROVE  QuietInv'
  BY <1>9 DEF Finish, QuietInv, FlightInv, TypeOK
<1>10. ASSUME NEW c \in Calls, WaitDone(c)
       PROVE  QuietInv'
  BY <1>10 DEF WaitDone, shared, QuietInv, FlightInv, TypeOK
<1>11. ASSUME NEW c \in Calls, WaitCancelled(c)
       PROVE  QuietInv'
  BY <1>11 DEF WaitCancelled, shared, QuietInv, FlightInv, TypeOK
<1> QED
  BY <1>1, <1>2, <1>3, <1>4, <1>5, <1>6, <1>8, <1>9, <1>10, <1>11, StepCases

\* GetOrFetch never returns links together with an error.
THEOREM NoLinksWithError == Spec => []ErrorHasNoLinks
<1>1. Init => QuietInv
  BY DEF Init, QuietInv
<1>2. FlightInv /\ QuietInv /\ [Next]_vars => QuietInv'
  BY QuietStep
<1>3. QuietInv => ErrorHasNoLinks
  BY DEF QuietInv
<1> QED
  BY FlightsOrdered, <1>1, <1>2, <1>3, PTL DEF Spec

-----------------------------------------------------------------------------
(* Refinement.  A closed flight no longer changes its answer, and a waiter's *)
(* flight is running or closed.                                             *)

DoneInv ==
  /\ \A c \in Calls : c \in done <=> HasEnded(c) /\ flight[c] = c
  /\ \A c \in Calls : pc[c] = "wait" => flight[c] \in Calls /\ flight[c] # c
  /\ \A c \in Calls : pc[c] = "idle" => flight[c] = None

DoneSpecInv == FlightInv /\ ClosedAnswers /\ DoneInv

LEMMA StoreUnchanged ==
  ASSUME UNCHANGED <<values, flights, done, pc, flight, value, err>>
  PROVE  UNCHANGED Store!linkVars
BY DEF Store!linkVars, Waiters, Answered, AnswerOf

MappedStore  == {[key |-> k, val |-> values[k]] : k \in {x \in Keys : values[x] # None}}
MappedLive   == {[key |-> k, flight |-> flights[k]] : k \in {x \in Keys : flights[x] # None}}
MappedWaits  == {[who |-> c, flight |-> flight[c]] : c \in {x \in Waiters : ~Answered(x)}}
MappedLanded ==
  {[who |-> c, val |-> AnswerOf(flight[c])] : c \in {x \in Waiters : Answered(x)}}

LEMMA SameWaiters ==
  ASSUME TypeOK, NEW c \in Calls, pc[c] # "wait", pc'[c] # "wait",
         \A d \in Calls \ {c} : pc'[d] = pc[d],
         \A d \in Calls \ {c} : flight'[d] = flight[d],
         \A d \in done : value'[d] = value[d] /\ err'[d] = err[d],
         done' = done
  PROVE  MappedWaits' = MappedWaits /\ MappedLanded' = MappedLanded
<1>1. Waiters' = Waiters /\ c \notin Waiters
  BY DEF Waiters
<1>2. \A d \in Waiters : flight'[d] = flight[d] /\ (Answered(d)' <=> Answered(d))
  BY <1>1 DEF Waiters, Answered
<1>3. \A d \in Waiters : Answered(d) => AnswerOf(flight[d])' = AnswerOf(flight[d])
  BY <1>2 DEF Answered, AnswerOf
<1>4. {x \in Waiters : ~Answered(x)}' = {x \in Waiters : ~Answered(x)}
  BY <1>1, <1>2
<1>5. {x \in Waiters : Answered(x)}' = {x \in Waiters : Answered(x)}
  BY <1>1, <1>2
<1> QED
  BY <1>2, <1>3, <1>4, <1>5 DEF MappedWaits, MappedLanded

LEMMA DoneStep ==
  ASSUME FlightInv, DoneInv, [Next]_vars
  PROVE  DoneInv'
<1> USE NoneAssumption DEF DoneInv
<1>1. CASE UNCHANGED vars
  BY <1>1 DEF vars, shared, local
<1>2. ASSUME NEW gone \in SUBSET Keys, DropKeys(gone)
      PROVE  DoneInv'
  BY <1>2 DEF DropKeys, local
<1>3. ASSUME NEW c \in Calls, NEW k \in Keys, NEW cached \in BOOLEAN,
             Hit(c, k, cached)
      PROVE  DoneInv'
  BY <1>3 DEF Hit, Begin, shared, FlightInv, TypeOK
<1>4. ASSUME NEW c \in Calls, NEW k \in Keys, NEW cached \in BOOLEAN,
             Join(c, k, cached) \/ Lead(c, k, cached)
      PROVE  DoneInv'
  BY <1>4 DEF Join, Lead, Begin, shared, FlightInv, TypeOK
<1>5. ASSUME NEW c \in Calls,
             AcquireSlot(c) \/ SlotCancelled(c) \/ FetchSucceeds(c) \/ FetchFails(c)
      PROVE  DoneInv'
  BY <1>5 DEF AcquireSlot, SlotCancelled, FetchSucceeds, FetchFails, Outcome, FlightInv, TypeOK
<1>6. ASSUME NEW c \in Calls, Finish(c)
      PROVE  DoneInv'
  BY <1>6 DEF Finish, Closed, FlightInv, TypeOK
<1>7. ASSUME NEW c \in Calls, WaitDone(c) \/ WaitCancelled(c)
      PROVE  DoneInv'
  BY <1>7 DEF WaitDone, WaitCancelled, shared, FlightInv, TypeOK
<1> QED
  BY <1>1, <1>2, <1>3, <1>4, <1>5, <1>6, <1>7, StepCases

LEMMA Unmap ==
  /\ Store!linkVars = <<MappedStore, MappedLive, MappedWaits, MappedLanded>>
  /\ Store!linkVars' = <<MappedStore', MappedLive', MappedWaits', MappedLanded'>>
BY DEF Store!linkVars, MappedStore, MappedLive, MappedWaits, MappedLanded

LEMMA StoreDrop ==
  ASSUME TypeOK, NEW gone \in SUBSET Keys, DropKeys(gone)
  PROVE  Store!Drop(gone)
<1>1. MappedStore' = {e \in MappedStore : e.key \notin gone}
  BY NoneAssumption DEF DropKeys, MappedStore, TypeOK
<1>2. MappedLive' = {l \in MappedLive : l.key \notin gone}
  BY NoneAssumption DEF DropKeys, FlightsAfter, MappedLive, TypeOK
<1>3. MappedWaits' = MappedWaits /\ MappedLanded' = MappedLanded
  BY DEF DropKeys, local, MappedWaits, MappedLanded, Waiters, Answered, AnswerOf
<1> QED
  BY <1>1, <1>2, <1>3 DEF Store!Drop, MappedStore, MappedLive, MappedWaits, MappedLanded

LEMMA StoreBegin ==
  ASSUME DoneSpecInv, NEW c \in Calls, NEW k \in Keys, NEW cached \in BOOLEAN,
         Lead(c, k, cached)
  PROVE  Store!BeginFlight(c, k)
<1>1. MappedStore' = MappedStore
  BY DEF Lead, MappedStore
<1>2. MappedLive' = MappedLive \cup {[key |-> k, flight |-> c]}
  BY NoneAssumption DEF Lead, MappedLive, DoneSpecInv, FlightInv, TypeOK
<1>3. \A l \in MappedLive : l.key # k
  BY DEF Lead, MappedLive
<1>4. MappedWaits' = MappedWaits /\ MappedLanded' = MappedLanded
  BY SameWaiters DEF Lead, Begin, DoneSpecInv, FlightInv, TypeOK
<1> QED
  BY <1>1, <1>2, <1>3, <1>4
  DEF Store!BeginFlight, Store!LiveAt, Store!Flying,
      MappedStore, MappedLive, MappedWaits, MappedLanded

LEMMA StoreJoin ==
  ASSUME DoneSpecInv, NEW c \in Calls, NEW k \in Keys, NEW cached \in BOOLEAN,
         Join(c, k, cached)
  PROVE  Store!JoinFlight(c, k)
<1>1. MappedStore' = MappedStore /\ MappedLive' = MappedLive
  BY DEF Join, shared, MappedStore, MappedLive
<1>2. flights[k] \in Calls \ done
  BY NoneAssumption DEF Join, DoneSpecInv, FlightInv, DoneInv, TypeOK
<1>3. /\ {x \in Waiters : ~Answered(x)}' = {x \in Waiters : ~Answered(x)} \cup {c}
      /\ c \notin Waiters
      /\ {x \in Waiters : Answered(x)}' = {x \in Waiters : Answered(x)}
  BY <1>2 DEF Join, Begin, shared, Waiters, Answered, DoneSpecInv, FlightInv, TypeOK
<1>4. flight' = [flight EXCEPT ![c] = flights[k]] /\ flight'[c] = flights[k]
  BY DEF Join, DoneSpecInv, FlightInv, TypeOK
<1>5. MappedWaits' = MappedWaits \cup {[who |-> c, flight |-> flights[k]]}
  BY <1>3, <1>4 DEF MappedWaits, Waiters, DoneSpecInv, FlightInv, TypeOK
<1>6. MappedLanded' = MappedLanded
  BY <1>3, <1>4 DEF MappedLanded, Waiters, AnswerOf, Join, shared
<1>7. [key |-> k, flight |-> flights[k]] \in MappedLive
  BY DEF Join, MappedLive
<1>8. flights[k] \in Store!LiveAt(k)
  <2>1. [key |-> k, flight |-> flights[k]].flight = flights[k]
    OBVIOUS
  <2> QED
    BY <1>7, <2>1 DEF Store!LiveAt, MappedLive
<1>9. \E f \in Store!LiveAt(k) : MappedWaits' = MappedWaits \cup {Store!Waiting(c, f)}
  BY <1>5, <1>8 DEF Store!Waiting
<1> QED
  BY <1>1, <1>6, <1>9 DEF Store!JoinFlight, MappedStore, MappedLive, MappedWaits, MappedLanded

LEMMA StoreEnd ==
  ASSUME DoneSpecInv, NEW c \in Calls, Finish(c)
  PROVE  \E v \in {c, None} : Store!EndFlight(c, key[c], v)
<1> DEFINE v == IF err[c] = "none" THEN c ELSE None
           joined == {x \in Waiters : flight[x] = c}
<1> USE NoneAssumption DEF DoneSpecInv, DoneInv, FlightInv, TypeOK
<1>1. /\ key[c] \in Keys /\ flight[c] = c /\ c \notin done /\ c \notin Waiters
      /\ err[c] = "none" => value[c] = c
      /\ c \in obsolete => flights[key[c]] # c
  BY DEF Finish, Waiters
<1>2. MappedLive' = MappedLive \ {[key |-> key[c], flight |-> c]}
  BY <1>1 DEF Finish, FinishedFlights, Registered, MappedLive
<1>3. MappedStore' = IF [key |-> key[c], flight |-> c] \in MappedLive /\ v # None
                       THEN {e \in MappedStore : e.key # key[c]} \cup {[key |-> key[c], val |-> v]}
                       ELSE MappedStore
  <2>1. [key |-> key[c], flight |-> c] \in MappedLive <=> flights[key[c]] = c
    <3>1. ASSUME NEW l \in MappedLive, l = [key |-> key[c], flight |-> c]
          PROVE  flights[key[c]] = c
      <4>1. PICK k \in Keys : l = [key |-> k, flight |-> flights[k]]
        BY DEF MappedLive
      <4>2. l.key = k /\ l.flight = flights[k]
        BY <4>1
      <4>3. l.key = key[c] /\ l.flight = c
        BY <3>1
      <4> QED
        BY <4>2, <4>3
    <3>2. ASSUME flights[key[c]] = c
          PROVE  [key |-> key[c], flight |-> c] \in MappedLive
      BY <1>1, <3>2 DEF MappedLive
    <3> QED
      BY <3>1, <3>2
  <2>2. CASE flights[key[c]] = c /\ err[c] = "none"
    <3>1. values' = [values EXCEPT ![key[c]] = c]
      BY <1>1, <2>2 DEF Finish, FinishedValues, Registered, MayStore
    <3>2. values'[key[c]] # None /\ v = c /\ c # None
      BY <1>1, <2>2, <3>1
    <3>3. \A k \in Keys : values'[k] = IF k = key[c] THEN c ELSE values[k]
      BY <3>1
    <3>4. {x \in Keys : values'[x] # None} = {x \in Keys : values[x] # None} \cup {key[c]}
      BY <1>1, <3>2, <3>3
    <3>5. MappedStore' = {e \in MappedStore : e.key # key[c]} \cup {[key |-> key[c], val |-> c]}
      BY <1>1, <3>3, <3>4 DEF MappedStore
    <3> QED
      BY <2>1, <2>2, <3>2, <3>5
  <2>3. CASE ~(flights[key[c]] = c /\ err[c] = "none")
    <3>1. values' = values
      BY <2>3 DEF Finish, FinishedValues, Registered, MayStore
    <3> QED
      BY <2>1, <2>3, <3>1 DEF MappedStore
  <2> QED
    BY <2>2, <2>3
<1>4. Waiters' = Waiters /\ done' = done \cup {c}
  BY <1>1 DEF Finish, Closed, Waiters
<1>5. /\ {x \in Waiters : ~Answered(x)}' = {x \in Waiters : ~Answered(x)} \ joined
      /\ {x \in Waiters : Answered(x)}' = {x \in Waiters : Answered(x)} \cup joined
      /\ \A x \in joined : ~Answered(x)
  BY <1>1, <1>4 DEF Finish, Answered, Waiters
<1>6. flight' = flight /\ value' = value /\ err' = err
  BY DEF Finish
<1>7. MappedWaits' = {w \in MappedWaits : w.flight # c}
  BY <1>5, <1>6 DEF MappedWaits, Waiters
<1>8. \A x \in joined : AnswerOf(flight[x])' = v
  BY <1>1, <1>6 DEF AnswerOf
<1>9. \A x \in Calls : AnswerOf(flight[x])' = AnswerOf(flight[x])
  BY <1>6 DEF AnswerOf
<1>10. MappedLanded' = MappedLanded \cup {[who |-> x, val |-> v] : x \in joined}
  BY <1>5, <1>8, <1>9 DEF MappedLanded, Waiters
<1>11. {[who |-> x, val |-> v] : x \in joined}
         = {[who |-> w.who, val |-> v] : w \in {x \in MappedWaits : x.flight = c}}
  <2>1. ASSUME NEW x \in joined
        PROVE  \E w \in {y \in MappedWaits : y.flight = c} : w.who = x
    <3>1. x \in {y \in Waiters : ~Answered(y)} /\ flight[x] = c
      BY <1>5
    <3>2. [who |-> x, flight |-> c] \in MappedWaits
      BY <3>1 DEF MappedWaits
    <3> QED
      BY <3>2
  <2>2. \A w \in MappedWaits : w.flight = c => w.who \in joined
    BY DEF MappedWaits
  <2> HIDE DEF joined, v
  <2> QED
    BY <2>1, <2>2
<1>12. Store!EndFlight(c, key[c], v)
  BY <1>2, <1>3, <1>7, <1>10, <1>11
  DEF Store!EndFlight, Store!Flying, Store!Entry, Store!Answer,
      MappedStore, MappedLive, MappedWaits, MappedLanded
<1>13. v \in {c, None}
  OBVIOUS
<1> HIDE DEF v
<1> QED
  BY <1>12, <1>13 DEF Store!EndFlight

LEMMA StoreLeave ==
  ASSUME DoneSpecInv, NEW c \in Calls, WaitDone(c) \/ WaitCancelled(c)
  PROVE  Store!LeaveFlight(c)
<1> USE DEF DoneSpecInv, DoneInv, FlightInv, TypeOK
<1>1. MappedStore' = MappedStore /\ MappedLive' = MappedLive
  BY DEF WaitDone, WaitCancelled, shared, MappedStore, MappedLive
<1>2. /\ Waiters' = Waiters \ {c}
      /\ flight' = flight /\ done' = done
      /\ \A x \in done : value'[x] = value[x] /\ err'[x] = err[x]
  BY DEF WaitDone, WaitCancelled, shared, Waiters
<1>3. \A x \in Waiters : Answered(x) => AnswerOf(flight[x])' = AnswerOf(flight[x])
  BY <1>2 DEF Answered, AnswerOf
<1>4. /\ {x \in Waiters : ~Answered(x)}' = {x \in Waiters : ~Answered(x)} \ {c}
      /\ {x \in Waiters : Answered(x)}' = {x \in Waiters : Answered(x)} \ {c}
  BY <1>2 DEF Answered
<1>5. MappedWaits' = {x \in MappedWaits : x.who # c}
  BY <1>2, <1>4 DEF MappedWaits
<1>6. MappedLanded' = {x \in MappedLanded : x.who # c}
  BY <1>3, <1>4 DEF MappedLanded
<1> QED
  BY <1>1, <1>5, <1>6
  DEF Store!LeaveFlight, MappedStore, MappedLive, MappedWaits, MappedLanded

\* A step of a call that neither waits nor closes a flight is invisible.
LEMMA StoreStutter ==
  ASSUME DoneSpecInv, NEW c \in Calls,
         \/ \E k \in Keys, cached \in BOOLEAN : Hit(c, k, cached)
         \/ AcquireSlot(c) \/ SlotCancelled(c) \/ FetchSucceeds(c) \/ FetchFails(c)
  PROVE  UNCHANGED Store!linkVars
<1> USE DEF DoneSpecInv, DoneInv, FlightInv, TypeOK
<1>1. values' = values /\ flights' = flights /\ done' = done /\ flight' = flight
  BY DEF Hit, Begin, shared, AcquireSlot, SlotCancelled, FetchSucceeds, FetchFails, Outcome
<1>2. MappedStore' = MappedStore /\ MappedLive' = MappedLive
  BY <1>1 DEF MappedStore, MappedLive
<1>3. /\ pc[c] # "wait" /\ pc'[c] # "wait" /\ c \notin done
      /\ \A d \in Calls \ {c} : pc'[d] = pc[d] /\ value'[d] = value[d] /\ err'[d] = err[d]
  BY DEF Hit, Begin, shared, AcquireSlot, SlotCancelled, FetchSucceeds, FetchFails, Outcome
<1>4. \A d \in done : value'[d] = value[d] /\ err'[d] = err[d]
  BY <1>3
<1>5. MappedWaits' = MappedWaits /\ MappedLanded' = MappedLanded
  BY <1>1, <1>3, <1>4, SameWaiters
<1> QED
  BY <1>2, <1>5, Unmap

\* The cache implements LinkStore: each step is one of its operations or
\* leaves its state alone.
THEOREM LinkCacheImplementsStore == Spec => ImplementsStore
<1>1. Init => Store!LinkInit /\ DoneInv /\ FreshInv
  BY DEF Init, Store!LinkInit, Waiters, DoneInv, FreshInv
<1>2. DoneSpecInv /\ [Next]_vars => [StoreStep]_(Store!linkVars)
  <2> SUFFICES ASSUME DoneSpecInv, [Next]_vars
               PROVE  StoreStep \/ UNCHANGED Store!linkVars
    OBVIOUS
  <2>1. CASE UNCHANGED vars
    BY <2>1, StoreUnchanged DEF vars, shared, local
  <2>2. ASSUME NEW gone \in SUBSET Keys, DropKeys(gone)
        PROVE  StoreStep
    BY <2>2, StoreDrop DEF StoreStep, DoneSpecInv, FlightInv
  <2>3. ASSUME NEW c \in Calls, NEW k \in Keys, NEW cached \in BOOLEAN, Hit(c, k, cached)
        PROVE  UNCHANGED Store!linkVars
    BY <2>3, StoreStutter
  <2>4. ASSUME NEW c \in Calls, NEW k \in Keys, NEW cached \in BOOLEAN, Lead(c, k, cached)
        PROVE  StoreStep
    BY <2>4, StoreBegin DEF StoreStep
  <2>5. ASSUME NEW c \in Calls, NEW k \in Keys, NEW cached \in BOOLEAN, Join(c, k, cached)
        PROVE  StoreStep
    BY <2>5, StoreJoin DEF StoreStep
  <2>6. ASSUME NEW c \in Calls,
               AcquireSlot(c) \/ SlotCancelled(c) \/ FetchSucceeds(c) \/ FetchFails(c)
        PROVE  UNCHANGED Store!linkVars
    BY <2>6, StoreStutter
  <2>7. ASSUME NEW c \in Calls, WaitDone(c) \/ WaitCancelled(c)
        PROVE  StoreStep
    BY <2>7, StoreLeave DEF StoreStep
  <2>8. ASSUME NEW c \in Calls, Finish(c)
        PROVE  StoreStep
    <3>1. key[c] \in Keys
      BY <2>8 DEF Finish, DoneSpecInv, FlightInv
    <3> QED
      BY <2>8, <3>1, StoreEnd DEF StoreStep
  <2> QED
    BY <2>1, <2>2, <2>3, <2>4, <2>5, <2>6, <2>7, <2>8, StepCases
<1>3. FlightInv /\ FreshInv /\ [Next]_vars => FreshInv'
  BY FreshStep
<1>4. FlightInv /\ DoneInv /\ [Next]_vars => DoneInv'
  BY DoneStep
<1>5. FlightInv /\ FreshInv /\ DoneInv => DoneSpecInv
  BY DEF DoneSpecInv, FreshInv
<1> QED
  BY FlightsOrdered, <1>1, <1>2, <1>3, <1>4, <1>5, PTL DEF Spec, ImplementsStore

-----------------------------------------------------------------------------
(* Waiters.  The flight a call waits for is led by a call that is running   *)
(* or has closed it; a leader leaves only by Finish, which closes its own   *)
(* flight, whatever has become of its key meanwhile.                        *)

LEMMA ServedStep ==
  ASSUME FlightInv, DoneInv, WaitersAreServed, [Next]_vars
  PROVE  WaitersAreServed'
<1> USE NoneAssumption DEF DoneInv, WaitersAreServed
<1>1. CASE UNCHANGED vars
  BY <1>1 DEF vars, shared, local
<1>2. ASSUME NEW gone \in SUBSET Keys, DropKeys(gone)
      PROVE  WaitersAreServed'
  BY <1>2 DEF DropKeys, local
<1>3. ASSUME NEW c \in Calls, NEW k \in Keys, NEW cached \in BOOLEAN,
             Hit(c, k, cached) \/ Join(c, k, cached) \/ Lead(c, k, cached)
      PROVE  WaitersAreServed'
  BY <1>3 DEF Hit, Join, Lead, Begin, shared, FlightInv, TypeOK
<1>4. ASSUME NEW c \in Calls,
             AcquireSlot(c) \/ SlotCancelled(c) \/ FetchSucceeds(c) \/ FetchFails(c)
      PROVE  WaitersAreServed'
  BY <1>4 DEF AcquireSlot, SlotCancelled, FetchSucceeds, FetchFails, Outcome, FlightInv, TypeOK
<1>5. ASSUME NEW c \in Calls, Finish(c)
      PROVE  WaitersAreServed'
  BY <1>5 DEF Finish, Closed, FlightInv, TypeOK
<1>6. ASSUME NEW c \in Calls, WaitDone(c) \/ WaitCancelled(c)
      PROVE  WaitersAreServed'
  BY <1>6 DEF WaitDone, WaitCancelled, shared, FlightInv, TypeOK
<1> QED
  BY <1>1, <1>2, <1>3, <1>4, <1>5, <1>6, StepCases

\* Nobody waits in vain: a waiter's flight is closed or has a running leader,
\* also after a prune disowned it and another flight took its key.
THEOREM NobodyWaitsInVain == Spec => []WaitersAreServed
<1>1. Init => DoneInv /\ WaitersAreServed
  BY DEF Init, DoneInv, WaitersAreServed
<1>2. FlightInv /\ DoneInv /\ [Next]_vars => DoneInv'
  BY DoneStep
<1>3. FlightInv /\ DoneInv /\ WaitersAreServed /\ [Next]_vars => WaitersAreServed'
  BY ServedStep
<1> QED
  BY FlightsOrdered, <1>1, <1>2, <1>3, PTL DEF Spec

=============================================================================
