------------------------------ MODULE LinkCache ------------------------------
(***************************************************************************)
(* internal/aggregator/link_cache.go: the subscription-link cache.         *)
(*                                                                         *)
(* Every invocation of GetOrFetch or Refresh is one element of Calls.  The *)
(* first call that misses on a key registers a flight and leads it; calls  *)
(* that arrive while the flight is registered wait for its answer.  The    *)
(* flight is named after the call that leads it, and so is the link list   *)
(* it fetches: a value is the call that fetched it.                        *)
(*                                                                         *)
(* Each action is one critical section of linkCache.mu, one operation on   *)
(* the slots channel, or the return of the panel call.                     *)
(***************************************************************************)
EXTENDS Integers, FiniteSets

CONSTANTS
  Keys,     \* linkKey values: records [server, epoch, sub]
  Calls,    \* invocations of GetOrFetch and Refresh
  Limit,    \* capacity of the slots channel
  None      \* no value, no flight

ASSUME LimitAssumption == Limit \in Nat \ {0}
ASSUME NoneAssumption == None \notin Calls

VARIABLES
  values,    \* Keys -> the call whose answer is cached, or None
  flights,   \* Keys -> the call leading the registered flight, or None
  slots,     \* number of tokens in the slots channel
  obsolete,  \* flights marked obsolete by a prune
  done,      \* flights whose done channel is closed
  pc,        \* where each call is
  key,       \* the key of each call
  useCached, \* whether a call accepts a cached value: GetOrFetch, not Refresh
  flight,    \* the flight a call leads or waits for
  stale,     \* the value a leader found when it registered its flight
  value,     \* the value a call returns
  err,       \* the error a call returns
  pruned,    \* history: flights whose key was pruned while they ran
  before     \* history: the calls that had ended when a call began

shared == <<values, flights, slots, obsolete, done>>
local  == <<pc, key, useCached, flight, stale, value, err>>
vars   == <<shared, local, pruned, before>>

Leading == {"slot", "fetch", "finish"}
Ended   == {"returned", "panicked"}
PCs     == {"idle", "wait"} \cup Leading \cup Ended
Errors  == {"none", "failed", "panic"}
Maybe(S) == S \cup {None}

IsLeading(c) == pc[c] \in Leading
HasEnded(c)  == pc[c] \in Ended

Init ==
  /\ values = [k \in Keys |-> None]
  /\ flights = [k \in Keys |-> None]
  /\ slots = 0
  /\ obsolete = {}
  /\ done = {}
  /\ pc = [c \in Calls |-> "idle"]
  /\ key = [c \in Calls |-> None]
  /\ useCached = [c \in Calls |-> TRUE]
  /\ flight = [c \in Calls |-> None]
  /\ stale = [c \in Calls |-> None]
  /\ value = [c \in Calls |-> None]
  /\ err = [c \in Calls |-> "none"]
  /\ pruned = {}
  /\ before = [c \in Calls |-> {}]

-----------------------------------------------------------------------------
(* fetch(): the first critical section of a call.                           *)

\* What a call may answer from the cache without a flight.
Usable_RefreshToo(k, cached) == values[k]
Usable(k, cached) == IF cached THEN values[k] ELSE None

Begin(c, k, cached) ==
  /\ pc[c] = "idle"
  /\ useCached' = [useCached EXCEPT ![c] = cached]
  /\ key' = [key EXCEPT ![c] = k]
  /\ before' = [before EXCEPT ![c] = {d \in Calls : HasEnded(d)}]
  /\ UNCHANGED pruned

Hit(c, k, cached) ==
  /\ Begin(c, k, cached)
  /\ Usable(k, cached) # None
  /\ value' = [value EXCEPT ![c] = Usable(k, cached)]
  /\ pc' = [pc EXCEPT ![c] = "returned"]
  /\ UNCHANGED <<shared, flight, stale, err>>

Join(c, k, cached) ==
  /\ Begin(c, k, cached)
  /\ Usable(k, cached) = None
  /\ flights[k] # None
  /\ flight' = [flight EXCEPT ![c] = flights[k]]
  /\ pc' = [pc EXCEPT ![c] = "wait"]
  /\ UNCHANGED <<shared, stale, value, err>>

Lead(c, k, cached) ==
  /\ Begin(c, k, cached)
  /\ Usable(k, cached) = None
  /\ flights[k] = None
  /\ flights' = [flights EXCEPT ![k] = c]
  /\ flight' = [flight EXCEPT ![c] = c]
  /\ stale' = [stale EXCEPT ![c] = values[k]]
  /\ pc' = [pc EXCEPT ![c] = "slot"]
  /\ UNCHANGED <<values, slots, obsolete, done, value, err>>

-----------------------------------------------------------------------------
(* runFetch(): the leader takes one of the slots, calls the panel and gives *)
(* the slot back; an error or a panic yields the stale value.               *)

SlotFree == slots < Limit

AcquireSlot(c) ==
  /\ pc[c] = "slot"
  /\ SlotFree
  /\ slots' = slots + 1
  /\ pc' = [pc EXCEPT ![c] = "fetch"]
  /\ UNCHANGED <<values, flights, obsolete, done, key, useCached, flight, stale, value, err,
                 pruned, before>>

Outcome(c, v, e) ==
  /\ value' = [value EXCEPT ![c] = v]
  /\ err' = [err EXCEPT ![c] = e]
  /\ pc' = [pc EXCEPT ![c] = "finish"]
  /\ UNCHANGED <<values, flights, obsolete, done, key, useCached, flight, stale, pruned, before>>

SlotCancelled(c) ==
  /\ pc[c] = "slot"
  /\ Outcome(c, stale[c], "failed")
  /\ UNCHANGED slots

\* The deferred receive runs whether fetch returns or panics.
ReleaseSlot_LeakOnPanic(e) == slots' = IF e = "panic" THEN slots ELSE slots - 1
ReleaseSlot(e) == slots' = slots - 1

FetchSucceeds(c) ==
  /\ pc[c] = "fetch"
  /\ Outcome(c, c, "none")
  /\ ReleaseSlot("none")

FetchFails(c) ==
  /\ pc[c] = "fetch"
  /\ \E e \in {"failed", "panic"} : Outcome(c, stale[c], e) /\ ReleaseSlot(e)

-----------------------------------------------------------------------------
(* finishLinkFlight(): the deferred end of runLinkFlight.                   *)

\* Whether the finishing flight is the one registered under its key.
Registered_AnyFlight(c) == flights[key[c]] # None
Registered(c) == flights[key[c]] = c

MayStore(c) == err[c] = "none" /\ c \notin obsolete

FinishedValues_NoFlightCheck(c) ==
  IF err[c] = "none" THEN [values EXCEPT ![key[c]] = value[c]] ELSE values
FinishedValues(c) ==
  IF Registered(c) /\ MayStore(c) THEN [values EXCEPT ![key[c]] = value[c]] ELSE values

FinishedFlights(c) ==
  IF Registered(c) THEN [flights EXCEPT ![key[c]] = None] ELSE flights

\* close(flight.done) wakes the waiters, also those of a pruned flight.
Closed_OnlyRegistered(c) == IF Registered(c) THEN done \cup {c} ELSE done
Closed(c) == done \cup {c}

Finish(c) ==
  /\ pc[c] = "finish"
  /\ values' = FinishedValues(c)
  /\ flights' = FinishedFlights(c)
  /\ done' = Closed(c)
  /\ pc' = [pc EXCEPT ![c] = IF err[c] = "panic" THEN "panicked" ELSE "returned"]
  /\ UNCHANGED <<slots, obsolete, key, useCached, flight, stale, value, err, pruned, before>>

-----------------------------------------------------------------------------
(* waitLinkFlight(): a waiter takes the leader's answer or gives up when its *)
(* own context ends.                                                        *)

WaitDone(c) ==
  /\ pc[c] = "wait"
  /\ flight[c] \in done
  /\ value' = [value EXCEPT ![c] = value[flight[c]]]
  /\ err' = [err EXCEPT ![c] = err[flight[c]]]
  /\ pc' = [pc EXCEPT ![c] = "returned"]
  /\ UNCHANGED <<shared, key, useCached, flight, stale, pruned, before>>

WaitCancelled(c) ==
  /\ pc[c] = "wait"
  /\ err' = [err EXCEPT ![c] = "failed"]
  /\ pc' = [pc EXCEPT ![c] = "returned"]
  /\ UNCHANGED <<shared, key, useCached, flight, stale, value, pruned, before>>

-----------------------------------------------------------------------------
(* The three prunes drop the values and disown the flights of a set of keys. *)

ObsoleteAfter(gone) == obsolete \cup {flights[k] : k \in {x \in gone : flights[x] # None}}

FlightsAfter_Kept(gone) == flights
FlightsAfter(gone) == [k \in Keys |-> IF k \in gone THEN None ELSE flights[k]]

DropKeys(gone) ==
  /\ values' = [k \in Keys |-> IF k \in gone THEN None ELSE values[k]]
  /\ flights' = FlightsAfter(gone)
  /\ obsolete' = ObsoleteAfter(gone)
  /\ pruned' = pruned \cup {c \in Calls : IsLeading(c) /\ key[c] \in gone}
  /\ UNCHANGED <<slots, done, local, before>>

PruneServer(s, keep) == DropKeys({k \in Keys \ keep : k.server = s})

PruneServerEpoch(s, e, keep) ==
  DropKeys({k \in Keys \ keep : k.server = s /\ k.epoch = e})

PruneDeletedServers(alive) == DropKeys({k \in Keys : k.server \notin alive})

-----------------------------------------------------------------------------
Servers == {k.server : k \in Keys}
Epochs  == {k.epoch : k \in Keys}

Prune ==
  \/ \E s \in Servers : PruneServer(s, {})
  \/ \E s \in Servers, e \in Epochs, keep \in SUBSET Keys : PruneServerEpoch(s, e, keep)
  \/ \E alive \in SUBSET Servers : PruneDeletedServers(alive)

Start(c) ==
  \E k \in Keys, cached \in BOOLEAN :
    Hit(c, k, cached) \/ Join(c, k, cached) \/ Lead(c, k, cached)

Return(c) == FetchSucceeds(c) \/ FetchFails(c)

Step(c) ==
  \/ Start(c)
  \/ AcquireSlot(c)
  \/ SlotCancelled(c)
  \/ Return(c)
  \/ Finish(c)
  \/ WaitDone(c)
  \/ WaitCancelled(c)

Next == Prune \/ \E c \in Calls : Step(c)

Spec == Init /\ [][Next]_vars

-----------------------------------------------------------------------------
(* Properties.                                                              *)

TypeOK ==
  /\ values \in [Keys -> Maybe(Calls)]
  /\ flights \in [Keys -> Maybe(Calls)]
  /\ slots \in 0..Limit
  /\ obsolete \subseteq Calls
  /\ done \subseteq Calls
  /\ pc \in [Calls -> PCs]
  /\ key \in [Calls -> Maybe(Keys)]
  /\ useCached \in [Calls -> BOOLEAN]
  /\ flight \in [Calls -> Maybe(Calls)]
  /\ stale \in [Calls -> Maybe(Calls)]
  /\ value \in [Calls -> Maybe(Calls)]
  /\ err \in [Calls -> Errors]
  /\ pruned \subseteq Calls
  /\ before \in [Calls -> SUBSET Calls]

\* A prune is final: links that were being fetched when their key was pruned
\* (the connection changed, the group went inactive, the server was deleted)
\* never enter the cache afterwards, whatever else runs on that key meanwhile
\* (PruneServer, PruneServerEpoch, PruneDeletedServers vs finishLinkFlight).
PrunedNeverCached == \A k \in Keys : values[k] \notin pruned

\* Two flights run for one key only if at least one of them was pruned: the
\* panel is asked once however many subscribers arrive together (fetch).
SingleFlight ==
  \A c, d \in Calls :
    /\ IsLeading(c) /\ IsLeading(d)
    /\ key[c] = key[d]
    /\ c \notin pruned /\ d \notin pruned
    => c = d

Fetching == {c \in Calls : pc[c] = "fetch"}

\* The slots channel counts exactly the panel calls in progress, on every exit
\* of runFetch: success, error, panic and cancellation while waiting.
SlotsAreFetches == slots = Cardinality(Fetching)

\* A refresh that reports success hands out links fetched by a flight that was
\* still running when the refresh began, never what was cached before it, also
\* when it joined another call's flight (Refresh, waitLinkFlight).
FreshAfterRefresh ==
  \A c \in Calls :
    HasEnded(c) /\ ~useCached[c] /\ err[c] = "none" => value[c] \notin before[c]

\* An older answer never replaces a newer one: whenever a cached value is
\* replaced, the new value's call began after the old value's call had ended.
NewerReplacesOlder ==
  [][\A k \in Keys :
       values[k] # None /\ values'[k] \notin {None, values[k]}
         => values[k] \in before[values'[k]]]_vars

\* The stale copy a leader keeps for the error case is still the cached value
\* when it hands it out: nobody writes a key under a flight that was not
\* pruned, so a failed refresh returns, and leaves, the last good links.
StaleStaysCurrent ==
  \A c \in Calls : IsLeading(c) /\ c \notin pruned => stale[c] = values[key[c]]

\* Nobody waits in vain: the flight a call waits for has been closed, or is in
\* the hands of a leader that will close it, also when the flight was pruned and
\* another has taken its place under the key (finishLinkFlight, waitLinkFlight).
WaitersAreServed ==
  \A c \in Calls : pc[c] = "wait" => flight[c] \in done \/ IsLeading(flight[c])

\* A subscriber never gets an error together with links: stale links reach
\* only calls of Refresh, whose callers look at the error alone.
ErrorHasNoLinks ==
  \A c \in Calls : useCached[c] /\ err[c] # "none" => value[c] = None

(***************************************************************************)
(* Refinement.                                                             *)
(***************************************************************************)

Answered(c) == flight[c] \in done
AnswerOf(f) == IF err[f] = "none" THEN value[f] ELSE None
Waiters == {c \in Calls : pc[c] = "wait"}

Store == INSTANCE LinkStore WITH
  store  <- {[key |-> k, val |-> values[k]] : k \in {x \in Keys : values[x] # None}},
  live   <- {[key |-> k, flight |-> flights[k]] : k \in {x \in Keys : flights[x] # None}},
  waits  <- {[who |-> c, flight |-> flight[c]] : c \in {x \in Waiters : ~Answered(x)}},
  landed <- {[who |-> c, val |-> AnswerOf(flight[c])] : c \in {x \in Waiters : Answered(x)}}

StoreStep ==
  \/ \E c \in Calls, k \in Keys :
       \/ Store!BeginFlight(c, k)
       \/ Store!JoinFlight(c, k)
       \/ \E v \in {c, None} : Store!EndFlight(c, k, v)
  \/ \E c \in Calls : Store!LeaveFlight(c)
  \/ \E gone \in SUBSET Keys : Store!Drop(gone)

\* The cache keeps the promise of LinkStore: every step is one of its
\* operations on the abstract state, or leaves that state alone.
ImplementsStore == Store!LinkInit /\ [][StoreStep]_(Store!linkVars)

=============================================================================
