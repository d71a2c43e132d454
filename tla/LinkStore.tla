------------------------------ MODULE LinkStore ------------------------------
(***************************************************************************)
(* What the link cache of internal/aggregator/link_cache.go promises to    *)
(* the rest of the aggregator, without its slots and its locking.          *)
(*                                                                         *)
(* store holds one value per key; live holds the flights whose answer may  *)
(* still enter the store.  A flight that was pruned is not live: it still  *)
(* runs and hands its answer to the callers that joined it, but it can no  *)
(* longer touch the store.  LinkCache implements this module, and          *)
(* Connections is built on it.                                             *)
(***************************************************************************)
CONSTANT None   \* "no value": the answer of a fetch that failed

VARIABLES
  store,    \* set of [key, val]: the values map
  live,     \* set of [key, flight]: the flights map
  waits,    \* set of [who, flight]: callers waiting for a flight to end
  landed    \* set of [who, val]: answers not yet taken by their waiters

linkVars == <<store, live, waits, landed>>

Entry(k, v)   == [key |-> k, val |-> v]
Flying(k, f)  == [key |-> k, flight |-> f]
Waiting(w, f) == [who |-> w, flight |-> f]
Answer(w, v)  == [who |-> w, val |-> v]

\* The value cached under key k, and the flight live under it (at most one).
ValuesAt(k) == {e.val : e \in {x \in store : x.key = k}}
LiveAt(k)   == {l.flight : l \in {x \in live : x.key = k}}

\* The keys any entry or live flight is registered under.
KeysInUse == {e.key : e \in store} \cup {l.key : l \in live}

LinkInit == store = {} /\ live = {} /\ waits = {} /\ landed = {}

\* A flight is registered only while no other flight is live under its key.
BeginFlight(f, k) ==
  /\ LiveAt(k) = {}
  /\ live' = live \cup {Flying(k, f)}
  /\ UNCHANGED <<store, waits, landed>>

\* A caller joins the flight that is live under its key.
JoinFlight(w, k) ==
  /\ \E f \in LiveAt(k) : waits' = waits \cup {Waiting(w, f)}
  /\ UNCHANGED <<store, live, landed>>

\* A flight ends.  Its answer v goes to every waiter, and into the store if it
\* is not an error and the flight is still live.
EndFlight(f, k, v) ==
  /\ store' = IF Flying(k, f) \in live /\ v # None
                THEN {e \in store : e.key # k} \cup {Entry(k, v)}
                ELSE store
  /\ live' = live \ {Flying(k, f)}
  /\ waits' = {w \in waits : w.flight # f}
  /\ landed' = landed \cup {Answer(w.who, v) : w \in {x \in waits : x.flight = f}}

\* A waiter takes its answer, or stops waiting.
LeaveFlight(w) ==
  /\ waits' = {x \in waits : x.who # w}
  /\ landed' = {x \in landed : x.who # w}
  /\ UNCHANGED <<store, live>>

\* Pruning forgets the values of the keys in gone and disowns their flights.
Drop(gone) ==
  /\ store' = {e \in store : e.key \notin gone}
  /\ live' = {l \in live : l.key \notin gone}
  /\ UNCHANGED <<waits, landed>>

=============================================================================
