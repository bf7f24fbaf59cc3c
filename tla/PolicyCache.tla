---------------------------- MODULE PolicyCache ----------------------------
(***************************************************************************)
(* The version-keyed cache of a tenant's effective policies.               *)
(*   services/policy_engine.py get_effective_policies(), invalidate_cache()*)
(*   signals.py, models/policy.py, services/policy_rollout.py              *)
(*                                                                         *)
(* The tenant's committed policy rows are known by a number, the count of  *)
(* commits that changed them: a higher one has every earlier write in it.  *)
(* The one database query of a reader sees one committed state.  The cache *)
(* knows no transactions: each call to it is a step of its own.            *)
(***************************************************************************)
EXTENDS Integers, FiniteSets

CONSTANTS
  Writers,     \* requests that write policies, or only invalidate
  Readers,     \* evaluations
  MaxWrites,   \* bound on the commits of a behaviour
  MaxVersion,  \* bound on the version counter
  TTL,         \* ticks a cached list lives (POLICY_CACHE_TTL)
  Delay        \* ticks an evaluation may take from its query to its cache.set

ASSUME PolicyCacheAssumption ==
  /\ MaxWrites \in Nat /\ MaxVersion \in Nat \ {0}
  /\ TTL \in Nat \ {0} /\ Delay \in Nat

VARIABLES
  rows,      \* the committed state of the policy rows
  version,   \* the cache's policies_version:<tenant> counter; 0 if not there
  entry,     \* [Keys -> Entry], the cached policy lists by version
  writer,    \* [Writers -> Writer]
  reader,    \* [Readers -> Evaluation]
  past,      \* history: [1..Window -> States], rows as of the latest ticks
  landed     \* history: rows as the counter first came to each version

vars == <<rows, version, entry, writer, reader, past, landed>>

States == 0..MaxWrites
Keys   == 0..MaxVersion
Window == TTL + Delay

\* A cached list, and the ticks it has left; none is there when that is 0.
Entry    == [policies : States, left : 0..TTL]
NotThere == [policies |-> 0, left |-> 0]
Cached(k) == entry[k].left > 0

(***************************************************************************)
(* stage: "invalidating" before cache.incr, "setting" once it has raised   *)
(* ValueError.  tx: no transaction, or one that has saved; its save is     *)
(* seen by others from the commit on.                                      *)
(***************************************************************************)
Writer == [stage : {"idle", "invalidating", "setting"},
           tx : {"none", "saved"}]

(***************************************************************************)
(* stage: "keyed" once the version is read, "queried" once the rows are,   *)
(* "idle" once it has enforced its result; waited counts the ticks since   *)
(* the query.                                                              *)
(***************************************************************************)
Evaluation == [stage : {"idle", "keyed", "queried"}, key : Keys,
               result : States, waited : 0..Delay]

Evaluating(stage, key, result) ==
  [stage |-> stage, key |-> key, result |-> result, waited |-> 0]

Init ==
  /\ rows = 0
  /\ version = 0
  /\ entry = [k \in Keys |-> NotThere]
  /\ writer = [w \in Writers |-> [stage |-> "idle", tx |-> "none"]]
  /\ reader = [e \in Readers |-> Evaluating("idle", 0, 0)]
  /\ past = [i \in 1..Window |-> 0]
  /\ landed = [k \in {0} |-> 0]

-----------------------------------------------------------------------------
(***************************************************************************)
(* Writers.                                                                *)
(***************************************************************************)

\* Policy.save, or a delete, in autocommit: the row is committed and the
\* signal is about to invalidate.
Save(w) ==
  /\ writer[w] = [stage |-> "idle", tx |-> "none"]
  /\ rows < MaxWrites
  /\ rows' = rows + 1
  /\ writer' = [writer EXCEPT ![w].stage = "invalidating"]
  /\ UNCHANGED <<version, entry, reader, past, landed>>

\* The policy mutations after the signal has, and a change of the runtime
\* settings without any save, call invalidate_cache themselves.
InvalidateAgain(w) ==
  /\ writer[w] = [stage |-> "idle", tx |-> "none"]
  /\ writer' = [writer EXCEPT ![w].stage = "invalidating"]
  /\ UNCHANGED <<rows, version, entry, reader, past, landed>>

\* Policy.save inside a transaction, of a promotion or a rollback of a change
\* set or of the Django admin: the signal invalidates now, nothing does later.
SaveInTransaction(w) ==
  /\ writer[w].stage = "idle"
  /\ writer' = [writer EXCEPT ![w] = [stage |-> "invalidating", tx |-> "saved"]]
  /\ UNCHANGED <<rows, version, entry, reader, past, landed>>

CommitTransaction(w) ==
  /\ writer[w] = [stage |-> "idle", tx |-> "saved"]
  /\ rows < MaxWrites
  /\ rows' = rows + 1
  /\ writer' = [writer EXCEPT ![w].tx = "none"]
  /\ UNCHANGED <<version, entry, reader, past, landed>>

RollbackTransaction(w) ==
  /\ writer[w] = [stage |-> "idle", tx |-> "saved"]
  /\ writer' = [writer EXCEPT ![w].tx = "none"]
  /\ UNCHANGED <<rows, version, entry, reader, past, landed>>

-----------------------------------------------------------------------------
(***************************************************************************)
(* invalidate_cache: cache.incr; if the counter is not there, incr raises  *)
(* ValueError and a second call sets it to 1, whatever it is by then.      *)
(***************************************************************************)

\* The invalidation is done, with the counter at v.
Invalidated(w, v) ==
  /\ version' = v
  /\ landed' = [k \in DOMAIN landed \cup {v} |->
                  IF k \in DOMAIN landed THEN landed[k] ELSE rows]
  /\ writer' = [writer EXCEPT ![w].stage = "idle"]
  /\ UNCHANGED <<rows, entry, reader, past>>

Incr(w) ==
  /\ writer[w].stage = "invalidating"
  /\ version \in 1..(MaxVersion - 1)
  /\ Invalidated(w, version + 1)

IncrRaises(w) ==
  /\ writer[w].stage = "invalidating"
  /\ version = 0
  /\ writer' = [writer EXCEPT ![w].stage = "setting"]
  /\ UNCHANGED <<rows, version, entry, reader, past, landed>>

SetOne(w) ==
  /\ writer[w].stage = "setting"
  /\ Invalidated(w, 1)

\* The cache cannot be reached: the signal swallows the exception, and so does
\* the runtime settings' change; a mutation reports a failure.  The write stands.
InvalidationFails(w) ==
  /\ writer[w].stage \in {"invalidating", "setting"}
  /\ writer' = [writer EXCEPT ![w].stage = "idle"]
  /\ UNCHANGED <<rows, version, entry, reader, past, landed>>

-----------------------------------------------------------------------------
(***************************************************************************)
(* get_effective_policies.                                                 *)
(***************************************************************************)

\* cache.get(policies_version, 0) makes the cache key.
ReadVersion(e) ==
  /\ reader[e].stage = "idle"
  /\ reader' = [reader EXCEPT ![e] = Evaluating("keyed", version, 0)]
  /\ UNCHANGED <<rows, version, entry, writer, past, landed>>

Hit(e) ==
  LET key == reader[e].key IN
  /\ reader[e].stage = "keyed"
  /\ Cached(key)
  /\ reader' = [reader EXCEPT ![e] = Evaluating("idle", 0, entry[key].policies)]
  /\ UNCHANGED <<rows, version, entry, writer, past, landed>>

\* A miss queries the rows; caching them is a call of its own.
Query(e) ==
  LET key == reader[e].key IN
  /\ reader[e].stage = "keyed"
  /\ ~Cached(key)
  /\ reader' = [reader EXCEPT ![e] = Evaluating("queried", key, rows)]
  /\ UNCHANGED <<rows, version, entry, writer, past, landed>>

StoreUnder(e, k) ==
  LET r == reader[e] IN
  /\ r.stage = "queried"
  /\ entry' = [entry EXCEPT ![k] = [policies |-> r.result, left |-> TTL]]
  /\ reader' = [reader EXCEPT ![e] = Evaluating("idle", 0, r.result)]
  /\ UNCHANGED <<rows, version, writer, past, landed>>

\* Faulty: caches under the version that is current now.
StoreUnderCurrent(e) == StoreUnder(e, version)

\* cache.set, under the key made before the query.
Store(e) == StoreUnder(e, reader[e].key)

-----------------------------------------------------------------------------
(***************************************************************************)
(* The cache and the clock.                                                *)
(***************************************************************************)

\* The cache evicts a list.
DropEntry ==
  /\ \E k \in Keys : Cached(k) /\ entry' = [entry EXCEPT ![k] = NotThere]
  /\ UNCHANGED <<rows, version, writer, reader, past, landed>>

\* The cache loses the counter, or after a restart its latest changes.
LoseCounter ==
  /\ \E v \in 0..(version - 1) : version' = v
  /\ UNCHANGED <<rows, entry, writer, reader, past, landed>>

\* Faulty: lists are cached without a timeout, as the counter is.
Unaged(c) == c

Aged(c) == IF c.left > 1 THEN [c EXCEPT !.left = c.left - 1] ELSE NotThere

\* Time passes; no evaluation takes longer than Delay from query to store.
Tick ==
  /\ \A e \in Readers : reader[e].stage = "queried" => reader[e].waited < Delay
  /\ entry' = [k \in Keys |-> Aged(entry[k])]
  /\ reader' = [e \in Readers |->
       IF reader[e].stage = "queried"
       THEN [reader[e] EXCEPT !.waited = reader[e].waited + 1] ELSE reader[e]]
  /\ past' = [i \in 1..Window |-> IF i = 1 THEN rows ELSE past[i - 1]]
  /\ UNCHANGED <<rows, version, writer, landed>>

AutocommitNext ==
  \/ \E w \in Writers : Save(w)
  \/ \E w \in Writers : InvalidateAgain(w)
  \/ \E w \in Writers : Incr(w)
  \/ \E w \in Writers : IncrRaises(w)
  \/ \E w \in Writers : SetOne(w)
  \/ \E w \in Writers : InvalidationFails(w)
  \/ \E e \in Readers : ReadVersion(e)
  \/ \E e \in Readers : Hit(e)
  \/ \E e \in Readers : Query(e)
  \/ \E e \in Readers : Store(e)
  \/ DropEntry
  \/ LoseCounter
  \/ Tick

Next ==
  \/ AutocommitNext
  \/ \E w \in Writers : SaveInTransaction(w)
  \/ \E w \in Writers : CommitTransaction(w)
  \/ \E w \in Writers : RollbackTransaction(w)

Spec == Init /\ [][Next]_vars

-----------------------------------------------------------------------------
(***************************************************************************)
(* Properties.                                                             *)
(***************************************************************************)

\* Types, and the order of things: nothing is cached, and nobody reads, under
\* a version the counter never had, and nothing is ahead of the committed rows.
TypeOK ==
  /\ rows \in States
  /\ \E top \in Keys : landed \in [0..top -> 0..rows] /\ version \in 0..top
  /\ entry \in [Keys -> Entry]
  /\ writer \in [Writers -> Writer]
  /\ reader \in [Readers -> Evaluation]
  /\ past \in [1..Window -> States]
  /\ \A k \in Keys : Cached(k) => k \in DOMAIN landed /\ entry[k].policies <= rows
  /\ \A e \in Readers : reader[e].key \in DOMAIN landed /\ reader[e].result <= rows

Enforces(e) == reader[e].stage # "idle" /\ reader'[e].stage = "idle"

\* Whatever readers cached meanwhile, and wherever late sets, lost counters,
\* failed invalidations and open transactions have taken the counter, an
\* evaluation enforces every write that was committed when the counter first
\* came to the version it read (policy_engine.py:95-109 and 226-241).
InvalidatedIsEnforced ==
  [][\A e \in Readers :
       Enforces(e) => reader'[e].result >= landed[reader[e].key]]_vars

\* "The TTL still bounds the staleness" (signals.py:205) where invalidation
\* does not work at all: no evaluation enforces policies from before a write
\* that was committed a TTL and an evaluation's delay ago.
StalenessBounded ==
  [][\A e \in Readers : Enforces(e) => reader'[e].result >= past[Window]]_vars
=============================================================================
