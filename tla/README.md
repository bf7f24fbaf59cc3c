# Zentinelle in TLA+

Zentinelle is a control plane for AI agents: a Django backend decides whether an
agent's call may run, holds it for a human where a policy says so, charges it to
hard budgets, meters its usage and keeps a tamper-evident audit log.  This
directory specifies the parts of that backend whose correctness depends on
concurrency, crashes and ordering, checks them with TLC, and proves the most
important results with TLAPS.  Paths below are relative to the repository;
`zentinelle/` stands for `backend/zentinelle/`.

## 1. Inventory

### Where state lives

PostgreSQL is used through three Django aliases (`zentinelle/db_router.py`):
`analytics` holds usage metrics, aggregates, the audit log, its heads and its
retention proofs; `zentinelle` holds every other model of the application;
`default` holds Django's own tables.  **A transaction spans one alias only.**  Requests run in
autocommit unless the code opens `transaction.atomic`; there is no
`ATOMIC_REQUESTS` and no `on_commit`.  Isolation is READ COMMITTED, so
correctness rests on `select_for_update`, unique constraints and advisory locks.
A Redis cache is shared by all replicas and knows no rollback.  Background work
runs as Temporal workflows, one activity each, retried and resumed after a crash.

### Components

| Component | State | Operations | What is hard | What makes it correct | Status |
|---|---|---|---|---|---|
| Hard budgets (`services/budgets.py`, `budget_reconciliation.py`) | accounts per policy and month, charges per request | admit, report, bill, cancel | concurrent admissions, reports and bills in any order, lock order | the ledger balances; no overspend; provider answers are final; no deadlock | modelled |
| Approvals (`services/approvals.py`, `api/views/approvals.py`) | held requests, approvals, policy versions they were granted against | hold, decide, issue, validate, consume | unlocked validation, two databases, expiry, policy edits | single use; only what was approved runs; no unrecorded decision | modelled |
| Policy engine and cache (`services/policy_engine.py`, `signals.py`, `risk_scorer.py`) | policies, a version counter, cached lists | save, invalidate, read, cache, merge, decide | readers between version read, query and store; an invalidation of two calls to the cache, or none; a severity every rule is decided by | an evaluation enforces what was committed when its version was reached, and nothing older than the TTL; refusals reach the target; rules never loosen each other | partly |
| Audit chain (`models/audit.py`, `services/audit_chain.py`) | records, head, retention proofs | append, verify, checkpoint, prune | concurrent appends, pruning, pins older than the pruning | nothing lost or forked; the verdict is right both ways | partly |
| Retention and holds (`services/retention.py`, `models/retention_policy.py`) | holds, outcomes | enforce, archive, hold | a hold placed during a run | held records are kept | partly |
| Event pipeline (`api/views/events.py`, `tasks/`, `services/event_store.py`, `temporal/`) | events with status and retry count, workflows | ingest, process, sweep, dead-letter, reprocess | dropped starts, crashes, stale objects, two workers on one event | every event settles | partly |
| Usage metering (`services/usage_ingest.py`, `models/usage.py`) | metric rows per call | record, raise | the agent and the gateway report one call; redelivery | each call is counted once | partly |
| Policy rollout (`services/policy_rollout.py`, `models/policy.py`, `models/policy_change.py`) | policies, revisions, change sets, snapshots, acknowledgements | edit, stage, approve, promote, roll back | a save of several statements, unlocked transitions, stale objects, lock order | atomic, once, and only what was reviewed; a true history | modelled |
| Evaluation view (`api/views/evaluate.py`) | none of its own | evaluate | ties the parts above together | fails closed | hold path only |
| Actions and escalation (`services/actions.py`, `models/actions.py`) | shared-cache counters | count, decide, select | preview and count apart; released and held matches | escalation only rises; fallbacks never let a call through | modelled |
| Shared counters (`evaluators/rate_limit.py`, `session_quota.py`, `session_state.py`) | shared-cache counters | add, incr, give back | windows that end between two operations, check-then-add of any amount | limits hold, or are passed by a known amount | modelled |
| Bootstrap tokens, registration, agent control (`api/views/register.py`, `agent_control.py`, …) | tokens, agents | claim, register, control | unlocked reads, whole-object saves | a key stays with its issuer; a stop stands | partly |
| Astrolift clusters and keys (`services/astrolift_*.py`) | clusters, agents' keys | mint, renew, revoke, disconnect | races on an agent's row, audited on another database | a revoked agent stays revoked; keys end | partly |
| Gateway (`src/gateway`, Go) | provider-key and policy caches, streams | evaluate, forward, meter | streaming cut-off, stale caches | no call unevaluated | not modelled |
| Billing export, licences, runtime settings, notifications, authentication, proxy, content scanning, portal, SDKs, infrastructure | mostly none | | | | not modelled |

`PROJECT.json` lists each with its files and the reason when it is not modelled.

### How they interact

`/evaluate` reads the cached policies (PolicyCache), decides, validates an
approval if the call carries one (Approval) and admits: in **one** transaction
it charges the budgets (Budget) and consumes the approval.  A decision on a held
request writes the audit chain (AuditChain) on another database before its own
transaction commits.  After the call, agent and gateway each report usage to
`/events`; the batch activity meters it (EventPipeline) and settles the charge
(Budget's `ReconcileReportedUsage`).  Retention prunes the chain under the lock
that legal holds take.  What PolicyRollout commits is what PolicyCache serves;
PolicyDecision merges and decides it, with the counts SharedCounters keeps.  An
agent whose key AgentKeys has ended never gets as far as `/evaluate`.

## 2. Modules

Each module opens with the files it models; each definition's lines are in
`PROJECT.json` under `map`.  A definition marked *Faulty* is a deliberately
wrong variant of the one that follows it, used to show that the properties can fail.

**Budget** has one action per database transaction.  `committed` and `opened`
are the `BudgetAccount` rows, `admitted` and `charge` the `BudgetCharge` rows.
`Admit` is `admit()`; a refusal changes nothing and is no step.  `Settle` is
`_settle`, with its three callers as actions.  `limits[p]` is every limit a
policy has had, because an evaluation may hold a cached policy from before an
edit.  `seed` and `overrun` are history: what an account was opened with
and what settlements added to it.

**BudgetLocks** EXTENDS Budget and runs the same transactions row lock by row
lock: a transaction reads a row when it has locked it, buffers its writes and
publishes them at commit; it may be rolled back at any time.  Since it keeps
Budget's variables, the refinement mapping is the identity and `Spec` itself is
the property (`AtomicTransactions`).

**Approval** has requests, approvals, the decision in progress (`deciding`), the
audit records (`audited`, another database), the repeat counts (`counted`, the
cache) and workers.  A decision is begin, audit, then commit or rollback.  Validation
reads without a lock, from possibly stale policy versions; `Admit` locks and
consumes.  Expiry can happen at any time.

**PolicyCache** knows the committed policies by a number (`rows`) and the cache
by version keys, each list with the ticks it has left (`POLICY_CACHE_TTL`).  A writer
saves, then invalidates, by one call to the cache or two: `Incr`, or `IncrRaises`
(the `ValueError` of a counter that is not there) and later `SetOne`, which sets it to 1
whatever it is by then; or `InvalidationFails`, and the write stands.  A reader reads the
version, hits or queries, then stores, with any steps of others in between.  The cache may
evict a list (`DropEntry`) or lose the counter or its latest changes (`LoseCounter`).
`past` and `landed` are history: the rows as of the latest ticks, and as the counter first
came to each version.  **PolicySaves** adds what operators were told: which writes have
finished and were invalidated (`settled`), and what an evaluation that starts now should
enforce (`promised`).  `AutocommitSpec` has the writers that run in autocommit (the
GraphQL mutations, the assistant, policy documents); `TransactionalSpec` adds promotion,
rollback and the Django admin.

**AuditChain** is one tenant's chain.  A hash is what it was computed from, so a
chain hash is the sequence of the contents up to it.  Appends go through the
head's lock, with the first-record insert.  `ChainValid` and `PinValid` are
`_verify_chain`; `Prune` is `prune_audit_prefix`; `ChangeHold` is
`LegalHold.save`; `Archive` is the archive branch of `enforce_retention`, and
`exported` remembers that it removed rows.  `Corrupt` is the database itself
changing one row.

**EventPipeline** has the event rows, the open `process_event_batch` workflows
(`jobs`), the run of `retry_failed_events` (`sweep`), the advisory locks and the
metered usage.  Workers and the sweep act on objects read earlier (`read`), so
that late saves overwrite newer rows as in the code.  A batch's order is free.

**ChangeSets** is what change sets promise: a promotion or a rollback takes
effect at one instant, on all its policies or on none, and only from the state
it was reviewed in.  **PolicyRollout** has the code's steps: an editor's save in four
statements of autocommit (raise the version, read it back, write the row read
earlier, write the revision), reviewers that save a whole change set they
read without a lock, and rollouts that lock the change set and then its policies
one by one, in the order it lists them, and publish at commit or fail.  `torn`
is history: the policies whose edit overlapped another write.  There the
code loses a revision or takes a version back, and the properties exempt exactly those.
The mapping to ChangeSets is the identity on the variables they share
(`AtomicRollouts`).  Two rollouts that wait for each other end by `Fail`, as
PostgreSQL ends one of them.

**PolicyDecision** is one evaluation as operators and what repeats around it as
actions.  A rule is a policy with what its evaluator says of the call.  `Merge`
is `_merge_policies`; `Score`, `Severity` and `Escalate` are the risk score of the whole
evaluation and what it and the repeat counts raise a rule to; `Decide` is
`_decide` with the mode ceiling, the advisory cap and failing closed;
`Decisions` leaves out what an approval releases; `Chain` and `Select` are the
fallbacks.  `Enact` adds a rule, `Evaluate` counts matches or leaves them
`pending` on a held call, `Deny` counts those.

**SharedCounters** has one counter in the cache and calls that work on it
operation by operation: add, incr, and what happens when it is gone in between.
`kind` says what it counts: requests, a day's tokens, a session's uses or a rule's
matches.  Tokens and uses come in amounts the caller supplies (`Begin`); the read of a
quota may fail, which passes as an empty session (`ReadFails`), and so may its count, which
is dropped (`CountFails`).  `EndWindow` lets the counter expire at any moment.

**AgentKeys** has the agents' rows, the requests that read them without a lock
and write them later, an install's mints and renewals under its lock, the
bootstrap token, and the portal's mutations, which save every field of the object they read.
A mint or an audited renewal is two steps, because its audit record is on another database:
`RecordMint` and `RecordRenew` lock the agent's row, decide, and write the record; `Commit`
makes the row what was decided; `Fails` loses it and leaves the record.  Other writers
of the row wait in between (`RowLocked`).  `stopper` and `shown` are history: who stopped
the agent last, and the latest expiry its audit records show, from the last one
on whose change took effect.

The **…Proofs** modules hold the theorems, one module for each component
(BudgetProofs is about BudgetLocks too, PolicyRolloutProofs about ChangeSets,
PolicyEngineProofs about PolicyCache, PolicySaves and PolicyDecision); the **MC…** modules give symmetry and concrete functions for the
configurations.

### What the models say of the code that it may not want

* *Archived audit logs.*  docs/dependable-controls.md:46 says retention
  leaves "a signed boundary"; an archive policy deletes expired audit rows
  (retention.py:358) and leaves the head alone.  From then on verification
  reads the untouched chain as broken, which `VerdictCorrect` states.
* *A version counter that goes back*: two writers that both find no counter each set it
  to 1 (policy_engine.py:238-240).  If the first one saves again meanwhile, its `incr` to 2 is undone by
  the second one's set, and lists cached under 1, from before a finished write, are
  enforced again.  The same goes for a counter Redis evicts or loses in a restart; and an invalidation that fails is
  logged and the write stands (signals.py:211-220).  Then signals.py:194-195, "the
  policy an operator saved is the policy being enforced", does not hold:
  `SavedIsEnforced` is stated for versions new when they were reached and not set back below since.  What
  is left in all these cases is that an evaluation enforces what was committed when
  its version was first reached (`InvalidatedIsEnforced`), and the TTL.  The TTL bounds
  the age of a list from when it was cached: an evaluation that
  queried long before it caches adds its own delay (`StalenessBounded`).
* *What the chain shows of a key*: a mint or an audited renewal is recorded before its row
  commits (astrolift_clusters.py:27-29).  If the row is lost, the last record may
  show an earlier expiry than the key has: after a short mint over a live key is recorded
  and lost, the key lives past that record by more than the day of
  astrolift_clusters.py:476-477.  It holds with respect to the records since, and including, the last whose
  change took effect, which is what `KeyBounded` says.
* *Overlapping policy edits* (`torn`): two saves can share a version, of
  whose records one is dropped; a toggle or an update from a stale object puts back what a
  promotion replaced.
* *Portal saves* (`overridden` in AgentKeys): schema/mutations/endpoint.py saves stale
  objects whole, which can bring back a deleted agent, undo a stop or restore an
  older expiry; register.py:169-171 warns of just that.  A
  suspension of a terminated agent makes it one that `activate` accepts.
* *Token budgets*: tokens given back (rate_limit.py:161) after their day has ended make the next
  one admit more than its limit, although line 145 says two replicas cannot
  (`strayed` in `TokensAccounted`).
* *Quotas*: each of the evaluations of a session that run at once may pass with all that is left of
  a quota, in bytes, tool calls or tokens, so that together they pass it by up to what all but
  one of them ask for; and whatever is used while the cache cannot be read or counted on is admitted on
  top (`strayed` in `QuotaOvershootBounded`).  Two composed rate limits share one key
  (rate_limit.py:43), so that a request counts twice.
* *Held calls*: policy_engine.py:293 says a held call counts only if its approval
  is denied.  That is so for the rules that ask for the approval; the other rules
  it matched count at once (line 463), and again when the approved call is made,
  which can take them to a step that refuses it.  A match
  overtaken between preview and count can be held and counted.
* *Redact before approval*: a rule may escalate from redact, which no
  approval releases, to require_approval, which one does.  Then a higher
  severity loosens, and an approval that makes another rule pass can take the
  call back to redact, refused for good although it was held as releasable
  (`RedactEscalates`).  In the same way a rule moved from audit to enforce loses the
  3 points of its audit warning, and may leave others short of a severity step.
* *Coverage*: actions.py:286 says a rule that never reaches a refusing action lets
  every call through; under enforce it refuses when its evaluator raises.
* *Budget telemetry*: "telemetry cannot release admitted spend"
  (models/budget.py:1) is out of date: an opted-in policy's reports release it.
* *Denials rolled back* leave their repeat counts in the cache (approvals.py:142-146).
* *The sweep* tells a stranded event by the time since it arrived
  (tasks/scheduled.py:257, 283), and so takes one that started late from a live worker.

## 3. Runs

| Run | Bounds | Shows |
|---|---|---|
| `budget` | 2 policies, 2 requests, 2 months, limits {2,4}, amount 2, costs {0,1,3}, spends {0,1} | `LedgerBalance`, `NoOverspend`, `SettlementFinal`, `OnlyEarlyReleaseLetsBillsRaise` |
| `budget_locks` | 3 connections, 2 ordered policies, 2 requests, costs {1,3} | `NoLockCycle`; every commit is a step of Budget (`AtomicTransactions`) |
| `approval` | 2 calls gated by 1 and 2 policies, 1 held request, 1 issued approval, 2 workers, 2 versions | `SingleUse`, `ExecutionAuthorized`, `DecisionsAudited`, `OneDecision` |
| `policy_cache` | 2 writers, 2 readers, 2 writes, 2 versions, TTL 1, delay 1 | `InvalidatedIsEnforced`, `StalenessBounded` |
| `audit_chain` | 2 writers, 2 contents, 3 records, 2 periods, 1 pin, 1 corruption, pruning and archiving | `NothingLost`, `VerdictCorrect`, `BoundariesTrue`, `HeldRecordsKept` |
| `event_metering` | 2 reports of one call, 2 workers, 1 attempt, 1 retry, 1 crash | `MeteredExactlyOnce`, `ProcessedIsMetered` |
| `event_pipeline` | 1 event, 2 workers, 2 attempts, 2 retries, 1 crash, 1 reprocess | `Settles`, under fairness |
| `policy_rollout` | 2 policies, 2 change sets in opposite orders (one creates a policy, one needs an acknowledgement), 1 editor with 1 edit, 2 reviewers, 2 rollouts | `HistoryFaithful`, `AppliedOnce`, `PromotionBindsDraft`; the rollouts implement ChangeSets (`AtomicRollouts`) |
| `policy_decision` | 16 rules, 3 in force at once, 2 risk scores, 2 matches, 4 targets, every request | `EffectiveAsDocumented`, `RefusalReachesTarget`, `ApprovalReleases`, `MoreRulesNeverLoosen` |
| `shared_counters` | 3 calls at once, 6 in all, 2 windows, limit 3, amounts {1,2}, steps at 2 and 3 matches | `RateLimitHolds`, `TokensAccounted`, `QuotaOvershootBounded`, `HeldNotCounted`, `EscalationNeverRelaxes` |
| `agent_keys` | 1 agent id, 1 install, 2 requests, 1 portal mutation, 2 rows, 3 ticks, ttls {1,2}, lifetime 3, grace 1 | `KeyOfOwner`, `DisconnectStopsAll`, `KeyBounded`, `StopStands` |

`budget`, `approval`, `event_metering` and `agent_keys` also check their
module's type invariant `TypeOK`; those of PolicyCache, SharedCounters and
PolicyDecision are theorems.

The bounds keep what matters: a cost above, one below and one at zero against
the reservation; a limit that takes one request and one that takes two; two
accounts, the least that can be locked in two orders; three connections,
so that two admissions meet a settlement; three records, so that retention can
prune a prefix and leave a suffix; a pin on either side of a pruning; enough
retries to be used up.  In `event_metering` one retry is enough: the
failed attempt, the sweep and the second worker all occur.  Two change sets in
opposite orders can deadlock, and three of the sixteen rules are enough for one
to override, one to raise the severity and one to be decided by it (four were tried once,
with the same result).  Three calls meet at the end of a window: two that reopen it
and one that was counted before; the limit of three is not a multiple of the largest amount, two.
Two writers and two versions are enough for a late set to take the counter back to a version whose list is
cached, and one tick for a list to expire.  One agent id is enough, since ids meet in
nothing but the install's lock, and two requests with the portal's make three
writers of its row.  In `agent_keys` a portal mutation that has read an object saves it before the clock ticks
(`SavedWithinTick`, an action constraint): a bound of the run, not of the specification the theorems are about.  Liveness is checked on
one event because events meet only in the meter, where the safety run
has two.  Symmetry is used for safety and action properties only.
Deadlock checking is off where a bounded behaviour may stop (approvals, sequence
numbers, edits, calls or times used up); it is on for Budget, BudgetLocks,
EventPipeline and PolicyDecision.

One run checks what a comment says and finds the code does otherwise
(`findings` in `PROJECT.json` quotes it): in `policy_promotion`, invalidating inside a
transaction lets a reader cache the old policies under the new version for five
minutes.

Every property of a passing run has a mutant: a definition of the code replaced
by a plausible bug, under which that property fails.

### Fairness

`Settles` assumes weak fairness of each worker's steps, of the passing of time,
and of the sweep's own steps: Temporal dispatches open workflows, its schedule
starts `retry_failed_events` every five minutes and skips overlaps
(`temporal/schedules.py`), and a lost activity is noticed by its heartbeat
(`temporal/workflows.py`).  `SweepStart` has strong fairness: Temporal may refuse
a start any number of times, but not for ever.  No fairness is assumed of
ingest, failures, crashes or operators.

## 4. Proofs

All proofs are of the specification as TLC runs it, for all constants
that satisfy the module's named assumption; where a proof counts or adds up over a
constant set, the assumption says the set is finite (Budget's requests,
BudgetLocks' policies, SharedCounters' calls).  No property is
inductive as it stands; each is proved from an inductive invariant of its module.

* **BudgetProofs**.  `NoOverspend` is
  inductive once types are known: an admission either fits a limit the policy
  has had, and limits are never forgotten, or it does not touch the account; a
  settlement raises an account and its `overrun` by no less.  The floor at zero
  in `_settle` needs the case split in the lemma about `Settle`.  `LedgerBalance`
  says an account is a sum over its charges.  The sum is a recursive fold, so that
  its laws (adding a summand, replacing one) are proved first, by induction on
  how many summands there are, as the least counterexample in a set of numbers.
  Then the floor never bites, because what a charge gives back is in the sum.
* **BudgetProofs, on BudgetLocks**.  What a transaction has read of a row it has
  locked is still so when it commits (`LocksIInv`), so its commit is the step of
  Budget that reads the rows then: BudgetLocks implements Budget
  (`TransactionsAreAtomic`), and Budget's theorems carry over.  `NoLockCycle`: a
  set of transactions that all wait would hold one whose row has the fewest
  policies above it, and none of them holds a row above that one.
* **ApprovalProofs** proves its five properties from one invariant: while a
  decision runs its request is pending (`DecisionUnderLock`); an approval that
  came of a request is for that request's call (`GrantedForHeldCall`) and was
  audited (`GrantsAudited`); what a worker validated still matches its approval
  (`ValidatedBacked`), because a granted approval changes only in being consumed
  or expiring; and so does what ran (`ExecutedBacked`).  `OneDecision` follows from
  the decision lock.
* **PolicyEngineProofs, on PolicyCache** proves both properties for all writers, in
  transactions too, with every failure of the cache.  Nothing is cached, and
  nobody reads, under a version the counter never had (`TypeOK`, proved together with the
  rest); whatever is cached or was queried under a version has what had landed as the
  counter first came to it (`LandedInv`), wherever the counter goes later, because a list is stored
  under the key made before its query; and it is no older than its remaining
  ticks, or its reader's delay, tell (`AgeInv`).
* **PolicyEngineProofs, on PolicySaves** proves `SavedIsEnforced` for autocommit
  writers.  What is settled is what landed by the highest version the counter has
  had (`SavesInv`): a save is committed before its invalidation, so a new version lands
  it.  An evaluation is promised no more than what landed by the version it read, which
  `LandedInv` gives it.
* **PolicyEngineProofs, on PolicyDecision** proves all four.  The
  policies in force are the merge of the rules (`DecisionInv`); the rest is about
  operators.  The merge is a fold over a sorted sequence: a sorted sequence exists
  (the place of a policy is the number of those before it), the fold's recursive
  function has the value `Kept` on every set of places, and so the last policy of
  each key is left (`MergeIs`), which the key and the order make what the documentation
  says.  A set of failures that grows never lowers the severity, a
  higher severity reaches no fewer actions, and so no decision that refuses stops to
  (`DecisionsRise`); from redact to require_approval it changes only where a rule
  escalates so, which is why two of the properties except such rules.
* **PolicyRolloutProofs** proves that rollouts implement ChangeSets
  (`RolloutsAreAtomic`): what a rollout has read of a locked policy stands until it
  commits, and what it has written others do not see.  The other three
  hold policy by policy, for those no overlapping save tore: the revision of the
  version is the content, versions only grow, and so the versions a change set was
  drafted on are gone once it has been promoted.
* **AuditChainProofs** proves all four.  Unless it was corrupted, the log is what
  was appended after the last boundary, of which the head is the last, and
  every writer that holds the head's lock extends it by one.  That verification
  reports a change is a walk down from the head, once more by a least
  counterexample: the hash of each record fixes all the records before it.
* **EventPipelineProofs** proves the safety half.  What a worker that holds a call's advisory
  lock has seen of the meter is what is there; the meter holds the largest of the
  reports counted; and a status of "processed" is only ever written by a worker
  whose event was metered.
* **AgentKeysProofs** proves all five.  A request's copy of a row may be stale,
  but not in everything: who owns the row it read, by its primary key (`Known`),
  never changes; a mint runs under its install's lock, so the install is connected
  until it is done.  A row that was recorded and is yet to be committed replaces the row it was
  decided on, because nobody else writes that one meanwhile (`PendingOK`).  The expiry a row remembers
  having audited is never later than what its records show (`audited <= shown`, in `KeyEnds`):
  the record of a row that is lost can only add to what is shown.
* **SharedCountersProofs** proves all five.  The counter is never below
  what its window admitted (`CountCoversAdmitted`); those who read it before it was
  raised are at most the other calls, each of which asks for no more than the largest use that
  fits (`Room` in `QuotaInv`); no decision made is
  stronger than what the next match will find (`MatchInv`); and a day's counter is
  what it admitted plus what is still to be given back (`DayInv`, with the
  sums proved as in BudgetProofs).

Model-checked only: `Settles`, which is liveness under fairness and out of the prover's
reach, like `ENABLED`.  `SavedIsEnforced` of writers in transactions fails, as the run
`policy_promotion` shows.
Induction over data is out of its reach through the library's theorems, which
take an operator.  That is why the sums, the merge and the walk down a chain are
inductions over a set of numbers, and why only what the properties need is proved
of a fold.

## 5. Assumptions and what is left out

* **Budget**: amounts are small naturals for 10⁻⁸ dollars; pricing is a choice
  of amount; one month per admission.  **BudgetLocks**: one period, policies keep their
  settings, policies are numbered in the order the code sorts them by.
* **Approval**: a call is tenant, workload, subject, action and digest together; the
  issue view's approval whose audit write failed is never returned, so it is no step.
* **PolicyCache**: one tenant and one cache key per version; time is counted in ticks, and an
  evaluation takes at most `Delay` of them from its query to its `cache.set`, for any
  delay; a failing read of the cache fails the evaluation and is no step.  A counter that was lost comes
  back at any lower value.  The theorem `SavedPoliciesAreEnforced` is
  about autocommit writers only.
* **AuditChain**: SHA-256 is injective and signatures are exact; verification up
  to a chosen end, hash version 1 and future-dated holds are left out; pins at
  sequence 0 are excluded from `VerdictCorrect` because the code reads them as
  broken.
* **EventPipeline**: usage events of one category, one token count per report;
  the retry and attempt limits (5 and 6 in the code) are constants; crashes and reprocesses are
  bounded; an activity that outlives its heartbeat is not modelled; a reprocess
  is one step.
* **PolicyRollout**: a content is a configuration and an enabled flag; each edit is
  made once; validation of a change set's items is a choice; advice on weakening
  changes is left out.
* **PolicyDecision**: what an evaluator says of the call is an input, and its own
  warnings score nothing; ladders satisfy what `normalize_escalation` checks; no policy type is called
  "independent" (none in PolicyType is), which would be a key of the merge's own; a token stands for
  a valid approval (Approval); the query for the workload's policies, traces,
  incidents and notifications are left out; one held call with counts to come at a time.
* **SharedCounters**: the cache's incr is atomic and fails when the counter is not
  there; an expiry is the end of a window; one counter per behaviour, so that a session's
  six counters are not told apart and its use is of one of them.
* **AgentKeys**: a mint or renewal holds the row's lock from its record to its commit, and a
  transaction that fails leaves nothing but the record; other installs' rows are played by the bootstrap token's and the
  operator's; portal creation, the offline status, health and heartbeats, containment of tools
  and the issue of bootstrap tokens are left out; expiries are small numbers.

### Not modelled

The gateway is a process in Go of its own; its streams and provider-key cache have
not been modelled yet.  The GraphQL schema, queries, types, migrations, admin and most API views
read or write rows one at a time, with no protocol among them: they are the larger
part of the code's lines, and a model of them would restate them.  Evaluators, content scanning,
authentication and pricing are pure functions of one request.  Billing
export, webhooks and notifications are I/O.  Licences are arithmetic on stored counts.

## 6. Plan

Done: Budget, BudgetLocks, Approval, PolicyCache and PolicySaves, AuditChain, EventPipeline, ChangeSets and
PolicyRollout, PolicyDecision, SharedCounters, AgentKeys, and a theorem for every
safety property their passing runs check.  Next, in order of importance:

1. **Outbox**: the projection outbox and its dispatcher, whose fifth attempt may
   be started and lost (tasks/events.py:202).
2. **Evaluate**: Approval, Budget and PolicyDecision composed as one admission.
3. **AgentControl**: an approval consumed in one transaction for a change made in another.
4. **Gateway**: the provider-key cache and the streaming cut-off.
