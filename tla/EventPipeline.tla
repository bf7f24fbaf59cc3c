--------------------------- MODULE EventPipeline ---------------------------
(***************************************************************************)
(* From an accepted usage event to its metrics: batches run as Temporal    *)
(* workflows, the sweep that recovers events, and the dead letter queue.   *)
(*   api/views/events.py, tasks/events.py, tasks/scheduled.py,             *)
(*   services/event_store.py DeadLetterQueue, services/usage_ingest.py,    *)
(*   temporal/client.py, temporal/workflows.py                             *)
(*                                                                         *)
(* All events are of one category and of a usage type; a report is its     *)
(* token count.  Workers and the sweep act on objects they read earlier:   *)
(* every save writes what the object says, not what the row says by then.  *)
(***************************************************************************)
EXTENDS Integers, FiniteSets

CONSTANTS
  Events,       \* producer events; a redelivered one is the same event
  Keys,         \* idempotency keys: one metered model call each
  Key,          \* [Events -> Keys]: the agent and the gateway report one call
  Count,        \* [Events -> Nat], the tokens an event reports
  Slots,        \* bound on the process_event_batch workflows open at once
  Nobody,       \* no event, no lock holder
  MaxRetries,   \* DeadLetterQueue.MAX_RETRIES (5 in the code)
  MaxAttempts,  \* attempts of the activity (6 in the code)
  MaxCrashes,   \* bound on lost workers and sweeps
  MaxReprocess  \* bound on operators' retries from the dead letter queue

ASSUME PipelineAssumption ==
  /\ Key \in [Events -> Keys]
  /\ Count \in [Events -> Nat]
  /\ Nobody \notin Slots /\ Nobody \notin Events
  /\ MaxRetries \in Nat \ {0} /\ MaxAttempts \in Nat \ {0}
  /\ MaxCrashes \in Nat /\ MaxReprocess \in Nat

VARIABLES
  invalid,      \* SUBSET Events: what their producers sent raises InvalidUsage
  status,       \* [Events -> ...], Event.status; "absent" before the row exists
  retries,      \* [Events -> Nat], Event.retry_count
  age,          \* [Events -> 0..2], since received_at: fresh, past
                \*   STALE_PENDING_AFTER, past STALE_PROCESSING_AFTER
  jobs,         \* [Slots -> Job], the open workflows
  sweep,        \* the run of retry_failed_events
  locks,        \* [Keys -> Slots \cup {Nobody}], pg_advisory_xact_lock
  usage,        \* [Keys -> Usage], the UsageMetric rows of a call, summed
  crashes,      \* history: lost workers and sweeps
  reprocessed,  \* history: retries from the dead letter queue
  metered       \* history: events whose metering committed

vars == <<invalid, status, retries, age, jobs, sweep, locks, usage, crashes,
          reprocessed, metered>>

Statuses == {"absent", "pending", "processing", "processed", "failed"}

Usage == [requests : Nat, tokens : Nat]
Nothing == [requests |-> 0, tokens |-> 0]

Job == [stage : {"free", "queued", "selected", "handling", "locked", "metered"},
        ids : SUBSET Events, attempt : 0..MaxAttempts,
        todo : SUBSET Events, read : [Events -> Nat],
        event : Events \cup {Nobody}, seen : Usage]

Unread == [e \in Events |-> 0]
NoJob == [stage |-> "free", ids |-> {}, attempt |-> 0, todo |-> {},
          read |-> Unread, event |-> Nobody, seen |-> Nothing]
Started(ids, attempt) == [NoJob EXCEPT !.stage = "queued", !.ids = ids,
                                       !.attempt = attempt]

Sweep == [stage : {"idle", "marking", "requeuing"}, todo : SUBSET Events,
          read : [Events -> Nat], ids : SUBSET Events]
NoSweep == [stage |-> "idle", todo |-> {}, read |-> Unread, ids |-> {}]

Read(objects) == [e \in Events |-> IF e \in objects THEN retries[e] ELSE 0]

Init ==
  /\ invalid \in SUBSET Events
  /\ status = [e \in Events |-> "absent"]
  /\ retries = [e \in Events |-> 0]
  /\ age = [e \in Events |-> 0]
  /\ jobs = [w \in Slots |-> NoJob]
  /\ sweep = NoSweep
  /\ locks = [k \in Keys |-> Nobody]
  /\ usage = [k \in Keys |-> Nothing]
  /\ crashes = 0
  /\ reprocessed = 0
  /\ metered = {}

-----------------------------------------------------------------------------
(***************************************************************************)
(* Ingest, and starting a batch.                                           *)
(***************************************************************************)

Open(ids) == {[jobs EXCEPT ![w] = Started(ids, 1)] :
                w \in {w \in Slots : jobs[w].stage = "free"}}

\* EventsView.ingest: rows first, then the start, which an unreachable
\* Temporal, a restart or a 409 for another event of the request drops.
Accept(batch) ==
  /\ batch # {}
  /\ \A e \in batch : status[e] = "absent"
  /\ status' = [e \in Events |-> IF e \in batch THEN "pending" ELSE status[e]]
  /\ jobs' \in {jobs} \cup Open(batch)
  /\ UNCHANGED <<invalid, retries, age, sweep, locks, usage, crashes,
                 reprocessed, metered>>

Age(e) ==
  /\ status[e] # "absent"
  /\ age[e] < 2
  /\ age' = [age EXCEPT ![e] = @ + 1]
  /\ UNCHANGED <<invalid, status, retries, jobs, sweep, locks, usage, crashes,
                 reprocessed, metered>>

-----------------------------------------------------------------------------
(***************************************************************************)
(* process_event_batch: one attempt of the activity.                       *)
(***************************************************************************)

\* The next event of the batch, or the workflow completes.
NextEvent(job) == IF job.todo = {} THEN NoJob
                  ELSE [job EXCEPT !.stage = "selected", !.event = Nobody,
                                   !.seen = Nothing]

\* An attempt that raised or was lost: Temporal runs another, up to a limit.
EndAttempt(job) == IF job.attempt = MaxAttempts THEN NoJob
                   ELSE Started(job.ids, job.attempt + 1)

Released(w) == [k \in Keys |-> IF locks[k] = w THEN Nobody ELSE locks[k]]

Select(w) ==
  LET pending == {e \in jobs[w].ids : status[e] = "pending"}
  IN  /\ jobs[w].stage = "queued"
      /\ jobs' = [jobs EXCEPT ![w] =
                    NextEvent([@ EXCEPT !.todo = pending,
                                        !.read = Read(pending)])]
      /\ UNCHANGED <<invalid, status, retries, age, sweep, locks, usage,
                     crashes, reprocessed, metered>>

BeginEvent(w, e) ==
  /\ jobs[w].stage = "selected"
  /\ e \in jobs[w].todo
  /\ status' = [status EXCEPT ![e] = "processing"]
  /\ jobs' = [jobs EXCEPT ![w].stage = "handling", ![w].event = e,
                          ![w].todo = @ \ {e}]
  /\ UNCHANGED <<invalid, retries, age, sweep, locks, usage, crashes,
                 reprocessed, metered>>

\* InvalidUsage: straight to the dead letter queue.
Reject(w) ==
  LET e == jobs[w].event
  IN  /\ jobs[w].stage = "handling"
      /\ e \in invalid
      /\ status' = [status EXCEPT ![e] = "failed"]
      /\ retries' = [retries EXCEPT ![e] = MaxRetries]
      /\ jobs' = [jobs EXCEPT ![w] = NextEvent(@)]
      /\ UNCHANGED <<invalid, age, sweep, locks, usage, crashes, reprocessed,
                     metered>>

\* Faulty: looks the call up without the advisory lock.
LookUpUsage(w) ==
  /\ jobs[w].stage = "handling"
  /\ jobs[w].event \notin invalid
  /\ jobs' = [jobs EXCEPT ![w].stage = "locked",
                          ![w].seen = usage[Key[jobs[w].event]]]
  /\ UNCHANGED <<invalid, status, retries, age, sweep, locks, usage, crashes,
                 reprocessed, metered>>

\* record_usage_event: lock the call, then see what is recorded of it.
LockUsage(w) ==
  LET k == Key[jobs[w].event]
  IN  /\ jobs[w].stage = "handling"
      /\ jobs[w].event \notin invalid
      /\ locks[k] = Nobody
      /\ locks' = [locks EXCEPT ![k] = w]
      /\ jobs' = [jobs EXCEPT ![w].stage = "locked", ![w].seen = usage[k]]
      /\ UNCHANGED <<invalid, status, retries, age, sweep, usage, crashes,
                     reprocessed, metered>>

\* The first report records the call; a repeat only what it raises.
Recorded(seen, count) ==
  IF seen.requests = 0 THEN [requests |-> 1, tokens |-> count]
  ELSE [requests |-> 0,
        tokens |-> IF count > seen.tokens THEN count - seen.tokens ELSE 0]

Meter(w) ==
  LET e == jobs[w].event
      k == Key[e]
      new == Recorded(jobs[w].seen, Count[e])
  IN  /\ jobs[w].stage = "locked"
      /\ usage' = [usage EXCEPT ![k] = [requests |-> @.requests + new.requests,
                                        tokens |-> @.tokens + new.tokens]]
      /\ metered' = metered \cup {e}
      /\ locks' = Released(w)
      /\ jobs' = [jobs EXCEPT ![w].stage = "metered"]
      /\ UNCHANGED <<invalid, status, retries, age, sweep, crashes,
                     reprocessed>>

\* The interaction row and the budget charge are settled: mark_processed.
Finish(w) ==
  /\ jobs[w].stage = "metered"
  /\ status' = [status EXCEPT ![jobs[w].event] = "processed"]
  /\ jobs' = [jobs EXCEPT ![w] = NextEvent(@)]
  /\ UNCHANGED <<invalid, retries, age, sweep, locks, usage, crashes,
                 reprocessed, metered>>

Handling(w) == jobs[w].stage \in {"handling", "locked", "metered"}

\* Faulty: a failure is swallowed and the event marked processed.
FailSwallowed(w) ==
  /\ Handling(w)
  /\ status' = [status EXCEPT ![jobs[w].event] = "processed"]
  /\ locks' = Released(w)
  /\ jobs' = [jobs EXCEPT ![w] = NextEvent(@)]
  /\ UNCHANGED <<invalid, retries, age, sweep, usage, crashes, reprocessed,
                 metered>>

\* Any other exception: mark_failed from the object, then the attempt ends
\* with the rest of its events untouched, or the event is dead-lettered.
Fail(w) ==
  LET e == jobs[w].event
      count == jobs[w].read[e] + 1
  IN  /\ Handling(w)
      /\ status' = [status EXCEPT ![e] = "failed"]
      /\ retries' = [retries EXCEPT ![e] = count]
      /\ locks' = Released(w)
      /\ jobs' = [jobs EXCEPT ![w] = IF count < MaxRetries THEN EndAttempt(@)
                                     ELSE NextEvent(@)]
      /\ UNCHANGED <<invalid, age, sweep, usage, crashes, reprocessed,
                     metered>>

\* The worker is lost: its transaction rolls back, the heartbeat times out.
Crash(w) ==
  /\ crashes < MaxCrashes
  /\ jobs[w].stage \notin {"free", "queued"}
  /\ locks' = Released(w)
  /\ jobs' = [jobs EXCEPT ![w] = EndAttempt(@)]
  /\ crashes' = crashes + 1
  /\ UNCHANGED <<invalid, status, retries, age, sweep, usage, reprocessed,
                 metered>>

-----------------------------------------------------------------------------
(***************************************************************************)
(* retry_failed_events, one run at a time: the stranded first, then requeue.  *)
(***************************************************************************)
Stranded(e) == status[e] = "processing" /\ age[e] = 2

SweepBegin ==
  LET stranded == {e \in Events : Stranded(e)}
  IN  /\ sweep.stage = "idle"
      /\ sweep' = [NoSweep EXCEPT !.stage = "marking", !.todo = stranded,
                                  !.read = Read(stranded)]
      /\ UNCHANGED <<invalid, status, retries, age, jobs, locks, usage,
                     crashes, reprocessed, metered>>

SweepMark(e) ==
  /\ sweep.stage = "marking"
  /\ e \in sweep.todo
  /\ status' = [status EXCEPT ![e] = "failed"]
  /\ retries' = [retries EXCEPT ![e] = sweep.read[e] + 1]
  /\ sweep' = [sweep EXCEPT !.todo = @ \ {e}]
  /\ UNCHANGED <<invalid, age, jobs, locks, usage, crashes, reprocessed,
                 metered>>

Retryable(e) == status[e] = "failed" /\ retries[e] < MaxRetries
StalePending(e) == status[e] = "pending" /\ age[e] >= 1

\* Faulty: only failed events are requeued, not those whose start was dropped.
SweepSelectFailed ==
  LET failed == {e \in Events : Retryable(e)}
  IN  /\ sweep.stage = "marking" /\ sweep.todo = {}
      /\ sweep' = IF failed = {} THEN NoSweep
                  ELSE [NoSweep EXCEPT !.stage = "requeuing", !.todo = failed,
                                       !.ids = failed]
      /\ UNCHANGED <<invalid, status, retries, age, jobs, locks, usage,
                     crashes, reprocessed, metered>>

SweepSelect ==
  LET failed  == {e \in Events : Retryable(e)}
      pending == {e \in Events : StalePending(e)}
  IN  /\ sweep.stage = "marking" /\ sweep.todo = {}
      /\ sweep' = IF failed \cup pending = {} THEN NoSweep
                  ELSE [NoSweep EXCEPT !.stage = "requeuing", !.todo = failed,
                                       !.ids = failed \cup pending]
      /\ UNCHANGED <<invalid, status, retries, age, jobs, locks, usage,
                     crashes, reprocessed, metered>>

SweepReset(e) ==
  /\ sweep.stage = "requeuing"
  /\ e \in sweep.todo
  /\ status' = [status EXCEPT ![e] = "pending"]
  /\ sweep' = [sweep EXCEPT !.todo = @ \ {e}]
  /\ UNCHANGED <<invalid, retries, age, jobs, locks, usage, crashes,
                 reprocessed, metered>>

\* The start is accepted, or raises and the run ends.
SweepStart ==
  /\ sweep.stage = "requeuing" /\ sweep.todo = {}
  /\ jobs' \in Open(sweep.ids)
  /\ sweep' = NoSweep
  /\ UNCHANGED <<invalid, status, retries, age, locks, usage, crashes,
                 reprocessed, metered>>

SweepRefused ==
  /\ sweep.stage = "requeuing" /\ sweep.todo = {}
  /\ sweep' = NoSweep
  /\ UNCHANGED <<invalid, status, retries, age, jobs, locks, usage, crashes,
                 reprocessed, metered>>

SweepCrash ==
  /\ crashes < MaxCrashes
  /\ sweep.stage # "idle"
  /\ sweep' = NoSweep
  /\ crashes' = crashes + 1
  /\ UNCHANGED <<invalid, status, retries, age, jobs, locks, usage,
                 reprocessed, metered>>

-----------------------------------------------------------------------------
DeadLettered(e) == status[e] = "failed" /\ retries[e] >= MaxRetries

\* DeadLetterQueue.reprocess: a full save of a clean object, then the start.
Reprocess(e) ==
  /\ reprocessed < MaxReprocess
  /\ DeadLettered(e)
  /\ status' = [status EXCEPT ![e] = "pending"]
  /\ retries' = [retries EXCEPT ![e] = 0]
  /\ jobs' \in {jobs} \cup Open({e})
  /\ reprocessed' = reprocessed + 1
  /\ UNCHANGED <<invalid, age, sweep, locks, usage, crashes, metered>>

WorkerStep(w) ==
  \/ Select(w)
  \/ \E e \in Events : BeginEvent(w, e)
  \/ Reject(w)
  \/ LockUsage(w)
  \/ Meter(w)
  \/ Finish(w)
  \/ Fail(w)

SweepStep ==
  \/ SweepBegin
  \/ \E e \in Events : SweepMark(e)
  \/ SweepSelect
  \/ \E e \in Events : SweepReset(e)

Next ==
  \/ \E batch \in SUBSET Events : Accept(batch)
  \/ \E e \in Events : Age(e)
  \/ \E w \in Slots : WorkerStep(w)
  \/ \E w \in Slots : Crash(w)
  \/ SweepStep
  \/ SweepStart
  \/ SweepRefused
  \/ SweepCrash
  \/ \E e \in Events : Reprocess(e)

\* Workers work, the schedule fires every five minutes, time passes, and an
\* unreachable Temporal is reachable again.
Fairness ==
  /\ \A w \in Slots : WF_vars(WorkerStep(w))
  /\ \A e \in Events : WF_vars(Age(e))
  /\ WF_vars(SweepStep)
  /\ SF_vars(SweepStart)

Spec == Init /\ [][Next]_vars /\ Fairness

-----------------------------------------------------------------------------
(***************************************************************************)
(* Properties.                                                             *)
(***************************************************************************)

\* Types, and a call's advisory lock is held by the one worker metering it.
TypeOK ==
  /\ invalid \subseteq Events
  /\ status \in [Events -> Statuses]
  /\ retries \in [Events -> Nat]
  /\ age \in [Events -> 0..2]
  /\ jobs \in [Slots -> Job]
  /\ sweep \in Sweep
  /\ locks \in [Keys -> Slots \cup {Nobody}]
  /\ usage \in [Keys -> Usage]
  /\ crashes \in 0..MaxCrashes
  /\ reprocessed \in 0..MaxReprocess
  /\ metered \subseteq Events
  /\ \A w \in Slots, k \in Keys :
       locks[k] = w <=> (jobs[w].stage = "locked" /\ Key[jobs[w].event] = k)

\* "Meter one usage event exactly once": however often a call's events are
\* retried, requeued, crashed over or handled by two workers at once, the call
\* is counted once, with the largest count that was reported for it.
MeteredExactlyOnce ==
  \A k \in Keys :
    LET reports == {Count[e] : e \in {e \in metered : Key[e] = k}}
    IN  IF reports = {} THEN usage[k] = Nothing
        ELSE /\ usage[k].requests = 1
             /\ usage[k].tokens \in reports
             /\ \A count \in reports : count <= usage[k].tokens

\* No event reads as processed before its usage is in the meter, whichever of
\* several workers with stale copies of the row wrote the status last.
ProcessedIsMetered ==
  \A e \in Events : status[e] = "processed" => e \in metered

\* Every accepted event ends up processed or in the dead letter queue and stays
\* there, whatever starts were dropped, workers lost or statuses overwritten.
Settles ==
  \A e \in Events :
    status[e] # "absent" ~> [](status[e] = "processed" \/ DeadLettered(e))
=============================================================================
