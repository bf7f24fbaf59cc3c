------------------------- MODULE EventPipelineProofs -------------------------
(***************************************************************************)
(* A call is metered exactly once and no event reads as processed before   *)
(* it is, for any number of events, calls, workers, retries and crashes.   *)
(***************************************************************************)
EXTENDS EventPipeline, TLAPS

StateTypes ==
  /\ invalid \subseteq Events
  /\ status \in [Events -> Statuses]
  /\ retries \in [Events -> Nat]
  /\ age \in [Events -> 0..2]
  /\ jobs \in [Slots -> Job]
  /\ sweep \in Sweep
  /\ locks \in [Keys -> Slots \cup {Nobody}]
  /\ usage \in [Keys -> Usage]
  /\ crashes \in 0..MaxCrashes
  /\ reprocessed \in 0..MaxReprocess
  /\ metered \subseteq Events

\* A call's advisory lock is held by the worker that is metering it.
LocksHeld ==
  \A w \in Slots, k \in Keys :
    locks[k] = w <=> (jobs[w].stage = "locked" /\ Key[jobs[w].event] = k)

\* What a worker saw of a call it has locked is still what is recorded, and
\* what it has metered is in the meter.
JobsTrue ==
  \A w \in Slots :
    /\ jobs[w].stage \in {"handling", "locked", "metered"} => jobs[w].event \in Events
    /\ jobs[w].stage = "locked" => jobs[w].seen = usage[Key[jobs[w].event]]
    /\ jobs[w].stage = "metered" => jobs[w].event \in metered

IInv ==
  /\ StateTypes
  /\ LocksHeld
  /\ JobsTrue
  /\ MeteredExactlyOnce
  /\ ProcessedIsMetered

-----------------------------------------------------------------------------
(***************************************************************************)
(* Jobs.                                                                   *)
(***************************************************************************)

\* A workflow that ends leaves its slot free.
LEMMA NoJobIsFree == NoJob \in Job /\ NoJob.stage = "free"
<1>1. Unread \in [Events -> Nat] /\ Nothing \in Usage /\ 0 \in 0..MaxAttempts
  BY PipelineAssumption DEF Unread, Nothing, Usage
<1> QED
  BY <1>1 DEF NoJob, Job

\* A batch that is started is queued.
LEMMA StartedIsQueued ==
  ASSUME NEW ids \in SUBSET Events, NEW attempt \in 0..MaxAttempts
  PROVE  Started(ids, attempt) \in Job /\ Started(ids, attempt).stage = "queued"
<1>1. NoJob \in Job
  BY NoJobIsFree
<1> QED
  BY <1>1 DEF Started, Job

LEMMA NextEventRests ==
  ASSUME NEW job \in Job
  PROVE  NextEvent(job) \in Job /\ NextEvent(job).stage \in {"free", "selected"}
<1>1. CASE job.todo = {}
  BY <1>1, NoJobIsFree DEF NextEvent
<1>2. CASE job.todo # {}
  <2>1. Nothing \in Usage
    BY DEF Nothing, Usage
  <2>2. NextEvent(job) = [job EXCEPT !.stage = "selected", !.event = Nobody,
                                     !.seen = Nothing]
    BY <1>2 DEF NextEvent
  <2> QED
    BY <2>1, <2>2 DEF Job
<1> QED
  BY <1>1, <1>2

LEMMA EndAttemptRests ==
  ASSUME NEW job \in Job
  PROVE  EndAttempt(job) \in Job /\ EndAttempt(job).stage \in {"free", "queued"}
<1>1. CASE job.attempt = MaxAttempts
  BY <1>1, NoJobIsFree DEF EndAttempt
<1>2. CASE job.attempt # MaxAttempts
  <2>1. job.attempt + 1 \in 0..MaxAttempts /\ job.ids \in SUBSET Events
    BY <1>2, PipelineAssumption DEF Job
  <2> QED
    BY <1>2, <2>1, StartedIsQueued DEF EndAttempt
<1> QED
  BY <1>1, <1>2

LEMMA ReadType ==
  ASSUME StateTypes, NEW objects
  PROVE  Read(objects) \in [Events -> Nat]
BY DEF StateTypes, Read

\* A worker that does not lock a call, or a slot that is taken: a lock it had
\* is released with it, and what others have locked stands.
LEMMA JobMoves ==
  ASSUME StateTypes, LocksHeld, JobsTrue,
         NEW w \in Slots, NEW job \in Job,
         job.stage # "locked",
         job.stage \in {"handling", "metered"} => job.event \in Events,
         job.stage = "metered" => job.event \in metered',
         jobs' = [jobs EXCEPT ![w] = job],
         \/ locks' = Released(w)
         \/ locks' = locks /\ jobs[w].stage # "locked",
         metered \subseteq metered',
         \A v \in Slots \ {w} : jobs[v].stage = "locked" =>
           usage'[Key[jobs[v].event]] = usage[Key[jobs[v].event]]
  PROVE  /\ jobs' \in [Slots -> Job]
         /\ locks' \in [Keys -> Slots \cup {Nobody}]
         /\ LocksHeld'
         /\ JobsTrue'
<1>1. jobs \in [Slots -> Job] /\ locks \in [Keys -> Slots \cup {Nobody}]
  BY DEF StateTypes
<1>2. jobs' \in [Slots -> Job]
      /\ \A v \in Slots : jobs'[v] = IF v = w THEN job ELSE jobs[v]
  BY <1>1
<1>3. locks' \in [Keys -> Slots \cup {Nobody}]
  BY <1>1 DEF Released
<1>4. \A k \in Keys : locks'[k] = IF locks[k] = w THEN Nobody ELSE locks[k]
  BY <1>1 DEF Released, LocksHeld
<1>5. LocksHeld'
  <2>1. SUFFICES ASSUME NEW v \in Slots, NEW k \in Keys
                 PROVE  locks'[k] = v <=>
                          (jobs'[v].stage = "locked" /\ Key[jobs'[v].event] = k)
    BY DEF LocksHeld
  <2>2. CASE v = w
    BY <1>2, <1>4, <2>2, PipelineAssumption
  <2>3. CASE v # w
    <3>1. locks'[k] = v <=> locks[k] = v
      BY <1>4, <2>3, PipelineAssumption
    <3>2. jobs'[v] = jobs[v]
      BY <1>2, <2>3
    <3> QED
      BY <3>1, <3>2 DEF LocksHeld
  <2> QED
    BY <2>2, <2>3
<1>6. JobsTrue'
  <2>1. SUFFICES ASSUME NEW v \in Slots
                 PROVE  /\ jobs'[v].stage \in {"handling", "locked", "metered"} =>
                             jobs'[v].event \in Events
                        /\ jobs'[v].stage = "locked" =>
                             jobs'[v].seen = usage'[Key[jobs'[v].event]]
                        /\ jobs'[v].stage = "metered" => jobs'[v].event \in metered'
    BY DEF JobsTrue
  <2>2. CASE v = w
    BY <1>2, <2>2
  <2>3. CASE v # w
    BY <1>2, <2>3 DEF JobsTrue
  <2> QED
    BY <2>2, <2>3
<1> QED
  BY <1>2, <1>3, <1>5, <1>6

\* A batch that is started, or not, takes at most a free slot.
LEMMA BatchOpens ==
  ASSUME StateTypes, LocksHeld, JobsTrue, NEW ids \in SUBSET Events,
         jobs' \in {jobs} \cup Open(ids), UNCHANGED <<locks, usage, metered>>
  PROVE  jobs' \in [Slots -> Job] /\ LocksHeld' /\ JobsTrue'
<1>1. CASE jobs' = jobs
  BY <1>1 DEF StateTypes, LocksHeld, JobsTrue
<1>2. CASE jobs' \in Open(ids)
  <2>1. PICK w \in Slots : /\ jobs[w].stage = "free"
                           /\ jobs' = [jobs EXCEPT ![w] = Started(ids, 1)]
    BY <1>2 DEF Open
  <2>2. 1 \in 0..MaxAttempts
    BY PipelineAssumption
  <2>3. Started(ids, 1) \in Job /\ Started(ids, 1).stage = "queued"
    BY <2>2, StartedIsQueued
  <2> DEFINE job == Started(ids, 1)
  <2> HIDE DEF job
  <2>4. /\ job \in Job /\ job.stage = "queued" /\ jobs' = [jobs EXCEPT ![w] = job]
    BY <2>1, <2>3 DEF job
  <2>5. job.stage # "locked" /\ job.stage \notin {"handling", "metered"}
    BY <2>4
  <2>6. locks' = locks /\ jobs[w].stage # "locked"
    BY <2>1
  <2>7. /\ metered \subseteq metered'
        /\ \A v \in Slots \ {w} : jobs[v].stage = "locked" =>
             usage'[Key[jobs[v].event]] = usage[Key[jobs[v].event]]
    OBVIOUS
  <2> QED
    BY <2>4, <2>5, <2>6, <2>7, JobMoves
<1> QED
  BY <1>1, <1>2

\* What is neither a job nor a lock nor a count.
LEMMA MeterStands ==
  ASSUME UNCHANGED <<usage, metered>>, MeteredExactlyOnce
  PROVE  MeteredExactlyOnce'
BY DEF MeteredExactlyOnce

LEMMA JobsStand ==
  ASSUME UNCHANGED <<jobs, locks, usage, metered>>, LocksHeld, JobsTrue
  PROVE  LocksHeld' /\ JobsTrue'
BY DEF LocksHeld, JobsTrue

-----------------------------------------------------------------------------
(***************************************************************************)
(* The invariant.                                                          *)
(***************************************************************************)

LEMMA IInit == Init => IInv
<1> SUFFICES ASSUME Init PROVE IInv
  OBVIOUS
<1>1. NoJob \in Job /\ NoJob.stage = "free"
  BY NoJobIsFree
<1>2. NoSweep \in Sweep /\ Nothing \in Usage
  BY DEF NoSweep, Sweep, Unread, Nothing, Usage
<1>3. \A w \in Slots : jobs[w] = NoJob
  BY DEF Init
<1>4. StateTypes
  BY <1>1, <1>2, PipelineAssumption DEF Init, StateTypes, Statuses
<1>5. LocksHeld
  BY <1>1, <1>3, PipelineAssumption DEF Init, LocksHeld
<1>6. JobsTrue
  BY <1>1, <1>3 DEF JobsTrue
<1>7. MeteredExactlyOnce
  BY DEF Init, MeteredExactlyOnce
<1>8. ProcessedIsMetered
  BY DEF Init, ProcessedIsMetered
<1> QED
  BY <1>4, <1>5, <1>6, <1>7, <1>8 DEF IInv

\* Ingest, and the retry of a dead letter.
LEMMA IngestSteps ==
  ASSUME IInv,
         \/ \E batch \in SUBSET Events : Accept(batch)
         \/ \E e \in Events : Reprocess(e)
         \/ \E e \in Events : Age(e)
  PROVE  IInv'
<1>1. StateTypes /\ LocksHeld /\ JobsTrue /\ MeteredExactlyOnce /\ ProcessedIsMetered
  BY DEF IInv
<1>2. ASSUME NEW batch \in SUBSET Events, Accept(batch) PROVE IInv'
  <2>1. /\ status' = [e \in Events |-> IF e \in batch THEN "pending" ELSE status[e]]
        /\ jobs' \in {jobs} \cup Open(batch)
        /\ UNCHANGED <<invalid, retries, age, sweep, locks, usage, crashes,
                       reprocessed, metered>>
    BY <1>2 DEF Accept
  <2>2. jobs' \in [Slots -> Job] /\ LocksHeld' /\ JobsTrue'
    BY <1>1, <2>1, BatchOpens
  <2>3. status' \in [Events -> Statuses]
    BY <1>1, <2>1 DEF StateTypes, Statuses
  <2>4. StateTypes'
    BY <1>1, <2>1, <2>2, <2>3 DEF StateTypes
  <2>5. ProcessedIsMetered'
    BY <1>1, <2>1 DEF ProcessedIsMetered
  <2>6. MeteredExactlyOnce'
    BY <1>1, <2>1, MeterStands
  <2> QED
    BY <2>2, <2>4, <2>5, <2>6 DEF IInv
<1>3. ASSUME NEW e \in Events, Reprocess(e) PROVE IInv'
  <2>1. /\ status' = [status EXCEPT ![e] = "pending"]
        /\ retries' = [retries EXCEPT ![e] = 0]
        /\ jobs' \in {jobs} \cup Open({e})
        /\ reprocessed < MaxReprocess /\ reprocessed' = reprocessed + 1
        /\ UNCHANGED <<invalid, age, sweep, locks, usage, crashes, metered>>
    BY <1>3 DEF Reprocess
  <2>2. jobs' \in [Slots -> Job] /\ LocksHeld' /\ JobsTrue'
    <3>1. {e} \in SUBSET Events
      OBVIOUS
    <3> QED
      BY <1>1, <2>1, <3>1, BatchOpens
  <2>3. /\ status' \in [Events -> Statuses] /\ retries' \in [Events -> Nat]
        /\ reprocessed' \in 0..MaxReprocess
    BY <1>1, <2>1, PipelineAssumption DEF StateTypes, Statuses
  <2>4. StateTypes'
    BY <1>1, <2>1, <2>2, <2>3 DEF StateTypes
  <2>5. ProcessedIsMetered'
    BY <1>1, <2>1 DEF ProcessedIsMetered, StateTypes
  <2>6. MeteredExactlyOnce'
    BY <1>1, <2>1, MeterStands
  <2> QED
    BY <2>2, <2>4, <2>5, <2>6 DEF IInv
<1>4. ASSUME NEW e \in Events, Age(e) PROVE IInv'
  <2>1. /\ age[e] < 2 /\ age' = [age EXCEPT ![e] = @ + 1]
        /\ UNCHANGED <<invalid, status, retries, jobs, sweep, locks, usage, crashes,
                       reprocessed, metered>>
    BY <1>4 DEF Age
  <2>2. LocksHeld' /\ JobsTrue' /\ MeteredExactlyOnce'
    BY <1>1, <2>1, JobsStand, MeterStands
  <2>3. age' \in [Events -> 0..2]
    BY <1>1, <2>1 DEF StateTypes
  <2>4. StateTypes'
    BY <1>1, <2>1, <2>3 DEF StateTypes
  <2>5. ProcessedIsMetered'
    BY <1>1, <2>1 DEF ProcessedIsMetered
  <2> QED
    BY <2>2, <2>4, <2>5 DEF IInv
<1> QED
  BY <1>2, <1>3, <1>4

\* The sweep writes what its objects say, but never that an event is processed.
LEMMA SweepSteps ==
  ASSUME IInv,
         \/ SweepStep
         \/ SweepStart
         \/ SweepRefused
         \/ SweepCrash
  PROVE  IInv'
<1>1. StateTypes /\ LocksHeld /\ JobsTrue /\ MeteredExactlyOnce /\ ProcessedIsMetered
  BY DEF IInv
<1>2. UNCHANGED <<invalid, age, locks, usage, reprocessed, metered>>
  BY DEF SweepStep, SweepBegin, SweepMark, SweepSelect, SweepReset, SweepStart,
         SweepRefused, SweepCrash
<1>3. MeteredExactlyOnce'
  BY <1>1, <1>2, MeterStands
<1>4. /\ NoSweep \in Sweep
      /\ sweep \in Sweep /\ sweep.ids \in SUBSET Events
      /\ sweep.todo \in SUBSET Events /\ sweep.read \in [Events -> Nat]
  BY <1>1 DEF StateTypes, NoSweep, Sweep, Unread
<1>5. CASE SweepBegin
  <2> DEFINE stranded == {e \in Events : Stranded(e)}
  <2>1. /\ sweep' = [NoSweep EXCEPT !.stage = "marking", !.todo = stranded,
                                    !.read = Read(stranded)]
        /\ UNCHANGED <<status, retries, jobs, crashes>>
    BY <1>5 DEF SweepBegin
  <2>2. Read(stranded) \in [Events -> Nat] /\ stranded \subseteq Events
    BY <1>1, ReadType
  <2> HIDE DEF stranded
  <2>3. sweep' \in Sweep
    BY <1>4, <2>1, <2>2 DEF Sweep
  <2>4. StateTypes'
    BY <1>1, <1>2, <2>1, <2>3 DEF StateTypes
  <2>5. LocksHeld' /\ JobsTrue'
    BY <1>1, <1>2, <2>1, JobsStand
  <2>6. ProcessedIsMetered'
    BY <1>1, <1>2, <2>1 DEF ProcessedIsMetered
  <2> QED
    BY <1>3, <2>4, <2>5, <2>6 DEF IInv
<1>6. ASSUME NEW e \in Events, SweepMark(e) PROVE IInv'
  <2>1. /\ status' = [status EXCEPT ![e] = "failed"]
        /\ retries' = [retries EXCEPT ![e] = sweep.read[e] + 1]
        /\ sweep' = [sweep EXCEPT !.todo = @ \ {e}]
        /\ UNCHANGED <<jobs, crashes>>
    BY <1>6 DEF SweepMark
  <2>2. /\ status' \in [Events -> Statuses] /\ retries' \in [Events -> Nat]
        /\ sweep' \in Sweep
    BY <1>1, <1>4, <2>1 DEF StateTypes, Statuses, Sweep
  <2>3. StateTypes'
    BY <1>1, <1>2, <2>1, <2>2 DEF StateTypes
  <2>4. LocksHeld' /\ JobsTrue'
    BY <1>1, <1>2, <2>1, JobsStand
  <2>5. ProcessedIsMetered'
    BY <1>1, <1>2, <2>1 DEF ProcessedIsMetered, StateTypes
  <2> QED
    BY <1>3, <2>3, <2>4, <2>5 DEF IInv
<1>7. CASE SweepSelect
  <2> DEFINE failed == {e \in Events : Retryable(e)}
             pending == {e \in Events : StalePending(e)}
  <2>1. /\ sweep' = IF failed \cup pending = {} THEN NoSweep
                    ELSE [NoSweep EXCEPT !.stage = "requeuing", !.todo = failed,
                                         !.ids = failed \cup pending]
        /\ UNCHANGED <<status, retries, jobs, crashes>>
    BY <1>7 DEF SweepSelect
  <2>2. failed \subseteq Events /\ pending \subseteq Events
    OBVIOUS
  <2> HIDE DEF failed, pending
  <2>3. sweep' \in Sweep
    BY <1>4, <2>1, <2>2 DEF Sweep
  <2>4. StateTypes'
    BY <1>1, <1>2, <2>1, <2>3 DEF StateTypes
  <2>5. LocksHeld' /\ JobsTrue'
    BY <1>1, <1>2, <2>1, JobsStand
  <2>6. ProcessedIsMetered'
    BY <1>1, <1>2, <2>1 DEF ProcessedIsMetered
  <2> QED
    BY <1>3, <2>4, <2>5, <2>6 DEF IInv
<1>8. ASSUME NEW e \in Events, SweepReset(e) PROVE IInv'
  <2>1. /\ status' = [status EXCEPT ![e] = "pending"]
        /\ sweep' = [sweep EXCEPT !.todo = @ \ {e}]
        /\ UNCHANGED <<retries, jobs, crashes>>
    BY <1>8 DEF SweepReset
  <2>2. status' \in [Events -> Statuses] /\ sweep' \in Sweep
    BY <1>1, <1>4, <2>1 DEF StateTypes, Statuses, Sweep
  <2>3. StateTypes'
    BY <1>1, <1>2, <2>1, <2>2 DEF StateTypes
  <2>4. LocksHeld' /\ JobsTrue'
    BY <1>1, <1>2, <2>1, JobsStand
  <2>5. ProcessedIsMetered'
    BY <1>1, <1>2, <2>1 DEF ProcessedIsMetered, StateTypes
  <2> QED
    BY <1>3, <2>3, <2>4, <2>5 DEF IInv
<1>9. CASE SweepStart \/ SweepRefused \/ SweepCrash
  <2>1. /\ sweep' = NoSweep
        /\ UNCHANGED <<status, retries>>
        /\ jobs' = jobs \/ jobs' \in Open(sweep.ids)
        /\ crashes' = crashes \/ (crashes < MaxCrashes /\ crashes' = crashes + 1)
    BY <1>9 DEF SweepStart, SweepRefused, SweepCrash
  <2>2. jobs' \in [Slots -> Job] /\ LocksHeld' /\ JobsTrue'
    <3>1. jobs' \in {jobs} \cup Open(sweep.ids)
      BY <2>1
    <3> QED
      BY <1>1, <1>2, <1>4, <3>1, BatchOpens
  <2>3. crashes' \in 0..MaxCrashes
    BY <1>1, <2>1, PipelineAssumption DEF StateTypes
  <2>4. StateTypes'
    BY <1>1, <1>2, <1>4, <2>1, <2>2, <2>3 DEF StateTypes
  <2>5. ProcessedIsMetered'
    BY <1>1, <1>2, <2>1 DEF ProcessedIsMetered
  <2> QED
    BY <1>3, <2>2, <2>4, <2>5 DEF IInv
<1> QED
  BY <1>5, <1>6, <1>7, <1>8, <1>9 DEF SweepStep

\* A worker takes its batch, an event of it, and gives it up or puts it down.
LEMMA WorkerSteps ==
  ASSUME IInv, NEW w \in Slots,
         \/ Select(w)
         \/ \E e \in Events : BeginEvent(w, e)
         \/ Reject(w)
         \/ Finish(w)
         \/ Fail(w)
         \/ Crash(w)
  PROVE  IInv'
<1>1. StateTypes /\ LocksHeld /\ JobsTrue /\ MeteredExactlyOnce /\ ProcessedIsMetered
  BY DEF IInv
<1>2. UNCHANGED <<invalid, age, sweep, usage, reprocessed, metered>>
  BY DEF Select, BeginEvent, Reject, Finish, Fail, Crash
<1>3. MeteredExactlyOnce'
  BY <1>1, <1>2, MeterStands
<1>4. /\ jobs \in [Slots -> Job] /\ jobs[w] \in Job /\ status \in [Events -> Statuses]
      /\ retries \in [Events -> Nat] /\ metered' = metered
      /\ jobs[w].read \in [Events -> Nat] /\ jobs[w].todo \in SUBSET Events
  BY <1>1, <1>2 DEF StateTypes, Job
<1>5. /\ jobs[w].stage \in {"handling", "locked", "metered"} => jobs[w].event \in Events
      /\ jobs[w].stage = "metered" => jobs[w].event \in metered
  BY <1>1 DEF JobsTrue
\* What is left to show of each: the new job, the lock, and the status.
<1>6. ASSUME NEW job \in Job,
             job.stage \in {"free", "queued", "selected", "handling"},
             job.stage = "handling" => job.event \in Events,
             jobs' = [jobs EXCEPT ![w] = job],
             \/ locks' = Released(w)
             \/ locks' = locks /\ jobs[w].stage # "locked",
             status' \in [Events -> Statuses], retries' \in [Events -> Nat],
             crashes' \in 0..MaxCrashes,
             \A e \in Events : status'[e] = "processed" =>
               status[e] = "processed" \/ e \in metered
      PROVE  IInv'
  <2>1. /\ job.stage # "locked"
        /\ job.stage \in {"handling", "metered"} => job.event \in Events
        /\ job.stage = "metered" => job.event \in metered'
    BY <1>6
  <2>2. /\ metered \subseteq metered'
        /\ \A v \in Slots \ {w} : jobs[v].stage = "locked" =>
             usage'[Key[jobs[v].event]] = usage[Key[jobs[v].event]]
    BY <1>2
  <2>3. \/ locks' = Released(w)
        \/ locks' = locks /\ jobs[w].stage # "locked"
    BY <1>6
  <2>4. /\ jobs' \in [Slots -> Job]
        /\ locks' \in [Keys -> Slots \cup {Nobody}]
        /\ LocksHeld'
        /\ JobsTrue'
    BY <1>1, <1>6, <2>1, <2>2, <2>3, JobMoves
  <2>5. StateTypes'
    BY <1>1, <1>2, <1>6, <2>4 DEF StateTypes
  <2>6. ProcessedIsMetered'
    BY <1>1, <1>2, <1>6 DEF ProcessedIsMetered
  <2> QED
    BY <1>3, <2>4, <2>5, <2>6 DEF IInv
<1>7. crashes \in 0..MaxCrashes
  BY <1>1 DEF StateTypes
<1>8. CASE Select(w)
  <2> DEFINE pending == {e \in jobs[w].ids : status[e] = "pending"}
             taken == [jobs[w] EXCEPT !.todo = pending, !.read = Read(pending)]
  <2>1. /\ jobs[w].stage = "queued"
        /\ jobs' = [jobs EXCEPT ![w] = NextEvent(taken)]
        /\ UNCHANGED <<status, retries, locks, crashes>>
    BY <1>4, <1>8 DEF Select
  <2>2. Read(pending) \in [Events -> Nat] /\ pending \in SUBSET Events
    BY <1>1, <1>4, ReadType DEF Job
  <2> HIDE DEF pending
  <2>3. taken \in Job
    BY <1>4, <2>2 DEF Job
  <2> HIDE DEF taken
  <2>4. NextEvent(taken) \in Job /\ NextEvent(taken).stage \in {"free", "selected"}
    BY <2>3, NextEventRests
  <2> QED
    BY <1>4, <1>6, <1>7, <2>1, <2>4
<1>9. ASSUME NEW e \in Events, BeginEvent(w, e) PROVE IInv'
  <2> DEFINE job == [jobs[w] EXCEPT !.stage = "handling", !.event = e,
                                    !.todo = @ \ {e}]
  <2>1. /\ jobs[w].stage = "selected"
        /\ jobs' = [jobs EXCEPT ![w] = job]
        /\ status' = [status EXCEPT ![e] = "processing"]
        /\ UNCHANGED <<retries, locks, crashes>>
    BY <1>4, <1>9 DEF BeginEvent
  <2>2. job \in Job /\ job.stage = "handling" /\ job.event = e
    BY <1>4 DEF Job
  <2> HIDE DEF job
  <2>3. /\ status' \in [Events -> Statuses]
        /\ \A x \in Events : status'[x] = "processed" => status[x] = "processed"
    BY <1>4, <2>1 DEF Statuses
  <2> QED
    BY <1>4, <1>6, <1>7, <2>1, <2>2, <2>3
<1>10. NextEvent(jobs[w]) \in Job /\ NextEvent(jobs[w]).stage \in {"free", "selected"}
  BY <1>4, NextEventRests
<1>11. EndAttempt(jobs[w]) \in Job /\ EndAttempt(jobs[w]).stage \in {"free", "queued"}
  BY <1>4, EndAttemptRests
<1>12. CASE Reject(w)
  <2>1. /\ jobs[w].stage = "handling"
        /\ status' = [status EXCEPT ![jobs[w].event] = "failed"]
        /\ retries' = [retries EXCEPT ![jobs[w].event] = MaxRetries]
        /\ jobs' = [jobs EXCEPT ![w] = NextEvent(jobs[w])]
        /\ UNCHANGED <<locks, crashes>>
    BY <1>12 DEF Reject
  <2>2. /\ status' \in [Events -> Statuses] /\ retries' \in [Events -> Nat]
        /\ \A x \in Events : status'[x] = "processed" => status[x] = "processed"
    BY <1>4, <2>1, PipelineAssumption DEF Statuses
  <2> QED
    BY <1>6, <1>7, <1>10, <2>1, <2>2
<1>13. CASE Finish(w)
  <2>1. /\ jobs[w].stage = "metered"
        /\ status' = [status EXCEPT ![jobs[w].event] = "processed"]
        /\ jobs' = [jobs EXCEPT ![w] = NextEvent(jobs[w])]
        /\ UNCHANGED <<retries, locks, crashes>>
    BY <1>13 DEF Finish
  <2>2. /\ status' \in [Events -> Statuses]
        /\ \A x \in Events : status'[x] = "processed" =>
             status[x] = "processed" \/ x \in metered
    BY <1>4, <1>5, <2>1 DEF Statuses
  <2> QED
    BY <1>4, <1>6, <1>7, <1>10, <2>1, <2>2
<1>14. CASE Fail(w)
  <2> DEFINE e == jobs[w].event
             count == jobs[w].read[e] + 1
             job == IF count < MaxRetries THEN EndAttempt(jobs[w])
                    ELSE NextEvent(jobs[w])
  <2>1. /\ jobs[w].stage \in {"handling", "locked", "metered"}
        /\ status' = [status EXCEPT ![e] = "failed"]
        /\ retries' = [retries EXCEPT ![e] = count]
        /\ jobs' = [jobs EXCEPT ![w] = job]
        /\ locks' = Released(w)
        /\ UNCHANGED crashes
    BY <1>14 DEF Fail, Handling
  <2>2. e \in Events /\ count \in Nat
    BY <1>4, <1>5, <2>1
  <2>3. job \in Job /\ job.stage \in {"free", "queued", "selected"}
    BY <1>10, <1>11
  <2> HIDE DEF e, count, job
  <2>4. /\ status' \in [Events -> Statuses] /\ retries' \in [Events -> Nat]
        /\ \A x \in Events : status'[x] = "processed" => status[x] = "processed"
    BY <1>4, <2>1, <2>2 DEF Statuses
  <2> QED
    BY <1>6, <1>7, <2>1, <2>3, <2>4
<1>15. CASE Crash(w)
  <2>1. /\ jobs' = [jobs EXCEPT ![w] = EndAttempt(jobs[w])]
        /\ locks' = Released(w) /\ crashes < MaxCrashes /\ crashes' = crashes + 1
        /\ UNCHANGED <<status, retries>>
    BY <1>15 DEF Crash
  <2>2. crashes' \in 0..MaxCrashes
    BY <1>7, <2>1, PipelineAssumption
  <2> QED
    BY <1>4, <1>6, <1>11, <2>1, <2>2
<1> QED
  BY <1>8, <1>9, <1>12, <1>13, <1>14, <1>15

\* A worker that locks a call sees what is recorded of it.
LEMMA LockSteps ==
  ASSUME IInv, NEW w \in Slots, LockUsage(w)
  PROVE  IInv'
<1> DEFINE k == Key[jobs[w].event]
           job == [jobs[w] EXCEPT !.stage = "locked", !.seen = usage[k]]
<1>1. StateTypes /\ LocksHeld /\ JobsTrue /\ MeteredExactlyOnce /\ ProcessedIsMetered
  BY DEF IInv
<1>2. /\ jobs[w].stage = "handling" /\ locks[k] = Nobody
      /\ locks' = [locks EXCEPT ![k] = w]
      /\ jobs' = [jobs EXCEPT ![w] = job]
      /\ UNCHANGED <<invalid, status, retries, age, sweep, usage, crashes,
                     reprocessed, metered>>
  BY DEF LockUsage
<1>3. /\ jobs \in [Slots -> Job] /\ jobs[w] \in Job
      /\ locks \in [Keys -> Slots \cup {Nobody}] /\ usage \in [Keys -> Usage]
  BY <1>1 DEF StateTypes
<1>4. jobs[w].event \in Events /\ k \in Keys
  BY <1>1, <1>2, PipelineAssumption DEF JobsTrue
<1>5. /\ job \in Job /\ job.stage = "locked" /\ job.event = jobs[w].event
      /\ job.seen = usage[k]
  BY <1>3, <1>4 DEF Job
<1>6. Key[job.event] = k
  BY <1>5
<1> HIDE DEF job, k
<1>7. /\ jobs' \in [Slots -> Job]
      /\ \A v \in Slots : jobs'[v] = IF v = w THEN job ELSE jobs[v]
  BY <1>2, <1>3, <1>5
<1>8. /\ locks' \in [Keys -> Slots \cup {Nobody}]
      /\ \A x \in Keys : locks'[x] = IF x = k THEN w ELSE locks[x]
  BY <1>2, <1>3
<1>9. StateTypes'
  BY <1>1, <1>2, <1>7, <1>8 DEF StateTypes
<1>10. LocksHeld'
  <2>1. SUFFICES ASSUME NEW v \in Slots, NEW x \in Keys
                 PROVE  locks'[x] = v <=>
                          (jobs'[v].stage = "locked" /\ Key[jobs'[v].event] = x)
    BY DEF LocksHeld
  <2>2. CASE v = w
    <3>1. locks[x] # w
      BY <1>1, <1>2 DEF LocksHeld
    <3> QED
      BY <1>5, <1>6, <1>7, <1>8, <2>2, <3>1
  <2>3. CASE v # w
    <3>1. ~ (jobs[v].stage = "locked" /\ Key[jobs[v].event] = k)
      BY <1>1, <1>2, <1>4, PipelineAssumption DEF LocksHeld
    <3>2. locks[x] = v <=> (jobs[v].stage = "locked" /\ Key[jobs[v].event] = x)
      BY <1>1 DEF LocksHeld
    <3> QED
      BY <1>7, <1>8, <2>3, <3>1, <3>2
  <2> QED
    BY <2>2, <2>3
<1>11. JobsTrue'
  <2>1. SUFFICES ASSUME NEW v \in Slots
                 PROVE  /\ jobs'[v].stage \in {"handling", "locked", "metered"} =>
                             jobs'[v].event \in Events
                        /\ jobs'[v].stage = "locked" =>
                             jobs'[v].seen = usage[Key[jobs'[v].event]]
                        /\ jobs'[v].stage = "metered" => jobs'[v].event \in metered
    BY <1>2 DEF JobsTrue
  <2>2. CASE v = w
    BY <1>4, <1>5, <1>6, <1>7, <2>2
  <2>3. CASE v # w
    BY <1>1, <1>7, <2>3 DEF JobsTrue
  <2> QED
    BY <2>2, <2>3
<1>12. MeteredExactlyOnce' /\ ProcessedIsMetered'
  BY <1>1, <1>2 DEF MeteredExactlyOnce, ProcessedIsMetered
<1> QED
  BY <1>9, <1>10, <1>11, <1>12 DEF IInv

Reports(k) == {Count[e] : e \in {e \in metered : Key[e] = k}}

CountedOnce(k) ==
  /\ Reports(k) = {} => usage[k] = Nothing
  /\ Reports(k) # {} => /\ usage[k].requests = 1
                        /\ usage[k].tokens \in Reports(k)
                        /\ \A count \in Reports(k) : count <= usage[k].tokens

LEMMA CountedCalls == MeteredExactlyOnce <=> \A k \in Keys : CountedOnce(k)
BY DEF MeteredExactlyOnce, CountedOnce, Reports

\* A report that is metered raises its call to the largest of all reports.
LEMMA MeterSteps ==
  ASSUME IInv, NEW w \in Slots, Meter(w)
  PROVE  IInv'
<1> DEFINE e == jobs[w].event
           k == Key[e]
           new == Recorded(usage[k], Count[e])
           job == [jobs[w] EXCEPT !.stage = "metered"]
<1>1. StateTypes /\ LocksHeld /\ JobsTrue /\ MeteredExactlyOnce /\ ProcessedIsMetered
  BY DEF IInv
<1>2. jobs[w].stage = "locked" /\ e \in Events /\ jobs[w].seen = usage[k]
  BY <1>1 DEF Meter, JobsTrue
<1>3. /\ usage' = [usage EXCEPT ![k] = [requests |-> @.requests + new.requests,
                                        tokens |-> @.tokens + new.tokens]]
      /\ metered' = metered \cup {e}
      /\ locks' = Released(w)
      /\ jobs' = [jobs EXCEPT ![w] = job]
      /\ UNCHANGED <<invalid, status, retries, age, sweep, crashes, reprocessed>>
  BY <1>2 DEF Meter
<1>4. /\ k \in Keys /\ Count[e] \in Nat /\ usage \in [Keys -> Usage]
      /\ usage[k] \in Usage /\ metered \subseteq Events /\ jobs[w] \in Job
  BY <1>1, <1>2, PipelineAssumption DEF StateTypes
<1>5. /\ usage[k].requests \in Nat /\ usage[k].tokens \in Nat
      /\ new.requests = (IF usage[k].requests = 0 THEN 1 ELSE 0)
      /\ new.tokens = (IF usage[k].requests = 0 THEN Count[e]
                       ELSE IF Count[e] > usage[k].tokens
                            THEN Count[e] - usage[k].tokens ELSE 0)
  BY <1>4 DEF Usage, Recorded
<1>6. job \in Job /\ job.stage = "metered" /\ job.event = e
  BY <1>4 DEF Job
<1> HIDE DEF e, k, new, job
<1>7. /\ usage'[k] = [requests |-> usage[k].requests + new.requests,
                      tokens |-> usage[k].tokens + new.tokens]
      /\ \A x \in Keys \ {k} : usage'[x] = usage[x]
  BY <1>3, <1>4
<1>8. /\ usage'[k].requests = usage[k].requests + new.requests
      /\ usage'[k].tokens = usage[k].tokens + new.tokens
  BY <1>7
<1>9. usage' \in [Keys -> Usage]
  <2>1. [requests |-> usage[k].requests + new.requests,
         tokens |-> usage[k].tokens + new.tokens] \in Usage
    BY <1>4, <1>5 DEF Usage
  <2> QED
    BY <1>3, <1>4, <2>1
<1>10. /\ jobs' \in [Slots -> Job]
       /\ locks' \in [Keys -> Slots \cup {Nobody}]
       /\ LocksHeld'
       /\ JobsTrue'
  <2>1. /\ job.stage # "locked"
        /\ job.stage \in {"handling", "metered"} => job.event \in Events
        /\ job.stage = "metered" => job.event \in metered'
    BY <1>2, <1>3, <1>6
  <2>2. locks[k] = w
    BY <1>1, <1>2, <1>4 DEF LocksHeld, k, e
  <2>3. \A v \in Slots \ {w} : jobs[v].stage = "locked" =>
          usage'[Key[jobs[v].event]] = usage[Key[jobs[v].event]]
    <3>1. SUFFICES ASSUME NEW v \in Slots \ {w}, jobs[v].stage = "locked"
                   PROVE  usage'[Key[jobs[v].event]] = usage[Key[jobs[v].event]]
      OBVIOUS
    <3>2. Key[jobs[v].event] \in Keys
      BY <1>1, <3>1, PipelineAssumption DEF JobsTrue
    <3>3. locks[Key[jobs[v].event]] = v
      BY <1>1, <3>1, <3>2 DEF LocksHeld
    <3> QED
      BY <1>7, <2>2, <3>2, <3>3
  <2>4. metered \subseteq metered' /\ locks' = Released(w)
    BY <1>3
  <2> QED
    BY <1>1, <1>3, <1>6, <2>1, <2>3, <2>4, JobMoves
<1>11. StateTypes'
  BY <1>1, <1>2, <1>3, <1>9, <1>10 DEF StateTypes
<1>12. ProcessedIsMetered'
  BY <1>1, <1>3 DEF ProcessedIsMetered
<1>13. MeteredExactlyOnce'
  <2>1. \A x \in Keys : CountedOnce(x)
    BY <1>1, CountedCalls
  <2>2. ASSUME NEW x \in Keys, x # k PROVE CountedOnce(x)'
    <3>1. Reports(x)' = Reports(x)
      BY <1>2, <1>3, <2>2 DEF Reports, k
    <3>2. usage'[x] = usage[x]
      BY <1>7, <2>2
    <3> QED
      BY <2>1, <3>1, <3>2 DEF CountedOnce, Nothing
  <2>3. ASSUME NEW x \in Keys, x = k PROVE CountedOnce(x)'
    <3>1. Reports(x)' = Reports(x) \cup {Count[e]}
      BY <1>2, <1>3, <2>3 DEF Reports, k
    <3>2. Reports(x) \subseteq Nat
      BY <1>1, PipelineAssumption DEF Reports, StateTypes
    <3>3. CASE Reports(x) = {}
      <4>1. usage[k].requests = 0 /\ usage[k].tokens = 0
        BY <2>1, <2>3, <3>3 DEF CountedOnce, Nothing
      <4>2. usage'[x].requests = 1 /\ usage'[x].tokens = Count[e]
        BY <1>4, <1>5, <1>8, <2>3, <4>1
      <4> QED
        BY <1>4, <3>1, <3>3, <4>2 DEF CountedOnce
    <3>4. CASE Reports(x) # {}
      <4>1. /\ usage[k].requests = 1 /\ usage[k].tokens \in Reports(x)
            /\ \A count \in Reports(x) : count <= usage[k].tokens
        BY <2>1, <2>3, <3>4 DEF CountedOnce
      <4>2. /\ usage'[x].requests = 1
            /\ usage'[x].tokens = IF Count[e] > usage[k].tokens THEN Count[e]
                                  ELSE usage[k].tokens
        BY <1>4, <1>5, <1>8, <2>3, <4>1
      <4>3. usage'[x].tokens \in Reports(x)'
        BY <3>1, <4>1, <4>2
      <4>4. \A count \in Reports(x)' : count <= usage'[x].tokens
        BY <1>4, <1>5, <3>1, <3>2, <4>1, <4>2
      <4> QED
        BY <3>1, <4>2, <4>3, <4>4 DEF CountedOnce
    <3> QED
      BY <3>3, <3>4
  <2>4. \A x \in Keys : CountedOnce(x)'
    BY <2>2, <2>3
  <2> QED
    BY <2>4 DEF MeteredExactlyOnce, CountedOnce, Reports
<1> QED
  BY <1>10, <1>11, <1>12, <1>13 DEF IInv

LEMMA IStep == IInv /\ [Next]_vars => IInv'
<1> SUFFICES ASSUME IInv, [Next]_vars PROVE IInv'
  OBVIOUS
<1>1. CASE \/ \E batch \in SUBSET Events : Accept(batch)
           \/ \E e \in Events : Reprocess(e)
           \/ \E e \in Events : Age(e)
  BY <1>1, IngestSteps
<1>2. CASE \E w \in Slots : LockUsage(w)
  BY <1>2, LockSteps
<1>3. CASE \E w \in Slots : Meter(w)
  BY <1>3, MeterSteps
<1>4. CASE \E w \in Slots : \/ Select(w)
                            \/ \E e \in Events : BeginEvent(w, e)
                            \/ Reject(w)
                            \/ Finish(w)
                            \/ Fail(w)
                            \/ Crash(w)
  BY <1>4, WorkerSteps
<1>5. CASE SweepStep \/ SweepStart \/ SweepRefused \/ SweepCrash
  BY <1>5, SweepSteps
<1>6. CASE UNCHANGED vars
  <2>1. StateTypes' = StateTypes
    BY <1>6 DEF vars, StateTypes
  <2>2. LocksHeld' = LocksHeld /\ JobsTrue' = JobsTrue
    BY <1>6 DEF vars, LocksHeld, JobsTrue
  <2>3. ProcessedIsMetered' = ProcessedIsMetered
    BY <1>6 DEF vars, ProcessedIsMetered
  <2>4. UNCHANGED <<usage, metered>>
    BY <1>6 DEF vars
  <2>5. MeteredExactlyOnce' = MeteredExactlyOnce
    BY <2>4 DEF MeteredExactlyOnce
  <2> QED
    BY <2>1, <2>2, <2>3, <2>5 DEF IInv
<1> QED
  BY <1>1, <1>2, <1>3, <1>4, <1>5, <1>6 DEF Next, WorkerStep

LEMMA Invariance == Spec => []IInv
BY IInit, IStep, PTL DEF Spec

-----------------------------------------------------------------------------
(***************************************************************************)
(* The properties.                                                         *)
(***************************************************************************)

\* Types, and at most one worker holds a call's advisory lock, the one that is
\* metering it (record_usage_event).
THEOREM TypeCorrect == Spec => []TypeOK
<1>1. IInv => TypeOK
  BY DEF IInv, StateTypes, LocksHeld, TypeOK
<1> QED
  BY <1>1, Invariance, PTL

\* However often the reports of a call are redelivered, retried, requeued or
\* lost half way, and by however many workers: the call is counted once, with
\* the largest count of them (record_usage_event).
THEOREM CallsAreMeteredOnce == Spec => []MeteredExactlyOnce
<1>1. IInv => MeteredExactlyOnce
  BY DEF IInv
<1> QED
  BY <1>1, Invariance, PTL

\* No event reads as processed before its usage is metered, whichever worker
\* or sweep with a stale object saved it last (mark_processed, mark_failed).
THEOREM ProcessedMeansMetered == Spec => []ProcessedIsMetered
<1>1. IInv => ProcessedIsMetered
  BY DEF IInv
<1> QED
  BY <1>1, Invariance, PTL

=============================================================================
