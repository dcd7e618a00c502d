------------------------------ MODULE SampleQueue ------------------------------
(***************************************************************************)
(* The samples of the tenants and the queue of their deactivations: the    *)
(* table samples, the routes of v1/samples that write it, the jobs that    *)
(* POST :id/deactivations puts into BullMQ and the workers that run them.  *)
(*                                                                         *)
(* A handler and a job are cut at every await on the database or on Redis. *)
(* What BullMQ does with a job is modelled as far as the adapter and the   *)
(* worker rely on it: it is delivered at least once, tried a number of     *)
(* times, and given to another worker when the one that has it stalls.     *)
(***************************************************************************)
EXTENDS Integers, FiniteSetsExt

CONSTANTS
  Samples,    \* ids of rows
  Existing,   \* those that exist at first
  Tenants,
  TenantOf,   \* TenantOf[s]: the tenant of an existing sample
  Absent,     \* a field left out of the body
  Asks,       \* bound: what clients ask for, of which samples
  Requests,   \* slots for concurrent requests
  Jobs,       \* bound: the jobs that are ever added
  Workers,    \* slots for concurrent executions of jobs, on any process
  Nobody,     \* no worker
  Attempts,   \* SAMPLE_JOB_OPTIONS.attempts
  MaxStalls   \* how many times BullMQ gives a stalled job to another worker

Orders == Nat \cup {Absent}

\* A request, of a user of the tenant, about the sample.
Ask ==
  [kind : {"create"}, tenant : Tenants, sample : Samples, sortOrder : Orders]
  \cup [kind : {"patch"}, tenant : Tenants, sample : Samples,
        isActive : BOOLEAN \cup {Absent}, sortOrder : Orders]
  \cup [kind : {"delete", "schedule"}, tenant : Tenants, sample : Samples]

Row == [tenant : Tenants, isActive : BOOLEAN, sortOrder : Nat, deleted : BOOLEAN]

ASSUME SampleAssumption == Existing \subseteq Samples /\ IsFiniteSet(Samples)
ASSUME TenantAssumption == TenantOf \in [Existing -> Tenants]
ASSUME QueueAssumption  == Attempts \in Nat \ {0} /\ MaxStalls \in Nat
ASSUME AskAssumption    == Asks \subseteq Ask /\ Absent \notin Nat \cup BOOLEAN
ASSUME NobodyAssumption == Nobody \notin Workers

VARIABLES
  samples,   \* the table, a function on the ids that have a row
  requests,  \* requests[r]: the request in slot r
  jobs,      \* jobs[j]: the job in Redis, or on its way there
  workers    \* workers[w]: the execution in slot w

vars == <<samples, requests, jobs, workers>>

Idle  == [phase |-> "idle"]
NoJob == [status |-> "none"]

Ended  == {"completed", "failed"}
Queued == {"waiting", "active"} \cup Ended

---------------------------------------------------------------------------
Live(s) == s \in DOMAIN samples /\ ~samples[s].deleted

\* findById
Found(s, t) == Live(s) /\ samples[s].tenant = t

LiveOf(t) == {s \in DOMAIN samples : Live(s) /\ samples[s].tenant = t}

\* The live samples of a tenant with their positions.
ListOf(t) == {<<s, samples[s].sortOrder>> : s \in LiveOf(t)}

\* Bug: the query builder counts removed samples.
NextOrder_CountsRemoved(t) ==
  LET rows == {s \in DOMAIN samples : samples[s].tenant = t}
  IN Max({samples[s].sortOrder : s \in rows} \cup {-1}) + 1

\* One more than getMaxSortOrder.
NextOrder(t) == Max({samples[s].sortOrder : s \in LiveOf(t)} \cup {-1}) + 1

Given(value, default) == IF value = Absent THEN default ELSE value

\* Bug: update saves the entity it read, deletedAt included.
Written_Saved(row, seen, isActive, sortOrder) ==
  [seen EXCEPT !.isActive  = Given(isActive, @),
               !.sortOrder = Given(sortOrder, @)]

\* The row that update writes: what was read, but for what is asked.  The columns
\* tenantId and deletedAt are not written.
Written(row, seen, isActive, sortOrder) ==
  [row EXCEPT !.isActive  = Given(isActive, seen.isActive),
              !.sortOrder = Given(sortOrder, seen.sortOrder)]

\* The sample has been switched off, or is gone.
Off(table, s) == ~table[s].isActive \/ table[s].deleted

\* Jobs of J whose sample is off in the table (history).
MarkOff(J, table) ==
  [j \in Jobs |->
     IF J[j].status \in Queued /\ Off(table, J[j].sample)
     THEN [J[j] EXCEPT !.off = TRUE] ELSE J[j]]

---------------------------------------------------------------------------
Init ==
  /\ samples = [s \in Existing |->
       [tenant |-> TenantOf[s], isActive |-> TRUE, sortOrder |-> 0, deleted |-> FALSE]]
  /\ requests = [r \in Requests |-> Idle]
  /\ jobs = [j \in Jobs |-> NoJob]
  /\ workers = [w \in Workers |-> Idle]

---------------------------------------------------------------------------
(* The routes that write the table.                                        *)

\* The id of a new row is one nobody has or is about to have.
Fresh(s) ==
  /\ s \notin DOMAIN samples
  /\ \A r \in Requests : requests[r] # Idle => requests[r].ask.sample # s

\* Bound: a job is left for the requests that want one.
JobToSpare ==
  Cardinality({r \in Requests :
                 requests[r].phase = "find" /\ requests[r].ask.kind = "schedule"})
    < Cardinality({j \in Jobs : jobs[j] = NoJob})

Begin(r, ask) ==
  /\ requests[r] = Idle
  /\ IF ask.kind = "create" THEN Fresh(ask.sample) ELSE TRUE
  /\ IF ask.kind = "schedule" THEN JobToSpare ELSE TRUE
  /\ requests' = [requests EXCEPT ![r] =
       [phase |-> IF ask.kind = "create" THEN "order" ELSE "find", ask |-> ask]]
  /\ UNCHANGED <<samples, jobs, workers>>

\* The position of a new sample: what the body says, or the end of the list.
ChooseOrder(r) ==
  LET q == requests[r] IN
  /\ q.phase = "order"
  /\ requests' = [requests EXCEPT ![r] =
       [phase |-> "insert", ask |-> q.ask,
        order |-> Given(q.ask.sortOrder, NextOrder(q.ask.tenant)),
        list |-> ListOf(q.ask.tenant)]]
  /\ UNCHANGED <<samples, jobs, workers>>

Insert(r) ==
  LET q == requests[r] IN
  /\ q.phase = "insert"
  /\ samples' = [s \in DOMAIN samples \cup {q.ask.sample} |->
       IF s # q.ask.sample THEN samples[s]
       ELSE [tenant |-> q.ask.tenant, isActive |-> TRUE, sortOrder |-> q.order,
             deleted |-> FALSE]]
  /\ requests' = [requests EXCEPT ![r] = Idle]
  /\ UNCHANGED <<jobs, workers>>

FindForWrite(r) ==
  LET q == requests[r] IN
  /\ q.phase = "find" /\ q.ask.kind \in {"patch", "delete"}
  /\ requests' = [requests EXCEPT ![r] =
       IF ~Found(q.ask.sample, q.ask.tenant) THEN Idle      \* 404 SAMPLE_NOT_FOUND
       ELSE [phase |-> "write", ask |-> q.ask, seen |-> samples[q.ask.sample]]]
  /\ UNCHANGED <<samples, jobs, workers>>

\* The UPDATE has no condition on deletedAt; what it reads back goes to the client.
Patch(r) ==
  LET q == requests[r]
      table == [samples EXCEPT ![q.ask.sample] =
                  Written(@, q.seen, q.ask.isActive, q.ask.sortOrder)]
  IN /\ q.phase = "write" /\ q.ask.kind = "patch"
     /\ samples' = table
     /\ jobs' = MarkOff(jobs, table)
     /\ requests' = [requests EXCEPT ![r] = Idle]
     /\ UNCHANGED workers

Remove(r) ==
  LET q == requests[r]
      table == [samples EXCEPT ![q.ask.sample].deleted = TRUE]
  IN /\ q.phase = "write" /\ q.ask.kind = "delete"
     /\ samples' = table
     /\ jobs' = MarkOff(jobs, table)
     /\ requests' = [requests EXCEPT ![r] = Idle]
     /\ UNCHANGED workers

---------------------------------------------------------------------------
(* The enqueue, with its race between add() and the timer.                 *)

\* The sample exists: add() is called, and the request waits for it.
FindForJob(r) ==
  LET q == requests[r] IN
  /\ q.phase = "find" /\ q.ask.kind = "schedule"
  /\ IF Found(q.ask.sample, q.ask.tenant)
     THEN \E j \in Jobs :
            /\ jobs[j] = NoJob
            /\ jobs' = [jobs EXCEPT ![j] =
                 [status |-> "adding", sample |-> q.ask.sample, tenant |-> q.ask.tenant,
                  answer |-> 0, attempts |-> 0, stalls |-> 0, lock |-> Nobody,
                  wrote |-> FALSE, off |-> FALSE]]
            /\ requests' = [requests EXCEPT ![r] =
                 [phase |-> "wait", ask |-> q.ask, job |-> j]]
     ELSE /\ requests' = [requests EXCEPT ![r] = Idle]      \* 404 SAMPLE_NOT_FOUND
          /\ UNCHANGED jobs
  /\ UNCHANGED <<samples, workers>>

\* Redis takes the job, whether or not the request still waits.  A delay is part of
\* the time a job waits, which is left open.
AddArrives(j) ==
  /\ jobs[j].status = "adding"
  /\ jobs' = MarkOff([jobs EXCEPT ![j].status = "waiting"], samples)
  /\ UNCHANGED <<samples, requests, workers>>

\* add() rejects, or dies with its process.
AddIsLost(j) ==
  /\ jobs[j].status = "adding"
  /\ jobs' = [jobs EXCEPT ![j].status = "lost"]
  /\ UNCHANGED <<samples, requests, workers>>

Answer(r, code) ==
  /\ jobs' = [jobs EXCEPT ![requests[r].job].answer = code]
  /\ requests' = [requests EXCEPT ![r] = Idle]
  /\ UNCHANGED <<samples, workers>>

Accept(r) ==
  /\ requests[r].phase = "wait"
  /\ jobs[requests[r].job].status \in Queued
  /\ Answer(r, 202)

\* Bug: no timer.
Refuse_NoTimer(r) ==
  /\ requests[r].phase = "wait"
  /\ jobs[requests[r].job].status = "lost"
  /\ Answer(r, 503)

\* add() has rejected, or the timer wins the race: it may do so at any time, even
\* when Redis has the job and its reply is under way.
Refuse(r) ==
  /\ requests[r].phase = "wait"
  /\ Answer(r, 503)

\* An await of the handler rejects, or its process dies.  (add() may be under way.)
RequestFails(r) ==
  /\ requests[r] # Idle
  /\ requests' = [requests EXCEPT ![r] = Idle]
  /\ UNCHANGED <<samples, jobs, workers>>

---------------------------------------------------------------------------
(* The workers.                                                            *)

Deliver(w, j) ==
  /\ workers[w] = Idle
  /\ jobs[j].status = "waiting"
  /\ jobs' = [jobs EXCEPT ![j].status = "active", ![j].lock = w]
  /\ workers' = [workers EXCEPT ![w] = [phase |-> "find", job |-> j]]
  /\ UNCHANGED <<samples, requests>>

\* Worker w has still the lock of its job.
Holds(w) ==
  LET j == workers[w].job IN jobs[j].status = "active" /\ jobs[j].lock = w

\* Bug: the result of a worker that lost the lock is taken.
Complete_WithoutLock(w) ==
  /\ workers' = [workers EXCEPT ![w] = Idle]
  /\ jobs' = [jobs EXCEPT ![workers[w].job].status = "completed",
                         ![workers[w].job].lock = Nobody]

\* process() returns.  Without the lock BullMQ refuses the result.
Complete(w) ==
  /\ workers' = [workers EXCEPT ![w] = Idle]
  /\ jobs' = IF Holds(w)
             THEN [jobs EXCEPT ![workers[w].job].status = "completed",
                               ![workers[w].job].lock = Nobody]
             ELSE jobs

\* Bug: the policy grants one attempt too many.
Throw_OneTooMany(w) ==
  LET j == workers[w].job IN
  /\ workers' = [workers EXCEPT ![w] = Idle]
  /\ jobs' = IF Holds(w)
             THEN [jobs EXCEPT
                     ![j].status   = IF jobs[j].attempts < Attempts
                                     THEN "waiting" ELSE "failed",
                     ![j].attempts = @ + 1,
                     ![j].lock     = Nobody]
             ELSE jobs

\* process() throws: the attempt is used up, and the job waits for the next one.
Throw(w) ==
  LET j == workers[w].job IN
  /\ workers' = [workers EXCEPT ![w] = Idle]
  /\ jobs' = IF Holds(w)
             THEN [jobs EXCEPT
                     ![j].status   = IF jobs[j].attempts + 1 < Attempts
                                     THEN "waiting" ELSE "failed",
                     ![j].attempts = @ + 1,
                     ![j].lock     = Nobody]
             ELSE jobs

\* findById with the tenant of the job; a sample that is gone or inactive is no error.
WorkerFinds(w) ==
  LET x == workers[w]
      job == jobs[x.job]
      pending == Found(job.sample, job.tenant) /\ samples[job.sample].isActive
  IN /\ x.phase = "find"
     /\ IF pending
        THEN /\ workers' = [workers EXCEPT ![w] =
                  [phase |-> "write", job |-> x.job, seen |-> samples[job.sample]]]
             /\ UNCHANGED jobs
        ELSE Complete(w)
     /\ UNCHANGED <<samples, requests>>

WorkerWrites(w) ==
  LET x == workers[w]
      s == jobs[x.job].sample
      table == [samples EXCEPT ![s] = Written(@, x.seen, FALSE, Absent)]
  IN /\ x.phase = "write"
     /\ samples' = table
     /\ jobs' = MarkOff([jobs EXCEPT ![x.job].wrote = TRUE], table)
     /\ workers' = [workers EXCEPT ![w] = [phase |-> "reread", job |-> x.job]]
     /\ UNCHANGED requests

\* update reads the row back, and throws when it has been removed meanwhile.
WorkerRereads(w) ==
  LET job == jobs[workers[w].job] IN
  /\ workers[w].phase = "reread"
  /\ IF Found(job.sample, job.tenant) THEN Complete(w) ELSE Throw(w)
  /\ UNCHANGED <<samples, requests>>

\* Bug: process() catches the error to log it.
WorkerFails_Swallows(w) ==
  /\ workers[w] # Idle
  /\ Complete(w)
  /\ UNCHANGED <<samples, requests>>

\* Bug: process() catches the error and tries again by itself.
WorkerFails_TriesAgain(w) ==
  /\ workers[w] # Idle
  /\ workers' = [workers EXCEPT ![w] = [phase |-> "find", job |-> workers[w].job]]
  /\ UNCHANGED <<samples, requests, jobs>>

\* The database rejects; of an UPDATE only the answer may be missing.
WorkerFails(w) ==
  /\ workers[w] # Idle
  /\ Throw(w)
  /\ UNCHANGED <<samples, requests>>

WorkerDies(w) ==
  /\ workers[w] # Idle
  /\ workers' = [workers EXCEPT ![w] = Idle]
  /\ UNCHANGED <<samples, requests, jobs>>

\* The lock expires: its worker is dead, or too busy to renew it and goes on later.
Stall(j) ==
  /\ jobs[j].status = "active"
  /\ jobs' = [jobs EXCEPT
       ![j].status = IF jobs[j].stalls < MaxStalls THEN "waiting" ELSE "failed",
       ![j].stalls = @ + 1,
       ![j].lock   = Nobody]
  /\ UNCHANGED <<samples, requests, workers>>

---------------------------------------------------------------------------
HandlerStep(r) ==
  \/ ChooseOrder(r) \/ Insert(r) \/ FindForWrite(r) \/ Patch(r) \/ Remove(r)
  \/ FindForJob(r) \/ Accept(r)

WorkerStep(w) == WorkerFinds(w) \/ WorkerWrites(w) \/ WorkerRereads(w)

Next ==
  \/ \E r \in Requests, ask \in Asks : Begin(r, ask)
  \/ \E r \in Requests : HandlerStep(r) \/ Refuse(r) \/ RequestFails(r)
  \/ \E j \in Jobs : AddArrives(j) \/ AddIsLost(j) \/ Stall(j)
  \/ \E w \in Workers, j \in Jobs : Deliver(w, j)
  \/ \E w \in Workers : WorkerStep(w) \/ WorkerFails(w) \/ WorkerDies(w)

Spec == Init /\ [][Next]_vars
\* No worker has the job any more, and nobody renews its lock.
Abandoned(j) == \A w \in Workers : workers[w] # Idle => workers[w].job # j

Fairness ==
  /\ \A r \in Requests : WF_vars(HandlerStep(r)) /\ WF_vars(Refuse(r))
  /\ \A j \in Jobs : /\ WF_vars(\E w \in Workers : Deliver(w, j))
                     /\ WF_vars(Abandoned(j) /\ Stall(j))
  /\ \A w \in Workers : WF_vars(WorkerStep(w))

FairSpec == Spec /\ Fairness

---------------------------------------------------------------------------
(* Properties.                                                             *)

\* Type invariant.
RequestState ==
  {Idle}
  \cup [phase : {"find", "order"}, ask : Ask]
  \cup [phase : {"insert"}, ask : Ask, order : Nat,
        list : SUBSET (Samples \X Nat)]
  \cup [phase : {"write"}, ask : Ask, seen : Row]
  \cup [phase : {"wait"}, ask : Ask, job : Jobs]

JobState ==
  {NoJob}
  \cup [status : {"adding", "lost"} \cup Queued, sample : Samples, tenant : Tenants,
        answer : {0, 202, 503}, attempts : 0 .. Attempts, stalls : 0 .. MaxStalls + 1,
        lock : Workers \cup {Nobody}, wrote : BOOLEAN, off : BOOLEAN]

WorkerState ==
  {Idle} \cup [phase : {"find", "reread"}, job : Jobs]
  \cup [phase : {"write"}, job : Jobs, seen : Row]

TypeOK ==
  /\ DOMAIN samples \subseteq Samples /\ samples \in [DOMAIN samples -> Row]
  /\ requests \in [Requests -> RequestState]
  /\ jobs \in [Jobs -> JobState]
  /\ workers \in [Workers -> WorkerState]

\* A job ends as done only if its sample was switched off or removed at some time
\* while the job was queued, whatever failed and however often it was delivered.
CompletedMeansDone ==
  \A j \in Jobs : jobs[j].status = "completed" => jobs[j].off

\* What is answered with 202 is in the queue.
AcceptedIsQueued ==
  \A j \in Jobs : jobs[j] # NoJob /\ jobs[j].answer = 202 => jobs[j].status \in Queued

\* A job as a client can know it.
Promised(job) ==
  [state  |-> CASE job.status = "adding"               -> "called"
                [] job.status = "lost"                 -> "vanished"
                [] job.status \in {"waiting", "active"} -> "pending"
                [] job.status = "completed"            -> "kept"
                [] job.status = "failed"               -> "broken",
   sample |-> job.sample, answer |-> job.answer, wasOff |-> job.off]

Promise ==
  INSTANCE Deactivations WITH
    off      <- {s \in DOMAIN samples : Off(samples, s)},
    promises <- [j \in Jobs |-> IF jobs[j] = NoJob THEN [state |-> "none"]
                               ELSE Promised(jobs[j])]

\* The enqueue, the workers and their retries keep the promise of Deactivations: a call
\* is answered once, with 202 only if its job is in the queue; a job ends once, as done
\* only if its sample was off meanwhile, whatever a worker that lost it reports later
\* (SampleQueueAdapter, SampleProcessor).
ImplementsDeactivations == Promise!Spec

\* A job writes its sample a second time only after an attempt failed or stalled:
\* without a fault, a reactivation that comes after the write stands.
WritesAgainOnlyAfterAFault ==
  [][\A w \in Workers :
       WorkerWrites(w) /\ jobs[workers[w].job].wrote
         => jobs[workers[w].job].attempts + jobs[workers[w].job].stalls > 0]_vars

\* A removed sample stays removed, even when a PATCH or a job that read it before
\* writes it after.
RemovedStaysRemoved ==
  [][\A s \in DOMAIN samples : samples[s].deleted => samples'[s].deleted]_vars

\* A sample created without a position comes right after the list of its tenant that was
\* read, whatever ran between: a live sample that does not come before the new one has
\* been created or moved since.
NewSampleIsLast ==
  [][\A r \in Requests :
       LET q == requests[r]
           order == samples'[q.ask.sample].sortOrder
       IN Insert(r) /\ q.ask.sortOrder = Absent
          => /\ \A s \in LiveOf(q.ask.tenant) :
                  <<s, samples[s].sortOrder>> \in q.list => samples[s].sortOrder < order
             /\ order = 0 \/ \E entry \in q.list : order = entry[2] + 1]_vars

\* Every request is answered, even when Redis never is (comment of
\* ENQUEUE_TIMEOUT_MS), if only the database answers: its slot is free again and again.
RequestsEnd == \A r \in Requests : []<>(requests[r] = Idle)

\* Every job that reaches the queue ends: done, or given up after as many attempts or
\* stalls as the policy grants.
JobsEnd ==
  \A j \in Jobs :
    jobs[j].status \in {"waiting", "active"} ~>
      \/ jobs[j].status = "completed"
      \/ /\ jobs[j].status = "failed"
         /\ jobs[j].attempts = Attempts \/ jobs[j].stalls > MaxStalls

\* A call answered with 503 has put no job into the queue, and may be repeated
\* (description of the response in SampleController.scheduleDeactivation).
UnavailableMeansNotQueued ==
  \A j \in Jobs : jobs[j] # NoJob /\ jobs[j].answer = 503 => jobs[j].status \notin Queued
=============================================================================
