--------------------------- MODULE SampleQueue_proofs ---------------------------
(***************************************************************************)
(* Proofs about the safety of SampleQueue, for every number of samples,    *)
(* requests, jobs and workers, and every retry policy.                     *)
(***************************************************************************)
EXTENDS SampleQueue, FiniteSetTheorems, WellFoundedInduction, TLAPS

---------------------------------------------------------------------------
(* The inductive invariant.                                                *)

\* A position that comes right after a list of samples with their positions.
IsEnd(list, order) ==
  /\ \A entry \in list : entry[2] < order
  /\ order = 0 \/ \E entry \in list : order = entry[2] + 1

Creating(q) == q.phase \in {"order", "insert"}

\* A new row has an id of its own; what is to be written is there; what is waited
\* for has been sent.
GoodRequest(q) ==
  /\ Creating(q) => q.ask.kind = "create" /\ q.ask.sample \notin DOMAIN samples
  /\ q.phase = "insert" /\ q.ask.sortOrder = Absent => IsEnd(q.list, q.order)
  /\ q.phase = "find" => q.ask.kind # "create"
  /\ q.phase = "write" => q.ask.kind \in {"patch", "delete"} /\ q.ask.sample \in DOMAIN samples
  /\ q.phase = "wait" => jobs[q.job] # NoJob

RequestsGood ==
  /\ \A r \in Requests : GoodRequest(requests[r])
  /\ \A r, o \in Requests :
       r # o /\ Creating(requests[r]) /\ Creating(requests[o])
         => requests[r].ask.sample # requests[o].ask.sample

\* What holds of a job apart from the mark that its sample is off.
SoundJob(x) ==
  /\ x.sample \in DOMAIN samples /\ samples[x.sample].tenant = x.tenant
  /\ x.status \in {"adding", "waiting", "active"} => x.attempts < Attempts /\ x.stalls <= MaxStalls
  /\ x.status \in {"adding", "waiting"} /\ x.attempts + x.stalls = 0 => ~x.wrote
  /\ x.answer = 202 => x.status \in Queued
  /\ x.status = "completed" => x.off

GoodJob(x) ==
  /\ SoundJob(x)
  /\ x.status \in Queued /\ Off(samples, x.sample) => x.off

JobsGood == \A j \in Jobs : jobs[j] # NoJob => GoodJob(jobs[j])

\* A worker runs a job of the queue; as long as no attempt failed or stalled it is the
\* only one, and has the lock.
GoodWorker(w) ==
  LET x == jobs[workers[w].job] IN
  /\ x # NoJob /\ x.status \in Queued
  /\ workers[w].phase = "reread" => x.off
  /\ x.attempts + x.stalls = 0 =>
       /\ Holds(w)
       /\ workers[w].phase # "reread" => ~x.wrote

WorkersGood == \A w \in Workers : workers[w] # Idle => GoodWorker(w)

IInv == TypeOK /\ RequestsGood /\ JobsGood /\ WorkersGood

---------------------------------------------------------------------------
(* The end of a list.                                                      *)

\* A function on a finite set, with values in Int, has a greatest value.
LEMMA GreatestValue ==
  ASSUME NEW D, IsFiniteSet(D), D # {}, NEW f \in [D -> Int]
  PROVE  \E d \in D : \A e \in D : f[e] <= f[d]
<1> DEFINE above(d) == {e \in D : f[e] > f[d]}
           counts == {Cardinality(above(d)) : d \in D}
<1>1. ASSUME NEW d \in D
      PROVE  IsFiniteSet(above(d)) /\ Cardinality(above(d)) \in Nat
  BY FS_Subset, FS_CardinalityType
<1>2. counts \subseteq Nat /\ counts # {}
  BY <1>1
<1>3. PICK n \in counts : \A k \in counts : ~(<<k, n>> \in OpToRel(<, Nat))
  <2> HIDE DEF counts
  <2>1. QED
    BY <1>2, NatLessThanWellFounded, WFMin
<1>4. PICK d \in D : n = Cardinality(above(d))
  OBVIOUS
<1>5. ASSUME NEW e \in D PROVE f[e] <= f[d]
  <2>1. SUFFICES ASSUME f[e] > f[d] PROVE FALSE
    OBVIOUS
  <2>2. above(e) \subseteq above(d) /\ e \in above(d) /\ e \notin above(e)
    BY <2>1
  <2>3. Cardinality(above(e)) <= Cardinality(above(d)) /\ Cardinality(above(e)) # Cardinality(above(d))
    <3> HIDE DEF above
    <3>1. QED
      BY <1>1, <2>2, FS_Subset
  <2>4. Cardinality(above(e)) \in Nat /\ n \in Nat /\ Cardinality(above(e)) < n
    BY <1>1, <1>4, <2>3
  <2>5. <<Cardinality(above(e)), n>> \in OpToRel(<, Nat)
    BY <2>4 DEF OpToRel
  <2>6. Cardinality(above(e)) \in counts
    OBVIOUS
  <2>7. QED
    BY <1>3, <2>5, <2>6
<1>6. QED
  BY <1>5

LEMMA NextOrderIsEnd ==
  ASSUME TypeOK, NEW t \in Tenants
  PROVE  NextOrder(t) \in Nat /\ IsEnd(ListOf(t), NextOrder(t))
<1> DEFINE D == LiveOf(t)
           f == [s \in D |-> samples[s].sortOrder]
           values == {samples[s].sortOrder : s \in LiveOf(t)} \cup {-1}
<1>1. D \subseteq DOMAIN samples /\ D \subseteq Samples
  BY DEF LiveOf, TypeOK
<1>2. \A s \in D : samples[s].sortOrder \in Nat
  BY <1>1 DEF TypeOK, Row
<1>3. IsFiniteSet(D)
  BY <1>1, SampleAssumption, FS_Subset
<1>4. \E x \in values : \A y \in values : x >= y
  <2>1. CASE D = {}
    <3>1. values = {-1}
      BY <2>1
    <3>2. QED
      BY <3>1
  <2>2. CASE D # {}
    <3>1. f \in [D -> Int]
      BY <1>2
    <3> HIDE DEF D
    <3>2. PICK d \in D : \A e \in D : f[e] <= f[d]
      BY <1>3, <2>2, <3>1, GreatestValue
    <3>3. \A e \in D : samples[e].sortOrder <= samples[d].sortOrder
      BY <3>2
    <3>4. \A y \in values : samples[d].sortOrder >= y
      BY <1>2, <3>3 DEF D
    <3>5. samples[d].sortOrder \in values
      BY DEF D
    <3>6. QED
      BY <3>4, <3>5
  <2>3. QED
    BY <2>1, <2>2
<1>5. Max(values) \in values /\ \A y \in values : Max(values) >= y
  <2> HIDE DEF values
  <2>1. QED
    BY <1>4 DEF Max
<1>6. NextOrder(t) = Max(values) + 1
  BY DEF NextOrder
<1>7. /\ \A s \in D : samples[s].sortOrder \in values
      /\ \A y \in values : y = -1 \/ \E s \in D : y = samples[s].sortOrder
      /\ -1 \in values
  OBVIOUS
<1>8. PICK m : m = Max(values)
  OBVIOUS
<1> HIDE DEF D, f, values
<1>9. /\ m \in Int /\ m >= -1 /\ NextOrder(t) = m + 1
      /\ \A s \in D : samples[s].sortOrder <= m
      /\ m = -1 \/ \E s \in D : m = samples[s].sortOrder
  BY <1>2, <1>5, <1>6, <1>7, <1>8
<1>10. NextOrder(t) \in Nat
  BY <1>9
<1>11. \A s \in D : samples[s].sortOrder < NextOrder(t)
  BY <1>2, <1>9
<1>12. NextOrder(t) = 0 \/ \E s \in D : NextOrder(t) = samples[s].sortOrder + 1
  BY <1>9
<1>13. ListOf(t) = {<<s, samples[s].sortOrder>> : s \in D}
  BY DEF ListOf, D
<1>14. \A entry \in ListOf(t) : entry[2] < NextOrder(t)
  BY <1>11, <1>13
<1>15. NextOrder(t) = 0 \/ \E entry \in ListOf(t) : NextOrder(t) = entry[2] + 1
  <2>1. SUFFICES ASSUME NextOrder(t) # 0
                 PROVE  \E entry \in ListOf(t) : NextOrder(t) = entry[2] + 1
    OBVIOUS
  <2>2. PICK s \in D : NextOrder(t) = samples[s].sortOrder + 1
    BY <1>12, <2>1
  <2>3. <<s, samples[s].sortOrder>> \in ListOf(t)
    BY <1>13
  <2>4. QED
    BY <2>2, <2>3
<1>16. QED
  BY <1>10, <1>14, <1>15 DEF IsEnd

---------------------------------------------------------------------------
(* The shapes of the state.                                                *)

LEMMA AskShapes ==
  ASSUME NEW a \in Ask
  PROVE  /\ a.sample \in Samples /\ a.tenant \in Tenants
         /\ a.kind \in {"create", "patch", "delete", "schedule"}
         /\ a.kind \in {"create", "patch"} => a.sortOrder \in Orders
         /\ a.kind = "patch" => a.isActive \in BOOLEAN \cup {Absent}
BY DEF Ask

LEMMA RequestShapes ==
  ASSUME NEW x \in RequestState
  PROVE  /\ x.phase \in {"idle", "find", "order", "insert", "write", "wait"}
         /\ x.phase = "idle" <=> x = Idle
         /\ x # Idle => x.ask \in Ask
         /\ x.phase = "insert" => x.order \in Nat /\ x.list \in SUBSET (Samples \X Nat)
         /\ x.phase = "write" => x.seen \in Row
         /\ x.phase = "wait" => x.job \in Jobs
BY DEF RequestState, Idle

LEMMA JobShapes ==
  ASSUME NEW x \in JobState, x # NoJob
  PROVE  /\ x.status \in {"adding", "lost"} \cup Queued
         /\ x.status # "none"
         /\ x.sample \in Samples /\ x.tenant \in Tenants
         /\ x.answer \in {0, 202, 503}
         /\ x.attempts \in 0 .. Attempts /\ x.attempts \in Nat
         /\ x.stalls \in 0 .. MaxStalls + 1 /\ x.stalls \in Nat
         /\ x.lock \in Workers \cup {Nobody} /\ x.wrote \in BOOLEAN /\ x.off \in BOOLEAN
BY QueueAssumption DEF JobState, Queued, Ended

AnyJob == [status : {"adding", "lost"} \cup Queued, sample : Samples, tenant : Tenants,
           answer : {0, 202, 503}, attempts : 0 .. Attempts, stalls : 0 .. MaxStalls + 1,
           lock : Workers \cup {Nobody}, wrote : BOOLEAN, off : BOOLEAN]

\* Setting some fields of a job to values of their sets leaves a job. The sets
\* are hidden: what they hold does not matter here.
LEMMA JobStaysAJob ==
  ASSUME NEW y \in AnyJob, NEW status \in {"adding", "lost"} \cup Queued,
         NEW lock \in Workers \cup {Nobody}
  PROVE  /\ [y EXCEPT !.wrote = TRUE] \in AnyJob
         /\ [y EXCEPT !.off = TRUE] \in AnyJob
         /\ [y EXCEPT !.status = status, !.lock = lock] \in AnyJob
<1> DEFINE statuses == {"adding", "lost"} \cup Queued
           answers == {0, 202, 503}
           attempts == 0 .. Attempts
           stalls == 0 .. MaxStalls + 1
           locks == Workers \cup {Nobody}
<1>1. AnyJob = [status : statuses, sample : Samples, tenant : Tenants, answer : answers,
                attempts : attempts, stalls : stalls, lock : locks,
                wrote : BOOLEAN, off : BOOLEAN]
  BY DEF AnyJob
<1>2. status \in statuses /\ lock \in locks
  OBVIOUS
<1> HIDE DEF statuses, answers, attempts, stalls, locks
<1>3. [y EXCEPT !.wrote = TRUE] \in AnyJob
  BY <1>1
<1>4. [y EXCEPT !.off = TRUE] \in AnyJob
  BY <1>1
<1>5. [y EXCEPT !.status = status, !.lock = lock] \in AnyJob
  BY <1>1, <1>2
<1>6. QED
  BY <1>3, <1>4, <1>5

LEMMA JobIsRecord ==
  ASSUME NEW x
  PROVE  x \in JobState /\ x # NoJob <=> x \in AnyJob
<1>1. JobState = {NoJob} \cup AnyJob
  BY DEF JobState, AnyJob
<1>2. x \in AnyJob => x.status # "none"
  BY DEF AnyJob, Queued, Ended
<1>3. NoJob.status = "none"
  BY DEF NoJob
<1>4. QED
  BY <1>1, <1>2, <1>3

LEMMA NoJobStatus ==
  ASSUME NEW x \in JobState
  PROVE  x.status = "none" <=> x = NoJob
BY DEF JobState, NoJob, Queued, Ended

LEMMA WorkerShapes ==
  ASSUME NEW x \in WorkerState
  PROVE  /\ x.phase \in {"idle", "find", "write", "reread"}
         /\ x.phase = "idle" <=> x = Idle
         /\ x # Idle => x.job \in Jobs
         /\ x.phase = "write" => x.seen \in Row
BY DEF WorkerState, Idle

---------------------------------------------------------------------------
(* Steps that change requests only, and what other steps do to requests.   *)

\* A request moves on; if it is creating now it was before, or its id is fresh.
LEMMA RequestStepKeepsIInv ==
  ASSUME IInv, NEW r \in Requests, NEW x \in RequestState, GoodRequest(x),
         requests' = [requests EXCEPT ![r] = x],
         Creating(x) =>
           \/ Creating(requests[r]) /\ requests[r].ask.sample = x.ask.sample
           \/ Fresh(x.ask.sample),
         UNCHANGED <<samples, jobs, workers>>
  PROVE  IInv'
<1>1. requests \in [Requests -> RequestState]
  BY DEF IInv, TypeOK
<1>2. TypeOK'
  BY <1>1 DEF IInv, TypeOK
<1>3. RequestsGood'
  <2>1. ASSUME NEW o \in Requests PROVE GoodRequest(requests[o])'
    <3>1. GoodRequest(requests'[o])
      BY <1>1 DEF IInv, RequestsGood
    <3>2. QED
      BY <3>1 DEF GoodRequest
  <2>2. ASSUME NEW o \in Requests, NEW q \in Requests, o # q,
               Creating(requests'[o]), Creating(requests'[q])
        PROVE  requests'[o].ask.sample # requests'[q].ask.sample
    <3>1. ASSUME NEW k \in Requests, k # r, Creating(requests[k]), Creating(x)
          PROVE  requests[k].ask.sample # x.ask.sample
      <4>1. requests[k] # Idle
        BY <3>1 DEF Creating, Idle
      <4>2. CASE Fresh(x.ask.sample)
        BY <4>1, <4>2 DEF Fresh
      <4>3. CASE Creating(requests[r]) /\ requests[r].ask.sample = x.ask.sample
        BY <3>1, <4>3 DEF IInv, RequestsGood
      <4>4. QED
        BY <3>1, <4>2, <4>3
    <3>2. CASE o # r /\ q # r
      BY <1>1, <2>2, <3>2 DEF IInv, RequestsGood
    <3>3. CASE o = r
      BY <1>1, <2>2, <3>1, <3>3
    <3>4. CASE q = r
      BY <1>1, <2>2, <3>1, <3>4
    <3>5. QED
      BY <3>2, <3>3, <3>4
  <2>3. QED
    BY <2>1, <2>2 DEF RequestsGood
<1>4. JobsGood' /\ WorkersGood'
  BY DEF IInv, JobsGood, GoodJob, SoundJob, Off, WorkersGood, GoodWorker, Holds
<1>5. QED
  BY <1>2, <1>3, <1>4 DEF IInv

LEMMA RequestsStayGood ==
  ASSUME IInv, DOMAIN samples' = DOMAIN samples,
         \A j \in Jobs : jobs[j] # NoJob => jobs'[j] # NoJob,
         \A r \in Requests : requests'[r] = requests[r] \/ requests'[r] = Idle
  PROVE  RequestsGood'
<1>1. ASSUME NEW r \in Requests PROVE GoodRequest(requests[r])'
  <2>1. CASE requests'[r] = Idle
    BY <2>1 DEF GoodRequest, Creating, Idle
  <2>2. CASE requests'[r] = requests[r]
    <3>1. GoodRequest(requests[r]) /\ requests[r] \in RequestState
      BY DEF IInv, RequestsGood, TypeOK
    <3>2. requests[r].phase = "wait" => requests[r].job \in Jobs
      BY <3>1, RequestShapes
    <3>3. QED
      BY <2>2, <3>1, <3>2 DEF GoodRequest, Creating
  <2>3. QED
    BY <2>1, <2>2
<1>2. ASSUME NEW r \in Requests, NEW o \in Requests, r # o,
             Creating(requests'[r]), Creating(requests'[o])
      PROVE  requests'[r].ask.sample # requests'[o].ask.sample
  <2>1. requests'[r] = requests[r] /\ requests'[o] = requests[o]
    BY <1>2 DEF Creating, Idle
  <2>2. QED
    BY <1>2, <2>1 DEF IInv, RequestsGood
<1>3. QED
  BY <1>1, <1>2 DEF RequestsGood

LEMMA BeginKeepsIInv ==
  ASSUME IInv, NEW r \in Requests, NEW ask \in Asks, Begin(r, ask)
  PROVE  IInv'
<1> DEFINE x == [phase |-> IF ask.kind = "create" THEN "order" ELSE "find", ask |-> ask]
<1>1. ask \in Ask
  BY AskAssumption
<1>2. /\ requests' = [requests EXCEPT ![r] = x] /\ UNCHANGED <<samples, jobs, workers>>
      /\ ask.kind = "create" => Fresh(ask.sample)
  BY DEF Begin
<1>3. x \in RequestState
  BY <1>1 DEF RequestState
<1>4. GoodRequest(x)
  BY <1>2 DEF GoodRequest, Creating, Fresh
<1>5. Creating(x) => Fresh(x.ask.sample)
  BY <1>2 DEF Creating
<1> HIDE DEF x
<1>6. QED
  BY <1>2, <1>3, <1>4, <1>5, RequestStepKeepsIInv

LEMMA IdleKeepsIInv ==
  ASSUME IInv, NEW r \in Requests, requests' = [requests EXCEPT ![r] = Idle],
         UNCHANGED <<samples, jobs, workers>>
  PROVE  IInv'
<1>1. Idle \in RequestState /\ GoodRequest(Idle) /\ ~Creating(Idle)
  BY DEF RequestState, GoodRequest, Creating, Idle
<1>2. QED
  BY <1>1, RequestStepKeepsIInv

LEMMA ChooseOrderKeepsIInv ==
  ASSUME IInv, NEW r \in Requests, ChooseOrder(r)
  PROVE  IInv'
<1> DEFINE q == requests[r]
           x == [phase |-> "insert", ask |-> q.ask,
                 order |-> Given(q.ask.sortOrder, NextOrder(q.ask.tenant)),
                 list |-> ListOf(q.ask.tenant)]
<1>1. q.phase = "order" /\ requests' = [requests EXCEPT ![r] = x]
      /\ UNCHANGED <<samples, jobs, workers>>
  BY DEF ChooseOrder
<1>2. q \in RequestState /\ GoodRequest(q)
  BY DEF IInv, TypeOK, RequestsGood
<1>3. q.ask \in Ask /\ q.ask.kind = "create" /\ q.ask.sample \notin DOMAIN samples
  BY <1>1, <1>2, RequestShapes DEF Idle, GoodRequest, Creating
<1>4. q.ask.tenant \in Tenants /\ q.ask.sortOrder \in Orders
  BY <1>3, AskShapes
<1>5. NextOrder(q.ask.tenant) \in Nat /\ IsEnd(ListOf(q.ask.tenant), NextOrder(q.ask.tenant))
  BY <1>4, NextOrderIsEnd DEF IInv
<1>6. ListOf(q.ask.tenant) \in SUBSET (Samples \X Nat)
  BY DEF ListOf, LiveOf, IInv, TypeOK, Row
<1>7. x \in RequestState
  BY <1>3, <1>4, <1>5, <1>6 DEF RequestState, Given, Orders
<1>8. GoodRequest(x)
  BY <1>3, <1>5 DEF GoodRequest, Creating, Given
<1>9. Creating(q) /\ q.ask.sample = x.ask.sample
  BY <1>1 DEF Creating
<1> HIDE DEF x
<1>10. QED
  BY <1>1, <1>7, <1>8, <1>9, RequestStepKeepsIInv

LEMMA FindForWriteKeepsIInv ==
  ASSUME IInv, NEW r \in Requests, FindForWrite(r)
  PROVE  IInv'
<1> DEFINE q == requests[r]
           x == [phase |-> "write", ask |-> q.ask, seen |-> samples[q.ask.sample]]
<1>1. q.phase = "find" /\ q.ask.kind \in {"patch", "delete"} /\ UNCHANGED <<samples, jobs, workers>>
      /\ requests' = [requests EXCEPT ![r] =
           IF ~Found(q.ask.sample, q.ask.tenant) THEN Idle ELSE x]
  BY DEF FindForWrite
<1>2. CASE ~Found(q.ask.sample, q.ask.tenant)
  BY <1>1, <1>2, IdleKeepsIInv
<1>3. CASE Found(q.ask.sample, q.ask.tenant)
  <2>1. q.ask.sample \in DOMAIN samples /\ samples[q.ask.sample] \in Row
    BY <1>3 DEF Found, Live, IInv, TypeOK
  <2>2. q.ask \in Ask
    BY <1>1, RequestShapes DEF IInv, TypeOK, Idle
  <2>3. x \in RequestState /\ GoodRequest(x) /\ ~Creating(x)
    BY <1>1, <2>1, <2>2 DEF RequestState, GoodRequest, Creating
  <2>4. requests' = [requests EXCEPT ![r] = x]
    BY <1>1, <1>3
  <2> HIDE DEF x
  <2>5. QED
    BY <1>1, <2>3, <2>4, RequestStepKeepsIInv
<1>4. QED
  BY <1>2, <1>3

\* A new row: nothing refers to it yet, and no other request is about to create it.
LEMMA InsertKeepsIInv ==
  ASSUME IInv, NEW r \in Requests, Insert(r)
  PROVE  IInv'
<1> DEFINE q == requests[r]
           row == [tenant |-> q.ask.tenant, isActive |-> TRUE, sortOrder |-> q.order,
                   deleted |-> FALSE]
<1>1. /\ q.phase = "insert" /\ requests' = [requests EXCEPT ![r] = Idle]
      /\ samples' = [s \in DOMAIN samples \cup {q.ask.sample} |->
                       IF s # q.ask.sample THEN samples[s] ELSE row]
      /\ UNCHANGED <<jobs, workers>>
  BY DEF Insert
<1>2. q \in RequestState /\ GoodRequest(q)
  BY DEF IInv, TypeOK, RequestsGood
<1>3. q.ask \in Ask /\ q.ask.sample \notin DOMAIN samples /\ q.order \in Nat /\ Creating(q)
  BY <1>1, <1>2, RequestShapes DEF Idle, GoodRequest, Creating
<1>4. q.ask.sample \in Samples /\ q.ask.tenant \in Tenants
  BY <1>3, AskShapes
<1>5. /\ DOMAIN samples' = DOMAIN samples \cup {q.ask.sample}
      /\ \A s \in DOMAIN samples : samples'[s] = samples[s]
      /\ samples'[q.ask.sample] = row /\ row \in Row
  BY <1>1, <1>3, <1>4 DEF Row
<1> HIDE DEF row
<1>6. TypeOK'
  <2>1. DOMAIN samples' \subseteq Samples /\ samples' \in [DOMAIN samples' -> Row]
    BY <1>1, <1>4, <1>5 DEF IInv, TypeOK
  <2>2. requests' \in [Requests -> RequestState]
    BY <1>1 DEF IInv, TypeOK, RequestState
  <2>3. QED
    BY <1>1, <2>1, <2>2 DEF IInv, TypeOK
<1>7. ASSUME NEW o \in Requests PROVE requests'[o] = IF o = r THEN Idle ELSE requests[o]
  BY <1>1 DEF IInv, TypeOK
<1>8. RequestsGood'
  <2>1. ASSUME NEW o \in Requests PROVE GoodRequest(requests[o])'
    <3>1. CASE o = r
      BY <1>7, <3>1 DEF GoodRequest, Creating, Idle
    <3>2. CASE o # r
      <4>1. requests'[o] = requests[o] /\ GoodRequest(requests[o])
        BY <1>7, <3>2 DEF IInv, RequestsGood
      <4>2. Creating(requests[o]) => requests[o].ask.sample # q.ask.sample
        BY <1>3, <3>2 DEF IInv, RequestsGood
      <4>3. QED
        BY <1>1, <1>5, <4>1, <4>2 DEF GoodRequest, Creating
    <3>3. QED
      BY <3>1, <3>2
  <2>2. ASSUME NEW o \in Requests, NEW k \in Requests, o # k,
               Creating(requests'[o]), Creating(requests'[k])
        PROVE  requests'[o].ask.sample # requests'[k].ask.sample
    <3>1. o # r /\ k # r
      BY <1>7, <2>2 DEF Creating, Idle
    <3>2. QED
      BY <1>7, <2>2, <3>1 DEF IInv, RequestsGood
  <2>3. QED
    BY <2>1, <2>2 DEF RequestsGood
<1>9. JobsGood'
  BY <1>1, <1>5 DEF IInv, JobsGood, GoodJob, SoundJob, Off
<1>10. WorkersGood'
  BY <1>1 DEF IInv, WorkersGood, GoodWorker, Holds
<1>11. QED
  BY <1>6, <1>8, <1>9, <1>10 DEF IInv

LEMMA FindForJobKeepsIInv ==
  ASSUME IInv, NEW r \in Requests, FindForJob(r)
  PROVE  IInv'
<1> DEFINE q == requests[r]
<1>1. q.phase = "find" /\ UNCHANGED <<samples, workers>>
  BY DEF FindForJob
<1>2. q.ask \in Ask
  BY <1>1, RequestShapes DEF IInv, TypeOK, Idle
<1>3. CASE ~Found(q.ask.sample, q.ask.tenant)
  <2>1. requests' = [requests EXCEPT ![r] = Idle] /\ UNCHANGED jobs
    BY <1>3 DEF FindForJob
  <2>2. QED
    BY <1>1, <2>1, IdleKeepsIInv
<1>4. CASE Found(q.ask.sample, q.ask.tenant)
  <2>1. PICK j \in Jobs :
          /\ jobs[j] = NoJob
          /\ jobs' = [jobs EXCEPT ![j] =
               [status |-> "adding", sample |-> q.ask.sample, tenant |-> q.ask.tenant,
                answer |-> 0, attempts |-> 0, stalls |-> 0, lock |-> Nobody,
                wrote |-> FALSE, off |-> FALSE]]
          /\ requests' = [requests EXCEPT ![r] = [phase |-> "wait", ask |-> q.ask, job |-> j]]
    BY <1>4 DEF FindForJob
  <2> DEFINE x == [status |-> "adding", sample |-> q.ask.sample, tenant |-> q.ask.tenant,
                   answer |-> 0, attempts |-> 0, stalls |-> 0, lock |-> Nobody,
                   wrote |-> FALSE, off |-> FALSE]
             y == [phase |-> "wait", ask |-> q.ask, job |-> j]
  <2>2. q.ask.sample \in Samples /\ q.ask.tenant \in Tenants
    BY <1>2, AskShapes
  <2>3. /\ x \in JobState /\ x # NoJob /\ x.status = "adding" /\ x.attempts = 0 /\ x.stalls = 0
        /\ ~x.wrote /\ x.answer = 0 /\ x.sample = q.ask.sample /\ x.tenant = q.ask.tenant
    BY <2>2, QueueAssumption DEF JobState, NoJob
  <2>4. y \in RequestState /\ y.phase = "wait" /\ y.job = j
    BY <1>2 DEF RequestState
  <2>5. jobs' = [jobs EXCEPT ![j] = x] /\ requests' = [requests EXCEPT ![r] = y]
    BY <2>1
  <2>6. q.ask.sample \in DOMAIN samples /\ samples[q.ask.sample].tenant = q.ask.tenant
    BY <1>4 DEF Found, Live
  <2> HIDE DEF x, y
  <2>7. /\ \A k \in Jobs : jobs'[k] = IF k = j THEN x ELSE jobs[k]
        /\ \A o \in Requests : requests'[o] = IF o = r THEN y ELSE requests[o]
    BY <2>5 DEF IInv, TypeOK
  <2>8. TypeOK'
    BY <1>1, <2>3, <2>4, <2>5 DEF IInv, TypeOK
  <2>9. RequestsGood'
    <3>1. ASSUME NEW o \in Requests PROVE GoodRequest(requests[o])'
      <4>1. CASE o = r
        BY <1>1, <2>3, <2>4, <2>7, <4>1 DEF GoodRequest, Creating
      <4>2. CASE o # r
        <5>1. requests'[o] = requests[o] /\ GoodRequest(requests[o])
              /\ requests[o] \in RequestState
          BY <2>7, <4>2 DEF IInv, RequestsGood, TypeOK
        <5>2. requests[o].phase = "wait" => requests[o].job \in Jobs
          BY <5>1, RequestShapes
        <5>3. QED
          BY <1>1, <2>3, <2>7, <5>1, <5>2 DEF GoodRequest, Creating
      <4>3. QED
        BY <4>1, <4>2
    <3>2. ASSUME NEW o \in Requests, NEW k \in Requests, o # k,
                 Creating(requests'[o]), Creating(requests'[k])
          PROVE  requests'[o].ask.sample # requests'[k].ask.sample
      <4>1. o # r /\ k # r
        BY <2>4, <2>7, <3>2 DEF Creating
      <4>2. QED
        BY <2>7, <3>2, <4>1 DEF IInv, RequestsGood
    <3>3. QED
      BY <3>1, <3>2 DEF RequestsGood
  <2>10. JobsGood'
    <3> SUFFICES ASSUME NEW k \in Jobs, jobs'[k] # NoJob PROVE GoodJob(jobs[k])'
      BY DEF JobsGood
    <3>1. CASE k = j
      BY <1>1, <2>3, <2>6, <2>7, <3>1, QueueAssumption
         DEF GoodJob, SoundJob, Queued, Ended
    <3>2. CASE k # j
      BY <1>1, <2>7, <3>2 DEF IInv, JobsGood, GoodJob, SoundJob, Off
    <3>3. QED
      BY <3>1, <3>2
  <2>11. WorkersGood'
    <3> SUFFICES ASSUME NEW w \in Workers, workers[w] # Idle PROVE GoodWorker(w)'
      BY <1>1 DEF WorkersGood
    <3>1. GoodWorker(w) /\ workers[w].job \in Jobs
      BY WorkerShapes DEF IInv, WorkersGood, TypeOK
    <3>2. workers[w].job # j
      BY <2>1, <3>1 DEF GoodWorker
    <3>3. QED
      BY <1>1, <2>7, <3>1, <3>2 DEF GoodWorker, Holds
  <2>12. QED
    BY <2>8, <2>9, <2>10, <2>11 DEF IInv
<1>5. QED
  BY <1>3, <1>4

---------------------------------------------------------------------------
(* Jobs and the table.                                                     *)

LEMMA MarkOffFacts ==
  ASSUME NEW J \in [Jobs -> JobState], NEW table, NEW j \in Jobs
  PROVE  /\ MarkOff(J, table)[j] \in JobState
         /\ J[j] = NoJob => MarkOff(J, table)[j] = NoJob
         /\ J[j] # NoJob =>
              /\ MarkOff(J, table)[j] # NoJob
              /\ MarkOff(J, table)[j].status = J[j].status
              /\ MarkOff(J, table)[j].sample = J[j].sample
              /\ MarkOff(J, table)[j].tenant = J[j].tenant
              /\ MarkOff(J, table)[j].answer = J[j].answer
              /\ MarkOff(J, table)[j].attempts = J[j].attempts
              /\ MarkOff(J, table)[j].stalls = J[j].stalls
              /\ MarkOff(J, table)[j].lock = J[j].lock
              /\ MarkOff(J, table)[j].wrote = J[j].wrote
              /\ J[j].off => MarkOff(J, table)[j].off
              /\ J[j].status \in Queued /\ Off(table, J[j].sample)
                   => MarkOff(J, table)[j].off
<1> DEFINE y == MarkOff(J, table)[j]
           x == J[j]
<1>1. y = IF x.status \in Queued /\ Off(table, x.sample) THEN [x EXCEPT !.off = TRUE] ELSE x
  BY DEF MarkOff
<1>2. x \in JobState
  OBVIOUS
<1>3. x = NoJob => x.status \notin Queued
  BY DEF NoJob, Queued, Ended
<1> HIDE DEF x, y
<1>4. CASE x = NoJob
  BY <1>1, <1>2, <1>3, <1>4 DEF x, y
<1>5. CASE x # NoJob
  <2> DEFINE z == [x EXCEPT !.off = TRUE]
  <2>0. x \in AnyJob
    BY <1>2, <1>5, JobIsRecord
  <2>1. /\ z \in AnyJob /\ z.off
        /\ z.status = x.status /\ z.sample = x.sample /\ z.tenant = x.tenant
        /\ z.answer = x.answer /\ z.attempts = x.attempts /\ z.stalls = x.stalls
        /\ z.lock = x.lock /\ z.wrote = x.wrote
    <3>1. z \in AnyJob
      <4>1. "lost" \in {"adding", "lost"} \cup Queued /\ Nobody \in Workers \cup {Nobody}
        OBVIOUS
      <4>2. QED
        BY <2>0, <4>1, JobStaysAJob
    <3>2. /\ z.off
          /\ z.status = x.status /\ z.sample = x.sample /\ z.tenant = x.tenant
          /\ z.answer = x.answer /\ z.attempts = x.attempts /\ z.stalls = x.stalls
          /\ z.lock = x.lock /\ z.wrote = x.wrote
      BY <2>0, SMTT(60) DEF AnyJob
    <3>3. QED
      BY <3>1, <3>2
  <2>a. z \in JobState /\ z # NoJob
    BY <2>1, JobIsRecord
  <2>b. y = IF x.status \in Queued /\ Off(table, x.sample) THEN z ELSE x
    BY <1>1
  <2> HIDE DEF z
  <2>2. /\ y \in JobState /\ y # NoJob
        /\ y.status = x.status /\ y.sample = x.sample /\ y.tenant = x.tenant
        /\ y.answer = x.answer /\ y.attempts = x.attempts /\ y.stalls = x.stalls
        /\ y.lock = x.lock /\ y.wrote = x.wrote
        /\ x.off => y.off
        /\ x.status \in Queued /\ Off(table, x.sample) => y.off
    BY <1>2, <1>5, <2>1, <2>a, <2>b
  <2>3. QED
    BY <1>5, <2>2 DEF x, y
<1>6. QED
  BY <1>4, <1>5

\* A step that leaves every tenant where it is and marks the jobs of what is off.
LEMMA MarkedJobsAreGood ==
  ASSUME NEW J \in [Jobs -> JobState], jobs' = MarkOff(J, samples'),
         DOMAIN samples' = DOMAIN samples,
         \A s \in DOMAIN samples : samples'[s].tenant = samples[s].tenant,
         \A j \in Jobs : J[j] # NoJob => SoundJob(J[j])
  PROVE  JobsGood' /\ jobs' \in [Jobs -> JobState]
<1>1. \A j \in Jobs : jobs'[j] \in JobState
  BY MarkOffFacts
<1>2. jobs' \in [Jobs -> JobState]
  BY <1>1 DEF MarkOff
<1>3. ASSUME NEW j \in Jobs, jobs'[j] # NoJob PROVE GoodJob(jobs[j])'
  <2>1. J[j] # NoJob
    BY <1>3, MarkOffFacts
  <2>2. SoundJob(J[j])
    BY <2>1
  <2>3. /\ jobs'[j].status = J[j].status /\ jobs'[j].sample = J[j].sample
        /\ jobs'[j].tenant = J[j].tenant /\ jobs'[j].answer = J[j].answer
        /\ jobs'[j].attempts = J[j].attempts /\ jobs'[j].stalls = J[j].stalls
        /\ jobs'[j].wrote = J[j].wrote /\ (J[j].off => jobs'[j].off)
        /\ J[j].status \in Queued /\ Off(samples', J[j].sample) => jobs'[j].off
    BY <2>1, MarkOffFacts
  <2>4. QED
    BY <2>2, <2>3 DEF GoodJob, SoundJob
<1>4. QED
  BY <1>2, <1>3 DEF JobsGood

LEMMA WorkerStaysGood ==
  ASSUME NEW w \in Workers, GoodWorker(w), workers'[w] = workers[w],
         NEW x, NEW y, x = jobs[workers[w].job], y = jobs'[workers[w].job],
         y # NoJob, y.status = x.status, y.lock = x.lock, y.attempts = x.attempts,
         y.stalls = x.stalls, y.wrote = x.wrote, x.off => y.off
  PROVE  GoodWorker(w)'
BY DEF GoodWorker, Holds

\* A job with a fault asks little of its workers.
LEMMA WorkerAfterFault ==
  ASSUME NEW w \in Workers, GoodWorker(w), workers'[w] = workers[w],
         NEW x, NEW y, x = jobs[workers[w].job], y = jobs'[workers[w].job],
         y # NoJob, y.status \in Queued, y.attempts + y.stalls # 0, x.off => y.off
  PROVE  GoodWorker(w)'
BY DEF GoodWorker, Holds

LEMMA WrittenFacts ==
  ASSUME NEW row \in Row, NEW seen \in Row, NEW a \in BOOLEAN \cup {Absent}, NEW o \in Orders
  PROVE  /\ Written(row, seen, a, o) \in Row
         /\ Written(row, seen, a, o).tenant = row.tenant
         /\ Written(row, seen, a, o).deleted = row.deleted
         /\ a \in BOOLEAN => Written(row, seen, a, o).isActive = a
BY AskAssumption DEF Written, Given, Row, Orders

\* PATCH and DELETE.
LEMMA TableStepKeepsIInv ==
  ASSUME IInv, NEW r \in Requests, requests' = [requests EXCEPT ![r] = Idle],
         NEW s \in DOMAIN samples, NEW row \in Row, row.tenant = samples[s].tenant,
         samples' = [samples EXCEPT ![s] = row], jobs' = MarkOff(jobs, samples'),
         UNCHANGED workers
  PROVE  IInv'
<1>1. /\ DOMAIN samples' = DOMAIN samples
      /\ \A o \in DOMAIN samples : samples'[o].tenant = samples[o].tenant
      /\ DOMAIN samples' \subseteq Samples /\ samples' \in [DOMAIN samples' -> Row]
  BY DEF IInv, TypeOK
<1>2. jobs \in [Jobs -> JobState] /\ \A j \in Jobs : jobs[j] # NoJob => SoundJob(jobs[j])
  BY DEF IInv, TypeOK, JobsGood, GoodJob
<1>3. JobsGood' /\ jobs' \in [Jobs -> JobState]
  BY <1>1, <1>2, MarkedJobsAreGood
<1>4. requests' \in [Requests -> RequestState]
      /\ \A o \in Requests : requests'[o] = requests[o] \/ requests'[o] = Idle
  BY DEF IInv, TypeOK, RequestState
<1>5. \A j \in Jobs : jobs[j] # NoJob => jobs'[j] # NoJob
  BY <1>2, MarkOffFacts
<1>6. RequestsGood'
  BY <1>1, <1>4, <1>5, RequestsStayGood
<1>7. ASSUME NEW w \in Workers, workers'[w] # Idle PROVE GoodWorker(w)'
  <2>1. GoodWorker(w) /\ workers[w].job \in Jobs /\ jobs[workers[w].job] # NoJob
        /\ workers'[w] = workers[w]
    BY <1>7, WorkerShapes DEF IInv, WorkersGood, TypeOK, GoodWorker
  <2>2. /\ jobs'[workers[w].job] # NoJob
        /\ jobs'[workers[w].job].status = jobs[workers[w].job].status
        /\ jobs'[workers[w].job].lock = jobs[workers[w].job].lock
        /\ jobs'[workers[w].job].attempts = jobs[workers[w].job].attempts
        /\ jobs'[workers[w].job].stalls = jobs[workers[w].job].stalls
        /\ jobs'[workers[w].job].wrote = jobs[workers[w].job].wrote
        /\ jobs[workers[w].job].off => jobs'[workers[w].job].off
    BY <1>2, <2>1, MarkOffFacts
  <2>3. QED
    BY <2>1, <2>2, WorkerStaysGood
<1>8. WorkersGood'
  BY <1>7 DEF WorkersGood
<1>9. TypeOK'
  BY <1>1, <1>3, <1>4 DEF IInv, TypeOK
<1>10. QED
  BY <1>3, <1>6, <1>8, <1>9 DEF IInv

LEMMA PatchKeepsIInv ==
  ASSUME IInv, NEW r \in Requests, Patch(r)
  PROVE  IInv'
<1> DEFINE q == requests[r]
           s == q.ask.sample
           row == Written(samples[s], q.seen, q.ask.isActive, q.ask.sortOrder)
<1>1. /\ q.phase = "write" /\ q.ask.kind = "patch"
      /\ samples' = [samples EXCEPT ![s] = row] /\ jobs' = MarkOff(jobs, samples')
      /\ requests' = [requests EXCEPT ![r] = Idle] /\ UNCHANGED workers
  BY DEF Patch
<1>2. q \in RequestState /\ GoodRequest(q)
  BY DEF IInv, TypeOK, RequestsGood
<1>3. q.ask \in Ask /\ q.seen \in Row /\ s \in DOMAIN samples
  BY <1>1, <1>2, RequestShapes DEF Idle, GoodRequest
<1>4. q.ask.isActive \in BOOLEAN \cup {Absent} /\ q.ask.sortOrder \in Orders
  BY <1>1, <1>3, AskShapes
<1>5. samples[s] \in Row
  BY <1>3 DEF IInv, TypeOK
<1> HIDE DEF q, s
<1>6. row \in Row /\ row.tenant = samples[s].tenant
  BY <1>3, <1>4, <1>5, WrittenFacts
<1> HIDE DEF row
<1>7. QED
  BY <1>1, <1>3, <1>6, TableStepKeepsIInv

LEMMA RemoveKeepsIInv ==
  ASSUME IInv, NEW r \in Requests, Remove(r)
  PROVE  IInv'
<1> DEFINE q == requests[r]
           s == q.ask.sample
           row == [samples[s] EXCEPT !.deleted = TRUE]
<1>1. /\ q.phase = "write" /\ q.ask.kind = "delete"
      /\ samples' = [samples EXCEPT ![s] = row] /\ jobs' = MarkOff(jobs, samples')
      /\ requests' = [requests EXCEPT ![r] = Idle] /\ UNCHANGED workers
  BY DEF Remove
<1>2. s \in DOMAIN samples
  BY <1>1 DEF IInv, RequestsGood, GoodRequest
<1>3. samples[s] \in Row
  BY <1>2 DEF IInv, TypeOK
<1>4. row \in Row /\ row.tenant = samples[s].tenant
  BY <1>3 DEF Row
<1> HIDE DEF row, s
<1>5. QED
  BY <1>1, <1>2, <1>4, TableStepKeepsIInv

---------------------------------------------------------------------------
(* Steps of a job.                                                         *)

\* What a queued job has always, from the invariant.
LEMMA KnownJob ==
  ASSUME IInv, NEW j \in Jobs, jobs[j] # NoJob
  PROVE  jobs[j] \in AnyJob /\ GoodJob(jobs[j])
BY JobIsRecord DEF IInv, TypeOK, JobsGood

LEMMA KnownWorker ==
  ASSUME IInv, NEW w \in Workers, workers[w] # Idle
  PROVE  /\ GoodWorker(w) /\ workers[w].job \in Jobs /\ jobs[workers[w].job] # NoJob
         /\ jobs[workers[w].job] \in AnyJob /\ GoodJob(jobs[workers[w].job])
         /\ workers[w] \in WorkerState
<1>1. workers[w] \in WorkerState /\ GoodWorker(w)
  BY DEF IInv, TypeOK, WorkersGood
<1>2. workers[w].job \in Jobs /\ jobs[workers[w].job] # NoJob
  BY <1>1, WorkerShapes DEF GoodWorker
<1>3. QED
  BY <1>1, <1>2, KnownJob

\* One job changes, the table does not.
LEMMA JobStepKeepsIInv ==
  ASSUME IInv, NEW j \in Jobs, jobs[j] # NoJob, NEW x \in AnyJob, GoodJob(x),
         jobs' = [jobs EXCEPT ![j] = x], UNCHANGED samples,
         requests' \in [Requests -> RequestState],
         \A r \in Requests : requests'[r] = requests[r] \/ requests'[r] = Idle,
         workers' \in [Workers -> WorkerState],
         \A w \in Workers : workers'[w] # Idle =>
           \/ GoodWorker(w)'
           \/ workers'[w] = workers[w] /\ workers[w].job # j
  PROVE  IInv'
<1>1. \A k \in Jobs : jobs'[k] = IF k = j THEN x ELSE jobs[k]
  BY DEF IInv, TypeOK
<1>2. x \in JobState /\ x # NoJob
  BY JobIsRecord
<1>3. jobs' \in [Jobs -> JobState]
  BY <1>2 DEF IInv, TypeOK
<1>4. TypeOK'
  BY <1>3 DEF IInv, TypeOK
<1>5. RequestsGood'
  BY <1>1, <1>2, RequestsStayGood
<1>6. JobsGood'
  <2> SUFFICES ASSUME NEW k \in Jobs, jobs'[k] # NoJob PROVE GoodJob(jobs[k])'
    BY DEF JobsGood
  <2>1. GoodJob(jobs'[k])
    BY <1>1 DEF IInv, JobsGood
  <2>2. QED
    BY <2>1 DEF GoodJob, SoundJob, Off
<1>7. ASSUME NEW w \in Workers, workers'[w] # Idle PROVE GoodWorker(w)'
  <2>1. SUFFICES ASSUME workers'[w] = workers[w], workers[w].job # j PROVE GoodWorker(w)'
    BY <1>7
  <2>2. GoodWorker(w) /\ workers[w].job \in Jobs /\ jobs[workers[w].job] # NoJob
    BY <1>7, <2>1, KnownWorker
  <2>3. jobs'[workers[w].job] = jobs[workers[w].job]
    BY <1>1, <2>1, <2>2
  <2>4. QED
    BY <2>1, <2>2, <2>3, WorkerStaysGood
<1>8. WorkersGood'
  BY <1>7 DEF WorkersGood
<1>9. QED
  BY <1>4, <1>5, <1>6, <1>8 DEF IInv

\* A job that changes neither status nor lock nor its counts: its workers do not notice.
LEMMA AnswerKeepsIInv ==
  ASSUME IInv, NEW r \in Requests, NEW code \in {202, 503}, requests[r].phase = "wait",
         Answer(r, code), code = 202 => jobs[requests[r].job].status \in Queued
  PROVE  IInv'
<1> DEFINE j == requests[r].job
           y == jobs[j]
           x == [y EXCEPT !.answer = code]
<1>1. requests[r] \in RequestState /\ GoodRequest(requests[r])
  BY DEF IInv, TypeOK, RequestsGood
<1>2. j \in Jobs /\ y # NoJob
  BY <1>1, RequestShapes DEF GoodRequest
<1>3. y \in AnyJob /\ GoodJob(y)
  BY <1>2, KnownJob
<1>4. jobs' = [jobs EXCEPT ![j] = x] /\ requests' = [requests EXCEPT ![r] = Idle]
      /\ UNCHANGED <<samples, workers>>
  BY DEF Answer
<1> HIDE DEF j
<1>5. /\ x \in AnyJob /\ x.answer = code
      /\ x.status = y.status /\ x.sample = y.sample /\ x.tenant = y.tenant
      /\ x.attempts = y.attempts /\ x.stalls = y.stalls /\ x.lock = y.lock
      /\ x.wrote = y.wrote /\ x.off = y.off
  BY <1>3 DEF AnyJob
<1>6. code = 202 => x.status \in Queued
  BY <1>5 DEF j
<1> HIDE DEF x
<1>7. GoodJob(x)
  BY <1>3, <1>5, <1>6 DEF GoodJob, SoundJob
<1>8. requests' \in [Requests -> RequestState]
      /\ \A o \in Requests : requests'[o] = requests[o] \/ requests'[o] = Idle
  BY <1>4 DEF IInv, TypeOK, RequestState
<1>9. workers' \in [Workers -> WorkerState]
  BY <1>4 DEF IInv, TypeOK
<1>10. ASSUME NEW w \in Workers, workers'[w] # Idle
       PROVE  GoodWorker(w)' \/ (workers'[w] = workers[w] /\ workers[w].job # j)
  <2>1. SUFFICES ASSUME workers[w].job = j PROVE GoodWorker(w)'
    BY <1>4
  <2>2. GoodWorker(w) /\ workers'[w] = workers[w]
    BY <1>4, <1>10, KnownWorker
  <2>3. jobs'[workers[w].job] = x /\ jobs[workers[w].job] = y
    BY <1>2, <1>4, <2>1 DEF IInv, TypeOK
  <2>4. x # NoJob
    BY <1>5, JobIsRecord
  <2>5. QED
    BY <1>5, <2>2, <2>3, <2>4, WorkerStaysGood
<1> HIDE DEF y
<1>11. QED
  BY <1>2, <1>4, <1>5, <1>7, <1>8, <1>9, <1>10, JobStepKeepsIInv DEF y

\* No worker has a job that has not arrived or waits without a fault.
LEMMA NoWorkerYet ==
  ASSUME IInv, NEW w \in Workers, workers[w] # Idle, NEW y, y = jobs[workers[w].job]
  PROVE  /\ y.status \in Queued
         /\ y.attempts + y.stalls = 0 => y.status = "active" /\ y.lock = w
BY KnownWorker DEF GoodWorker, Holds

LEMMA AddArrivesKeepsIInv ==
  ASSUME IInv, NEW j \in Jobs, AddArrives(j)
  PROVE  IInv'
<1> DEFINE y == jobs[j]
           z == [y EXCEPT !.status = "waiting"]
           J == [jobs EXCEPT ![j] = z]
           x == MarkOff(J, samples)[j]
<1>1. y.status = "adding" /\ jobs' = MarkOff(J, samples) /\ UNCHANGED <<samples, requests, workers>>
  BY DEF AddArrives
<1>2. y # NoJob
  BY <1>1 DEF NoJob
<1>3. y \in AnyJob /\ GoodJob(y) /\ jobs \in [Jobs -> JobState]
  BY <1>2, KnownJob DEF IInv, TypeOK
<1>4. /\ z \in AnyJob /\ z.status = "waiting"
      /\ z.sample = y.sample /\ z.tenant = y.tenant /\ z.answer = y.answer
      /\ z.attempts = y.attempts /\ z.stalls = y.stalls /\ z.wrote = y.wrote
      /\ z.off = y.off
  BY <1>3 DEF AnyJob, Queued
<1> HIDE DEF z
<1>5. z \in JobState /\ z # NoJob
  BY <1>4, JobIsRecord
<1>6. J \in [Jobs -> JobState] /\ J[j] = z /\ \A k \in Jobs \ {j} : J[k] = jobs[k]
  BY <1>3, <1>5
<1>7. "waiting" \in Queued /\ "adding" \notin Queued
  BY DEF Queued, Ended
<1>8. SoundJob(z)
  BY <1>1, <1>3, <1>4, <1>7 DEF GoodJob, SoundJob
<1>9. \A k \in Jobs : J[k] # NoJob => SoundJob(J[k])
  BY <1>6, <1>8 DEF IInv, JobsGood, GoodJob
<1> HIDE DEF J
<1>10. JobsGood' /\ jobs' \in [Jobs -> JobState]
  BY <1>1, <1>6, <1>9, MarkedJobsAreGood
<1>11. \A k \in Jobs : jobs[k] # NoJob => jobs'[k] # NoJob
  BY <1>1, <1>5, <1>6, MarkOffFacts
<1>12. RequestsGood'
  BY <1>1, <1>11, RequestsStayGood
<1>13. ASSUME NEW w \in Workers, workers'[w] # Idle PROVE GoodWorker(w)'
  <2>1. workers'[w] = workers[w] /\ GoodWorker(w) /\ workers[w].job \in Jobs
        /\ jobs[workers[w].job] # NoJob
    BY <1>1, <1>13, KnownWorker
  <2>2. workers[w].job # j
    BY <1>1, <1>7, <1>13, <2>1, NoWorkerYet
  <2>3. J[workers[w].job] = jobs[workers[w].job]
    BY <1>6, <2>1, <2>2
  <2>4. /\ jobs'[workers[w].job] # NoJob
        /\ jobs'[workers[w].job].status = jobs[workers[w].job].status
        /\ jobs'[workers[w].job].lock = jobs[workers[w].job].lock
        /\ jobs'[workers[w].job].attempts = jobs[workers[w].job].attempts
        /\ jobs'[workers[w].job].stalls = jobs[workers[w].job].stalls
        /\ jobs'[workers[w].job].wrote = jobs[workers[w].job].wrote
        /\ jobs[workers[w].job].off => jobs'[workers[w].job].off
    BY <1>1, <1>6, <2>1, <2>3, MarkOffFacts
  <2>5. QED
    BY <2>1, <2>4, WorkerStaysGood
<1>14. WorkersGood'
  BY <1>13 DEF WorkersGood
<1>15. TypeOK'
  BY <1>1, <1>10 DEF IInv, TypeOK
<1>16. QED
  BY <1>10, <1>12, <1>14, <1>15 DEF IInv

LEMMA AddIsLostKeepsIInv ==
  ASSUME IInv, NEW j \in Jobs, AddIsLost(j)
  PROVE  IInv'
<1> DEFINE y == jobs[j]
           x == [y EXCEPT !.status = "lost"]
<1>1. y.status = "adding" /\ jobs' = [jobs EXCEPT ![j] = x]
      /\ UNCHANGED <<samples, requests, workers>>
  BY DEF AddIsLost
<1>2. y # NoJob
  BY <1>1 DEF NoJob
<1>3. y \in AnyJob /\ GoodJob(y)
  BY <1>2, KnownJob
<1>4. /\ x \in AnyJob /\ x.status = "lost"
      /\ x.sample = y.sample /\ x.tenant = y.tenant /\ x.answer = y.answer
  BY <1>3 DEF AnyJob
<1>5. "lost" \notin Queued /\ "adding" \notin Queued
  BY DEF Queued, Ended
<1>6. GoodJob(x)
  BY <1>1, <1>3, <1>4, <1>5 DEF GoodJob, SoundJob
<1>7. ASSUME NEW w \in Workers, workers'[w] # Idle
      PROVE  workers'[w] = workers[w] /\ workers[w].job # j
  BY <1>1, <1>5, <1>7, NoWorkerYet
<1>8. requests' \in [Requests -> RequestState] /\ workers' \in [Workers -> WorkerState]
      /\ \A o \in Requests : requests'[o] = requests[o] \/ requests'[o] = Idle
  BY <1>1 DEF IInv, TypeOK
<1> HIDE DEF x, y
<1>9. QED
  BY <1>1, <1>2, <1>4, <1>6, <1>7, <1>8, JobStepKeepsIInv DEF y

\* The job when it loses its lock.
Unlocked(y, status, attempts, stalls) ==
  [y EXCEPT !.status = status, !.attempts = attempts, !.stalls = stalls, !.lock = Nobody]

LEMMA UnlockedFacts ==
  ASSUME NEW y \in AnyJob, NEW status \in {"adding", "lost"} \cup Queued,
         NEW attempts \in 0 .. Attempts, NEW stalls \in 0 .. MaxStalls + 1
  PROVE  LET x == Unlocked(y, status, attempts, stalls) IN
         /\ x \in AnyJob /\ x.status = status /\ x.attempts = attempts /\ x.stalls = stalls
         /\ x.sample = y.sample /\ x.tenant = y.tenant /\ x.answer = y.answer
         /\ x.wrote = y.wrote /\ x.off = y.off
<1> DEFINE AttemptRange == 0 .. Attempts
           StallRange == 0 .. MaxStalls + 1
           z == [status |-> status, sample |-> y.sample, tenant |-> y.tenant,
                 answer |-> y.answer, attempts |-> attempts, stalls |-> stalls,
                 lock |-> Nobody, wrote |-> y.wrote, off |-> y.off]
<1>1. AnyJob = [status : {"adding", "lost"} \cup Queued, sample : Samples, tenant : Tenants,
                answer : {0, 202, 503}, attempts : AttemptRange, stalls : StallRange,
                lock : Workers \cup {Nobody}, wrote : BOOLEAN, off : BOOLEAN]
  BY DEF AnyJob
<1>2. attempts \in AttemptRange /\ stalls \in StallRange
  OBVIOUS
<1> HIDE DEF AttemptRange, StallRange
<1>3. /\ y.sample \in Samples /\ y.tenant \in Tenants /\ y.answer \in {0, 202, 503}
      /\ y.wrote \in BOOLEAN /\ y.off \in BOOLEAN
  BY <1>1
<1>4. y = [status |-> y.status, sample |-> y.sample, tenant |-> y.tenant,
           answer |-> y.answer, attempts |-> y.attempts, stalls |-> y.stalls,
           lock |-> y.lock, wrote |-> y.wrote, off |-> y.off]
  BY <1>1
<1>5. Unlocked(y, status, attempts, stalls) = z
  <2>1. PICK x : x = [y EXCEPT !.status = status, !.attempts = attempts, !.stalls = stalls,
                               !.lock = Nobody]
    OBVIOUS
  <2>2. x = z
    BY <1>4, <2>1
  <2>3. QED
    BY <2>1, <2>2 DEF Unlocked
<1>6. z \in AnyJob
  BY <1>1, <1>2, <1>3
<1>7. QED
  BY <1>5, <1>6

LEMMA StallKeepsIInv ==
  ASSUME IInv, NEW j \in Jobs, Stall(j)
  PROVE  IInv'
<1> DEFINE y == jobs[j]
           status == IF y.stalls < MaxStalls THEN "waiting" ELSE "failed"
           x == [y EXCEPT !.status = status, !.stalls = @ + 1, !.lock = Nobody]
<1>1. y.status = "active" /\ jobs' = [jobs EXCEPT ![j] = x]
      /\ UNCHANGED <<samples, requests, workers>>
  BY DEF Stall
<1>2. y # NoJob
  BY <1>1 DEF NoJob
<1>3. y \in AnyJob /\ GoodJob(y)
  BY <1>2, KnownJob
<1>4. y.stalls <= MaxStalls /\ y.attempts < Attempts /\ y.stalls \in Nat /\ y.attempts \in Nat
  BY <1>1, <1>3, QueueAssumption DEF GoodJob, SoundJob, AnyJob
<1>5. status \in {"waiting", "failed"} /\ (status = "waiting" => y.stalls < MaxStalls)
      /\ {"waiting", "failed", "active"} \subseteq Queued
  BY DEF Queued, Ended
<1> HIDE DEF status
<1>6. /\ x \in AnyJob /\ x.status = status /\ x.stalls = y.stalls + 1
      /\ x.sample = y.sample /\ x.tenant = y.tenant /\ x.answer = y.answer
      /\ x.attempts = y.attempts /\ x.wrote = y.wrote /\ x.off = y.off
  <2>1. x = Unlocked(y, status, y.attempts, y.stalls + 1)
    BY <1>3 DEF AnyJob, Unlocked
  <2>2. y.attempts \in 0 .. Attempts /\ y.stalls + 1 \in 0 .. MaxStalls + 1
        /\ status \in {"adding", "lost"} \cup Queued
    BY <1>4, <1>5, QueueAssumption
  <2> HIDE DEF x, y
  <2>3. QED
    BY <1>3, <2>1, <2>2, UnlockedFacts
<1> HIDE DEF x
<1>7. GoodJob(x)
  BY <1>1, <1>3, <1>4, <1>5, <1>6, QueueAssumption DEF GoodJob, SoundJob
<1>8. x.attempts + x.stalls # 0
  BY <1>4, <1>6
<1>9. ASSUME NEW w \in Workers, workers'[w] # Idle
      PROVE  GoodWorker(w)' \/ (workers'[w] = workers[w] /\ workers[w].job # j)
  <2>1. SUFFICES ASSUME workers[w].job = j PROVE GoodWorker(w)'
    BY <1>1
  <2>2. GoodWorker(w) /\ workers'[w] = workers[w]
    BY <1>1, <1>9, KnownWorker
  <2>3. jobs'[workers[w].job] = x /\ jobs[workers[w].job] = y
    BY <1>1, <2>1 DEF IInv, TypeOK
  <2>4. x # NoJob /\ x.status \in Queued /\ (y.off => x.off)
    BY <1>5, <1>6, JobIsRecord
  <2>5. QED
    BY <1>8, <2>2, <2>3, <2>4, WorkerAfterFault
<1>10. requests' \in [Requests -> RequestState] /\ workers' \in [Workers -> WorkerState]
      /\ \A o \in Requests : requests'[o] = requests[o] \/ requests'[o] = Idle
  BY <1>1 DEF IInv, TypeOK
<1> HIDE DEF y
<1>11. QED
  BY <1>1, <1>2, <1>6, <1>7, <1>9, <1>10, JobStepKeepsIInv DEF y

LEMMA DeliverKeepsIInv ==
  ASSUME IInv, NEW w \in Workers, NEW j \in Jobs, Deliver(w, j)
  PROVE  IInv'
<1> DEFINE y == jobs[j]
           x == [y EXCEPT !.status = "active", !.lock = w]
           v == [phase |-> "find", job |-> j]
<1>1. /\ workers[w] = Idle /\ y.status = "waiting" /\ jobs' = [jobs EXCEPT ![j] = x]
      /\ workers' = [workers EXCEPT ![w] = v] /\ UNCHANGED <<samples, requests>>
  BY DEF Deliver
<1>2. y # NoJob
  BY <1>1 DEF NoJob
<1>3. y \in AnyJob /\ GoodJob(y)
  BY <1>2, KnownJob
<1>4. {"active", "waiting"} \subseteq Queued
  BY DEF Queued, Ended
<1>5. /\ x \in AnyJob /\ x.status = "active" /\ x.lock = w
      /\ x.sample = y.sample /\ x.tenant = y.tenant /\ x.answer = y.answer
      /\ x.attempts = y.attempts /\ x.stalls = y.stalls /\ x.wrote = y.wrote
      /\ x.off = y.off
  <2>1. "active" \in {"adding", "lost"} \cup Queued /\ w \in Workers \cup {Nobody}
    BY <1>4
  <2>2. x \in AnyJob
    BY <1>3, <2>1, JobStaysAJob
  <2>3. /\ x.status = "active" /\ x.lock = w
        /\ x.sample = y.sample /\ x.tenant = y.tenant /\ x.answer = y.answer
        /\ x.attempts = y.attempts /\ x.stalls = y.stalls /\ x.wrote = y.wrote
        /\ x.off = y.off
    BY <1>3, SMTT(60) DEF AnyJob
  <2>4. QED
    BY <2>2, <2>3
<1> HIDE DEF x
<1>6. GoodJob(x)
  BY <1>1, <1>3, <1>4, <1>5 DEF GoodJob, SoundJob
<1>7. v \in WorkerState /\ v.phase = "find" /\ v.job = j
  BY DEF WorkerState
<1> HIDE DEF v
<1>8. workers' \in [Workers -> WorkerState] /\ workers'[w] = v /\ jobs'[j] = x
      /\ \A o \in Workers \ {w} : workers'[o] = workers[o]
  BY <1>1, <1>7 DEF IInv, TypeOK
<1>9. x # NoJob
  BY <1>5, JobIsRecord
<1>10. y.attempts + y.stalls = 0 => ~y.wrote
  BY <1>1, <1>3 DEF GoodJob, SoundJob
<1>11. ASSUME NEW o \in Workers, workers'[o] # Idle
       PROVE  GoodWorker(o)' \/ (workers'[o] = workers[o] /\ workers[o].job # j)
  <2>1. CASE o = w
    BY <1>4, <1>5, <1>7, <1>8, <1>9, <1>10, <2>1 DEF GoodWorker, Holds
  <2>2. CASE o # w /\ workers[o].job = j
    <3>1. workers'[o] = workers[o] /\ GoodWorker(o)
      BY <1>8, <1>11, <2>2, KnownWorker
    <3>2. y.attempts + y.stalls # 0
      BY <1>1, <1>11, <2>2, <3>1, NoWorkerYet
    <3>3. jobs'[workers[o].job] = x /\ jobs[workers[o].job] = y
      BY <1>8, <2>2
    <3>4. x.status \in Queued /\ x.attempts + x.stalls # 0 /\ (y.off => x.off)
      BY <1>4, <1>5, <3>2
    <3>5. QED
      BY <1>9, <3>1, <3>3, <3>4, WorkerAfterFault
  <2>3. CASE o # w /\ workers[o].job # j
    BY <1>8, <2>3
  <2>4. QED
    BY <2>1, <2>2, <2>3
<1>12. requests' \in [Requests -> RequestState]
       /\ \A o \in Requests : requests'[o] = requests[o] \/ requests'[o] = Idle
  BY <1>1 DEF IInv, TypeOK
<1> HIDE DEF y
<1>13. QED
  BY <1>1, <1>2, <1>5, <1>6, <1>8, <1>11, <1>12, JobStepKeepsIInv DEF y

\* A worker moves and the rest stays.
LEMMA WorkerStepKeepsIInv ==
  ASSUME IInv, NEW w \in Workers, NEW v \in WorkerState,
         workers' = [workers EXCEPT ![w] = v], UNCHANGED <<samples, requests, jobs>>,
         v # Idle => GoodWorker(w)'
  PROVE  IInv'
<1>1. \A o \in Workers : workers'[o] = IF o = w THEN v ELSE workers[o]
  BY DEF IInv, TypeOK
<1>2. TypeOK'
  BY DEF IInv, TypeOK
<1>3. RequestsGood'
  BY RequestsStayGood
<1>4. JobsGood'
  BY DEF IInv, JobsGood, GoodJob, SoundJob, Off
<1>5. ASSUME NEW o \in Workers, workers'[o] # Idle PROVE GoodWorker(o)'
  <2>1. CASE o = w
    BY <1>1, <1>5, <2>1
  <2>2. CASE o # w
    BY <1>1, <1>5, <2>2 DEF IInv, WorkersGood, GoodWorker, Holds
  <2>3. QED
    BY <2>1, <2>2
<1>6. QED
  BY <1>2, <1>3, <1>4, <1>5 DEF IInv, WorkersGood

\* The execution of a worker ends.
LEMMA EndKeepsIInv ==
  ASSUME IInv, NEW w \in Workers, workers[w] # Idle,
         workers' = [workers EXCEPT ![w] = Idle], UNCHANGED <<samples, requests>>,
         \/ UNCHANGED jobs
         \/ /\ Holds(w)
            /\ \E x \in AnyJob :
                 /\ jobs' = [jobs EXCEPT ![workers[w].job] = x]
                 /\ GoodJob(x) /\ x.status \in Queued
                 /\ jobs[workers[w].job].off => x.off
                 /\ x.attempts + x.stalls >= jobs[workers[w].job].attempts + jobs[workers[w].job].stalls
  PROVE  IInv'
<1> DEFINE j == workers[w].job
           y == jobs[j]
<1>1. CASE UNCHANGED jobs
  <2>1. Idle \in WorkerState
    BY DEF WorkerState
  <2>2. QED
    BY <1>1, <2>1, WorkerStepKeepsIInv
<1>2. CASE /\ Holds(w)
           /\ \E x \in AnyJob :
                /\ jobs' = [jobs EXCEPT ![j] = x]
                /\ GoodJob(x) /\ x.status \in Queued /\ (y.off => x.off)
                /\ x.attempts + x.stalls >= y.attempts + y.stalls
  <2>1. PICK x \in AnyJob : /\ jobs' = [jobs EXCEPT ![j] = x]
                            /\ GoodJob(x) /\ x.status \in Queued /\ (y.off => x.off)
                            /\ x.attempts + x.stalls >= y.attempts + y.stalls
    BY <1>2
  <2>2. j \in Jobs /\ y # NoJob /\ y \in AnyJob /\ y.lock = w
    BY <1>2, KnownWorker DEF Holds
  <2>3. workers' \in [Workers -> WorkerState] /\ workers'[w] = Idle /\ jobs'[j] = x
        /\ \A o \in Workers \ {w} : workers'[o] = workers[o]
    BY <2>1, <2>2 DEF IInv, TypeOK, WorkerState
  <2>4. ASSUME NEW o \in Workers, workers'[o] # Idle
        PROVE  GoodWorker(o)' \/ (workers'[o] = workers[o] /\ workers[o].job # j)
    <3>1. o # w /\ workers'[o] = workers[o]
      BY <2>3, <2>4
    <3>2. SUFFICES ASSUME workers[o].job = j PROVE GoodWorker(o)'
      BY <3>1
    <3>3. GoodWorker(o)
      BY <2>4, <3>1, KnownWorker
    <3>4. y.attempts + y.stalls # 0
      BY <2>2, <2>4, <3>1, <3>2, NoWorkerYet
    <3>5. x.attempts + x.stalls # 0
      BY <2>1, <2>2, <3>4, QueueAssumption DEF AnyJob
    <3>6. x # NoJob /\ jobs'[workers[o].job] = x /\ jobs[workers[o].job] = y
      BY <2>3, <3>2, JobIsRecord
    <3>7. QED
      BY <2>1, <3>1, <3>3, <3>5, <3>6, WorkerAfterFault
  <2>5. requests' \in [Requests -> RequestState]
        /\ \A o \in Requests : requests'[o] = requests[o] \/ requests'[o] = Idle
    BY DEF IInv, TypeOK
  <2> HIDE DEF j
  <2>6. QED
    BY <2>1, <2>2, <2>3, <2>4, <2>5, JobStepKeepsIInv
<1>3. QED
  BY <1>1, <1>2

LEMMA CompleteKeepsIInv ==
  ASSUME IInv, NEW w \in Workers, workers[w] # Idle, Complete(w), UNCHANGED <<samples, requests>>,
         jobs[workers[w].job].off
  PROVE  IInv'
<1> DEFINE j == workers[w].job
           y == jobs[j]
           x == [y EXCEPT !.status = "completed", !.lock = Nobody]
<1>1. workers' = [workers EXCEPT ![w] = Idle]
      /\ jobs' = IF Holds(w) THEN [jobs EXCEPT ![j] = x] ELSE jobs
  BY DEF Complete
<1>2. j \in Jobs /\ y \in AnyJob /\ GoodJob(y) /\ y.off /\ y.status \in Queued
  BY KnownWorker DEF GoodWorker
<1>3. "completed" \in Queued
  BY DEF Queued, Ended
<1>4. /\ x \in AnyJob /\ x.status = "completed"
      /\ x.sample = y.sample /\ x.tenant = y.tenant /\ x.answer = y.answer
      /\ x.attempts = y.attempts /\ x.stalls = y.stalls /\ x.off = y.off
  BY <1>2, <1>3 DEF AnyJob
<1> HIDE DEF x
<1>5. GoodJob(x)
  BY <1>2, <1>3, <1>4 DEF GoodJob, SoundJob
<1>6. x.attempts + x.stalls >= y.attempts + y.stalls
  BY <1>2, <1>4, QueueAssumption DEF AnyJob
<1>7. CASE Holds(w)
  BY <1>1, <1>3, <1>4, <1>5, <1>6, <1>7, EndKeepsIInv
<1>8. CASE ~Holds(w)
  BY <1>1, <1>8, EndKeepsIInv
<1>9. QED
  BY <1>7, <1>8

LEMMA ThrowKeepsIInv ==
  ASSUME IInv, NEW w \in Workers, workers[w] # Idle, Throw(w), UNCHANGED <<samples, requests>>
  PROVE  IInv'
<1> DEFINE j == workers[w].job
           y == jobs[j]
           status == IF y.attempts + 1 < Attempts THEN "waiting" ELSE "failed"
           x == [y EXCEPT !.status = status, !.attempts = @ + 1, !.lock = Nobody]
<1>1. workers' = [workers EXCEPT ![w] = Idle]
      /\ jobs' = IF Holds(w) THEN [jobs EXCEPT ![j] = x] ELSE jobs
  BY DEF Throw
<1>2. j \in Jobs /\ y \in AnyJob /\ GoodJob(y)
  BY KnownWorker
<1>3. CASE Holds(w)
  <2>1. y.status = "active"
    BY <1>3 DEF Holds
  <2>2. y.stalls <= MaxStalls /\ y.attempts < Attempts /\ y.stalls \in Nat /\ y.attempts \in Nat
    BY <1>2, <2>1, QueueAssumption DEF GoodJob, SoundJob, AnyJob
  <2>3. status \in {"waiting", "failed"} /\ (status = "waiting" => y.attempts + 1 < Attempts)
        /\ {"waiting", "failed", "active"} \subseteq Queued
    BY DEF Queued, Ended
  <2> HIDE DEF status
  <2>4. /\ x \in AnyJob /\ x.status = status /\ x.attempts = y.attempts + 1
        /\ x.sample = y.sample /\ x.tenant = y.tenant /\ x.answer = y.answer
        /\ x.stalls = y.stalls /\ x.wrote = y.wrote /\ x.off = y.off
    <3>1. x = Unlocked(y, status, y.attempts + 1, y.stalls)
      BY <1>2 DEF AnyJob, Unlocked
    <3>2. y.attempts + 1 \in 0 .. Attempts /\ y.stalls \in 0 .. MaxStalls + 1
          /\ status \in {"adding", "lost"} \cup Queued
      BY <2>2, <2>3, QueueAssumption
    <3> HIDE DEF x, y
    <3>3. QED
      BY <1>2, <3>1, <3>2, UnlockedFacts
  <2> HIDE DEF x
  <2>5. GoodJob(x)
    BY <1>2, <2>1, <2>2, <2>3, <2>4, QueueAssumption DEF GoodJob, SoundJob
  <2>6. x.attempts + x.stalls >= y.attempts + y.stalls /\ x.status \in Queued
    BY <2>2, <2>3, <2>4
  <2>7. QED
    BY <1>1, <1>3, <2>4, <2>5, <2>6, EndKeepsIInv
<1>4. CASE ~Holds(w)
  BY <1>1, <1>4, EndKeepsIInv
<1>5. QED
  BY <1>3, <1>4

---------------------------------------------------------------------------
(* The steps of the workers.                                               *)

LEMMA WorkerFindsKeepsIInv ==
  ASSUME IInv, NEW w \in Workers, WorkerFinds(w)
  PROVE  IInv'
<1> DEFINE j == workers[w].job
           y == jobs[j]
           pending == Found(y.sample, y.tenant) /\ samples[y.sample].isActive
           v == [phase |-> "write", job |-> j, seen |-> samples[y.sample]]
<1>1. /\ workers[w].phase = "find" /\ UNCHANGED <<samples, requests>>
      /\ pending => workers' = [workers EXCEPT ![w] = v] /\ UNCHANGED jobs
      /\ ~pending => Complete(w)
  BY DEF WorkerFinds
<1>2. workers[w] # Idle
  BY <1>1 DEF Idle
<1>3. GoodWorker(w) /\ j \in Jobs /\ y # NoJob /\ GoodJob(y) /\ y.status \in Queued
  BY <1>2, KnownWorker DEF GoodWorker
<1>4. y.sample \in DOMAIN samples /\ samples[y.sample] \in Row
      /\ samples[y.sample].tenant = y.tenant
  BY <1>3 DEF GoodJob, SoundJob, IInv, TypeOK
<1>5. CASE pending
  <2>1. v \in WorkerState /\ v.phase = "write" /\ v.job = j
    BY <1>3, <1>4 DEF WorkerState
  <2> HIDE DEF v
  <2>2. workers'[w] = v /\ workers' = [workers EXCEPT ![w] = v] /\ jobs' = jobs
    BY <1>1, <1>5, <2>1 DEF IInv, TypeOK
  <2>3. GoodWorker(w)'
    BY <1>1, <1>3, <2>1, <2>2 DEF GoodWorker, Holds
  <2>4. QED
    BY <1>1, <2>1, <2>2, <2>3, WorkerStepKeepsIInv
<1>6. CASE ~pending
  <2>1. Off(samples, y.sample)
    BY <1>4, <1>6 DEF Found, Live, Off
  <2>2. y.off
    BY <1>3, <2>1 DEF GoodJob
  <2>3. QED
    BY <1>1, <1>2, <1>6, <2>2, CompleteKeepsIInv
<1>7. QED
  BY <1>5, <1>6

LEMMA WorkerWritesKeepsIInv ==
  ASSUME IInv, NEW w \in Workers, WorkerWrites(w)
  PROVE  IInv'
<1> DEFINE j == workers[w].job
           y == jobs[j]
           s == y.sample
           row == Written(samples[s], workers[w].seen, FALSE, Absent)
           x == [y EXCEPT !.wrote = TRUE]
           J == [jobs EXCEPT ![j] = x]
           v == [phase |-> "reread", job |-> j]
<1>1. /\ workers[w].phase = "write" /\ samples' = [samples EXCEPT ![s] = row]
      /\ jobs' = MarkOff(J, samples') /\ workers' = [workers EXCEPT ![w] = v]
      /\ UNCHANGED requests
  BY DEF WorkerWrites
<1>2. workers[w] # Idle
  BY <1>1 DEF Idle
<1>3. /\ GoodWorker(w) /\ j \in Jobs /\ y # NoJob /\ y \in AnyJob /\ GoodJob(y)
      /\ workers[w] \in WorkerState
  BY <1>2, KnownWorker
<1>4. workers[w].seen \in Row /\ s \in DOMAIN samples /\ samples[s] \in Row
  BY <1>1, <1>3, WorkerShapes DEF GoodJob, SoundJob, IInv, TypeOK
<1>5. row \in Row /\ row.tenant = samples[s].tenant /\ row.isActive = FALSE
  <2>1. FALSE # Absent
    BY AskAssumption
  <2>2. row = [samples[s] EXCEPT !.isActive = FALSE, !.sortOrder = workers[w].seen.sortOrder]
    BY <2>1 DEF Written, Given
  <2>3. workers[w].seen.sortOrder \in Nat
    BY <1>4 DEF Row
  <2>4. QED
    BY <1>4, <2>2, <2>3 DEF Row
<1>6. /\ x \in AnyJob /\ x.status = y.status /\ x.sample = y.sample /\ x.tenant = y.tenant
      /\ x.answer = y.answer /\ x.attempts = y.attempts /\ x.stalls = y.stalls
      /\ x.lock = y.lock /\ x.off = y.off
  <2>1. "lost" \in {"adding", "lost"} \cup Queued /\ Nobody \in Workers \cup {Nobody}
    OBVIOUS
  <2>2. x \in AnyJob
    BY <1>3, <2>1, JobStaysAJob
  <2>3. /\ x.status = y.status /\ x.sample = y.sample /\ x.tenant = y.tenant
        /\ x.answer = y.answer /\ x.attempts = y.attempts /\ x.stalls = y.stalls
        /\ x.lock = y.lock /\ x.off = y.off
    BY <1>3, SMTT(60) DEF AnyJob
  <2>4. QED
    BY <2>2, <2>3
<1>7. /\ y.status \in Queued
      /\ y.attempts + y.stalls = 0 => y.status = "active" /\ y.lock = w
  BY <1>2, NoWorkerYet
<1> HIDE DEF x, row
<1>8. SoundJob(x)
  BY <1>3, <1>6, <1>7 DEF GoodJob, SoundJob
<1>9. x \in JobState /\ x # NoJob
  BY <1>6, JobIsRecord
<1>10. J \in [Jobs -> JobState] /\ J[j] = x /\ \A k \in Jobs \ {j} : J[k] = jobs[k]
  BY <1>3, <1>9 DEF IInv, TypeOK
<1>11. \A k \in Jobs : J[k] # NoJob => SoundJob(J[k])
  BY <1>8, <1>10 DEF IInv, JobsGood, GoodJob
<1>12. /\ DOMAIN samples' = DOMAIN samples
       /\ \A o \in DOMAIN samples : samples'[o].tenant = samples[o].tenant
       /\ DOMAIN samples' \subseteq Samples /\ samples' \in [DOMAIN samples' -> Row]
       /\ samples'[s] = row
  BY <1>1, <1>4, <1>5 DEF IInv, TypeOK
<1> HIDE DEF J
<1>13. JobsGood' /\ jobs' \in [Jobs -> JobState]
  BY <1>1, <1>10, <1>11, <1>12, MarkedJobsAreGood
<1>14. \A k \in Jobs : jobs[k] # NoJob => jobs'[k] # NoJob
  BY <1>1, <1>9, <1>10, MarkOffFacts
<1>15. RequestsGood'
  BY <1>1, <1>12, <1>14, RequestsStayGood
<1>16. v \in WorkerState /\ v.phase = "reread" /\ v.job = j
  BY <1>3 DEF WorkerState
<1> HIDE DEF v
<1>17. workers' \in [Workers -> WorkerState] /\ workers'[w] = v
       /\ \A o \in Workers \ {w} : workers'[o] = workers[o]
  BY <1>1, <1>16 DEF IInv, TypeOK
<1>18. PICK z : z = jobs'[j]
  OBVIOUS
<1>19. /\ z # NoJob /\ z.status = y.status /\ z.lock = y.lock
       /\ z.attempts = y.attempts /\ z.stalls = y.stalls
       /\ y.off => z.off
       /\ y.status \in Queued /\ Off(samples', y.sample) => z.off
  <2>1. /\ z # NoJob /\ z.status = x.status /\ z.lock = x.lock /\ z.sample = x.sample
        /\ z.attempts = x.attempts /\ z.stalls = x.stalls
        /\ x.off => z.off
        /\ x.status \in Queued /\ Off(samples', x.sample) => z.off
    <3> HIDE DEF y, j, v
    <3>1. QED
      BY <1>1, <1>3, <1>9, <1>10, <1>18, MarkOffFacts
  <2>2. QED
    BY <1>6, <2>1
<1>20. z.off
  BY <1>5, <1>7, <1>12, <1>19 DEF Off
<1>21. ASSUME NEW o \in Workers, workers'[o] # Idle PROVE GoodWorker(o)'
  <2>1. CASE o = w
    <3>1. workers'[o] = v /\ jobs'[v.job] = z
      BY <1>16, <1>17, <1>18, <2>1
    <3>2. QED
      BY <1>7, <1>16, <1>19, <1>20, <2>1, <3>1 DEF GoodWorker, Holds
  <2>2. CASE o # w
    <3>1. workers'[o] = workers[o]
      BY <1>17, <2>2
    <3>2. GoodWorker(o) /\ workers[o].job \in Jobs /\ jobs[workers[o].job] # NoJob
      BY <1>21, <3>1, KnownWorker
    <3>3. CASE workers[o].job = j
      <4>1. y.attempts + y.stalls # 0
        BY <1>7, <1>21, <2>2, <3>1, <3>3, NoWorkerYet
      <4>2. jobs'[workers[o].job] = z /\ jobs[workers[o].job] = y
        BY <1>18, <3>3
      <4>3. QED
        BY <1>7, <1>19, <3>1, <3>2, <4>1, <4>2, WorkerAfterFault
    <3>4. CASE workers[o].job # j
      <4>1. J[workers[o].job] = jobs[workers[o].job]
        BY <1>10, <3>2, <3>4
      <4>2. /\ jobs'[workers[o].job] # NoJob
            /\ jobs'[workers[o].job].status = jobs[workers[o].job].status
            /\ jobs'[workers[o].job].lock = jobs[workers[o].job].lock
            /\ jobs'[workers[o].job].attempts = jobs[workers[o].job].attempts
            /\ jobs'[workers[o].job].stalls = jobs[workers[o].job].stalls
            /\ jobs'[workers[o].job].wrote = jobs[workers[o].job].wrote
            /\ jobs[workers[o].job].off => jobs'[workers[o].job].off
        <5> DEFINE k == workers[o].job
        <5>1. k \in Jobs /\ J[k] = jobs[k] /\ jobs[k] # NoJob
          BY <3>2, <4>1
        <5> HIDE DEF k
        <5>2. /\ jobs'[k] # NoJob /\ jobs'[k].status = jobs[k].status
              /\ jobs'[k].lock = jobs[k].lock /\ jobs'[k].attempts = jobs[k].attempts
              /\ jobs'[k].stalls = jobs[k].stalls /\ jobs'[k].wrote = jobs[k].wrote
              /\ jobs[k].off => jobs'[k].off
          BY <1>1, <1>10, <5>1, MarkOffFacts
        <5>3. QED
          BY <5>2 DEF k
      <4>3. QED
        BY <3>1, <3>2, <4>2, WorkerStaysGood
    <3>5. QED
      BY <3>3, <3>4
  <2>3. QED
    BY <2>1, <2>2
<1>22. TypeOK'
  BY <1>1, <1>12, <1>13, <1>17 DEF IInv, TypeOK
<1>23. QED
  BY <1>13, <1>15, <1>21, <1>22 DEF IInv, WorkersGood

LEMMA WorkerRereadsKeepsIInv ==
  ASSUME IInv, NEW w \in Workers, WorkerRereads(w)
  PROVE  IInv'
<1>1. /\ workers[w].phase = "reread" /\ UNCHANGED <<samples, requests>>
      /\ Complete(w) \/ Throw(w)
  BY DEF WorkerRereads
<1>2. workers[w] # Idle
  BY <1>1 DEF Idle
<1>3. jobs[workers[w].job].off
  BY <1>1, <1>2, KnownWorker DEF GoodWorker
<1>4. QED
  BY <1>1, <1>2, <1>3, CompleteKeepsIInv, ThrowKeepsIInv

LEMMA WorkerDiesKeepsIInv ==
  ASSUME IInv, NEW w \in Workers, WorkerDies(w)
  PROVE  IInv'
BY EndKeepsIInv DEF WorkerDies

---------------------------------------------------------------------------
(* The invariant.                                                          *)

LEMMA InitIInv == Init => IInv
<1> SUFFICES ASSUME Init PROVE IInv
  OBVIOUS
<1>1. TypeOK
  BY SampleAssumption, TenantAssumption DEF Init, TypeOK, Row, RequestState, JobState, WorkerState
<1>2. RequestsGood /\ JobsGood /\ WorkersGood
  BY DEF Init, RequestsGood, GoodRequest, Creating, Idle, JobsGood, WorkersGood
<1>3. QED
  BY <1>1, <1>2 DEF IInv

LEMMA NextKeepsIInv == IInv /\ [Next]_vars => IInv'
<1> SUFFICES ASSUME IInv, [Next]_vars PROVE IInv'
  OBVIOUS
<1>1. ASSUME NEW r \in Requests, NEW ask \in Asks, Begin(r, ask) PROVE IInv'
  BY <1>1, BeginKeepsIInv
<1>2. ASSUME NEW r \in Requests, HandlerStep(r) PROVE IInv'
  <2>1. CASE Accept(r)
    BY <2>1, AnswerKeepsIInv DEF Accept
  <2>2. QED
    BY <1>2, <2>1, ChooseOrderKeepsIInv, InsertKeepsIInv, FindForWriteKeepsIInv,
       PatchKeepsIInv, RemoveKeepsIInv, FindForJobKeepsIInv DEF HandlerStep
<1>3. ASSUME NEW r \in Requests, Refuse(r) PROVE IInv'
  BY <1>3, AnswerKeepsIInv DEF Refuse
<1>4. ASSUME NEW r \in Requests, RequestFails(r) PROVE IInv'
  BY <1>4, IdleKeepsIInv DEF RequestFails
<1>5. ASSUME NEW j \in Jobs, AddArrives(j) \/ AddIsLost(j) \/ Stall(j) PROVE IInv'
  BY <1>5, AddArrivesKeepsIInv, AddIsLostKeepsIInv, StallKeepsIInv
<1>6. ASSUME NEW w \in Workers, NEW j \in Jobs, Deliver(w, j) PROVE IInv'
  BY <1>6, DeliverKeepsIInv
<1>7. ASSUME NEW w \in Workers, WorkerStep(w) PROVE IInv'
  BY <1>7, WorkerFindsKeepsIInv, WorkerWritesKeepsIInv, WorkerRereadsKeepsIInv DEF WorkerStep
<1>8. ASSUME NEW w \in Workers, WorkerFails(w) PROVE IInv'
  BY <1>8, ThrowKeepsIInv DEF WorkerFails
<1>9. ASSUME NEW w \in Workers, WorkerDies(w) PROVE IInv'
  BY <1>9, WorkerDiesKeepsIInv
<1>10. CASE UNCHANGED vars
  BY <1>10 DEF IInv, TypeOK, RequestsGood, GoodRequest, JobsGood, GoodJob, SoundJob,
     WorkersGood, GoodWorker, Holds, vars
<1>11. QED
  BY <1>1, <1>2, <1>3, <1>4, <1>5, <1>6, <1>7, <1>8, <1>9, <1>10 DEF Next

\* The inductive invariant holds in every reachable state: it is what ties the marks of
\* a job, its counts and the workers that run it.
THEOREM Invariance == Spec => []IInv
BY InitIInv, NextKeepsIInv, PTL DEF Spec

---------------------------------------------------------------------------
(* The properties.                                                         *)

\* Every variable has its type: no request, job or worker gets stuck in a state that the
\* code has no branch for.
THEOREM TypeCorrect == Spec => []TypeOK
<1>1. IInv => TypeOK
  BY DEF IInv
<1>2. QED
  BY <1>1, Invariance, PTL

\* A job that BullMQ keeps as completed found or left its sample off, whatever happened
\* in between (the sample processor returns only then).
THEOREM CompletedJobsAreDone == Spec => []CompletedMeansDone
<1>1. IInv => CompletedMeansDone
  <2>1. ASSUME IInv, NEW j \in Jobs, jobs[j].status = "completed" PROVE jobs[j].off
    <3>1. jobs[j] # NoJob
      BY <2>1 DEF NoJob
    <3>2. QED
      BY <2>1, <3>1, KnownJob DEF GoodJob, SoundJob
  <2>2. QED
    BY <2>1 DEF CompletedMeansDone
<1>2. QED
  BY <1>1, Invariance, PTL

\* A deactivation answered with 202 is in Redis.
THEOREM AcceptedJobsAreQueued == Spec => []AcceptedIsQueued
<1>1. IInv => AcceptedIsQueued
  BY KnownJob DEF AcceptedIsQueued, GoodJob, SoundJob
<1>2. QED
  BY <1>1, Invariance, PTL

\* A second write of the same job comes after a failed or stalled attempt only, because
\* without one the job has a single execution, and that one writes once.
THEOREM JobsWriteOnce == Spec => WritesAgainOnlyAfterAFault
<1> DEFINE A == \A w \in Workers :
                  WorkerWrites(w) /\ jobs[workers[w].job].wrote
                    => jobs[workers[w].job].attempts + jobs[workers[w].job].stalls > 0
<1>1. IInv => A
  <2>1. SUFFICES ASSUME IInv, NEW w \in Workers, WorkerWrites(w), jobs[workers[w].job].wrote
                 PROVE  jobs[workers[w].job].attempts + jobs[workers[w].job].stalls > 0
    OBVIOUS
  <2>2. workers[w].phase = "write"
    BY <2>1 DEF WorkerWrites
  <2>3. workers[w] # Idle
    BY <2>2 DEF Idle
  <2> DEFINE y == jobs[workers[w].job]
  <2>4. GoodWorker(w) /\ y \in AnyJob
    BY <2>1, <2>3, KnownWorker
  <2>5. y.attempts + y.stalls # 0
    BY <2>1, <2>2, <2>4 DEF GoodWorker
  <2>6. y.attempts \in Nat /\ y.stalls \in Nat
    BY <2>4, QueueAssumption DEF AnyJob
  <2> HIDE DEF y
  <2>7. y.attempts + y.stalls > 0
    BY <2>5, <2>6
  <2>8. QED
    BY <2>7 DEF y
<1>2. WritesAgainOnlyAfterAFault <=> [][A]_vars
  BY DEF WritesAgainOnlyAfterAFault
<1> HIDE DEF A
<1>3. QED
  BY <1>1, <1>2, Invariance, PTL DEF Spec

\* What a PATCH writes.
LEMMA PatchFacts ==
  ASSUME IInv, NEW r \in Requests, Patch(r)
  PROVE  /\ samples \in [DOMAIN samples -> Row] /\ requests[r].ask.sample \in DOMAIN samples
         /\ \E row : /\ samples' = [samples EXCEPT ![requests[r].ask.sample] = row]
                      /\ row.deleted = samples[requests[r].ask.sample].deleted
<1> DEFINE q == requests[r]
           s == q.ask.sample
           row == Written(samples[s], q.seen, q.ask.isActive, q.ask.sortOrder)
<1>1. q.phase = "write" /\ q.ask.kind = "patch" /\ samples' = [samples EXCEPT ![s] = row]
  BY DEF Patch
<1>2. q \in RequestState /\ GoodRequest(q) /\ samples \in [DOMAIN samples -> Row]
  BY DEF IInv, TypeOK, RequestsGood
<1>3. q.ask \in Ask /\ q.seen \in Row /\ s \in DOMAIN samples
  BY <1>1, <1>2, RequestShapes DEF Idle, GoodRequest
<1>4. q.ask.isActive \in BOOLEAN \cup {Absent} /\ q.ask.sortOrder \in Orders
  BY <1>1, <1>3, AskShapes
<1>5. samples[s] \in Row
  BY <1>2, <1>3
<1> HIDE DEF q, s
<1>6. row.deleted = samples[s].deleted
  BY <1>3, <1>4, <1>5, WrittenFacts
<1> HIDE DEF row
<1>7. QED
  BY <1>1, <1>2, <1>3, <1>6 DEF q, s

\* What a job writes.
LEMMA WorkerWriteFacts ==
  ASSUME IInv, NEW w \in Workers, WorkerWrites(w)
  PROVE  /\ samples \in [DOMAIN samples -> Row]
         /\ \E s \in DOMAIN samples : \E row :
              samples' = [samples EXCEPT ![s] = row] /\ row.deleted = samples[s].deleted
<1> DEFINE s == jobs[workers[w].job].sample
           row == Written(samples[s], workers[w].seen, FALSE, Absent)
<1>1. workers[w].phase = "write" /\ samples' = [samples EXCEPT ![s] = row]
  BY DEF WorkerWrites
<1>2. workers[w] # Idle
  BY <1>1 DEF Idle
<1>3. samples \in [DOMAIN samples -> Row] /\ s \in DOMAIN samples
  BY <1>2, KnownWorker DEF GoodJob, SoundJob, IInv, TypeOK
<1>4. PICK a, o : row = [samples[s] EXCEPT !.isActive = a, !.sortOrder = o]
  BY DEF Written
<1>5. row.deleted = samples[s].deleted
  <2>1. samples[s] \in Row
    BY <1>3
  <2> HIDE DEF row, s
  <2>2. QED
    BY <1>4, <2>1 DEF Row
<1> HIDE DEF row, s
<1>6. QED
  BY <1>1, <1>3, <1>5

\* A sample that was deleted is never live again: update writes all columns of the entity
\* but not deletedAt, and a new row gets an id of its own.
THEOREM RemovedForGood == Spec => RemovedStaysRemoved
<1> DEFINE A == \A s \in DOMAIN samples : samples[s].deleted => samples'[s].deleted
<1>1. IInv /\ [Next]_vars => A
  <2> SUFFICES ASSUME IInv, [Next]_vars PROVE A
    OBVIOUS
  <2>1. CASE UNCHANGED samples
    BY <2>1
  <2>2. ASSUME NEW r \in Requests, Insert(r) PROVE A
    <3>1. requests[r].ask.sample \notin DOMAIN samples
      BY <2>2 DEF Insert, IInv, RequestsGood, GoodRequest, Creating
    <3>2. \A s \in DOMAIN samples : samples'[s] = samples[s]
      BY <2>2, <3>1 DEF Insert
    <3>3. QED
      BY <3>2
  <2>3. ASSUME NEW r \in Requests, Patch(r) PROVE A
    BY <2>3, PatchFacts
  <2>4. ASSUME NEW r \in Requests, Remove(r) PROVE A
    <3>1. samples \in [DOMAIN samples -> Row] /\ requests[r].ask.sample \in DOMAIN samples
      BY <2>4 DEF Remove, IInv, TypeOK, RequestsGood, GoodRequest
    <3>2. samples' = [samples EXCEPT ![requests[r].ask.sample].deleted = TRUE]
      BY <2>4 DEF Remove
    <3>3. QED
      BY <3>1, <3>2 DEF Row
  <2>5. ASSUME NEW w \in Workers, WorkerWrites(w) PROVE A
    BY <2>5, WorkerWriteFacts
  <2>6. ASSUME NEW r \in Requests, HandlerStep(r) PROVE A
    <3>1. CASE ChooseOrder(r) \/ FindForWrite(r) \/ FindForJob(r) \/ Accept(r)
      BY <2>1, <3>1 DEF ChooseOrder, FindForWrite, FindForJob, Accept, Answer
    <3>2. QED
      BY <2>2, <2>3, <2>4, <2>6, <3>1 DEF HandlerStep
  <2>7. ASSUME NEW r \in Requests, Refuse(r) \/ RequestFails(r) PROVE A
    BY <2>1, <2>7 DEF Refuse, RequestFails, Answer
  <2>8. ASSUME NEW j \in Jobs, AddArrives(j) \/ AddIsLost(j) \/ Stall(j) PROVE A
    BY <2>1, <2>8 DEF AddArrives, AddIsLost, Stall
  <2>9. ASSUME NEW w \in Workers, WorkerStep(w) PROVE A
    <3>1. CASE WorkerFinds(w) \/ WorkerRereads(w)
      BY <2>1, <3>1 DEF WorkerFinds, WorkerRereads
    <3>2. QED
      BY <2>5, <2>9, <3>1 DEF WorkerStep
  <2>10. ASSUME NEW w \in Workers, WorkerFails(w) \/ WorkerDies(w) PROVE A
    BY <2>1, <2>10 DEF WorkerFails, WorkerDies
  <2>11. ASSUME NEW r \in Requests, NEW ask \in Asks, Begin(r, ask) PROVE A
    BY <2>1, <2>11 DEF Begin
  <2>12. ASSUME NEW w \in Workers, NEW j \in Jobs, Deliver(w, j) PROVE A
    BY <2>1, <2>12 DEF Deliver
  <2>13. CASE UNCHANGED vars
    BY <2>1, <2>13 DEF vars
  <2> HIDE DEF A
  <2>14. QED
    BY <2>6, <2>7, <2>8, <2>9, <2>10, <2>11, <2>12, <2>13 DEF Next
<1>2. RemovedStaysRemoved <=> [][A]_vars
  BY DEF RemovedStaysRemoved
<1> HIDE DEF A
<1>3. QED
  BY <1>1, <1>2, Invariance, PTL DEF Spec

\* A sample created without a position goes to the end of the list that was read, for lists
\* of any length and whatever runs between getMaxSortOrder and the INSERT.
THEOREM NewSamplesComeLast == Spec => NewSampleIsLast
<1> DEFINE A == \A r \in Requests :
       LET q == requests[r]
           order == samples'[q.ask.sample].sortOrder
       IN Insert(r) /\ q.ask.sortOrder = Absent
          => /\ \A s \in LiveOf(q.ask.tenant) :
                  <<s, samples[s].sortOrder>> \in q.list => samples[s].sortOrder < order
             /\ order = 0 \/ \E entry \in q.list : order = entry[2] + 1
<1>1. IInv => A
  <2> SUFFICES ASSUME IInv, NEW r \in Requests, Insert(r), requests[r].ask.sortOrder = Absent
               PROVE  LET q == requests[r]
                          order == samples'[q.ask.sample].sortOrder
                      IN /\ \A s \in LiveOf(q.ask.tenant) :
                              <<s, samples[s].sortOrder>> \in q.list => samples[s].sortOrder < order
                         /\ order = 0 \/ \E entry \in q.list : order = entry[2] + 1
    OBVIOUS
  <2> DEFINE q == requests[r]
             order == samples'[q.ask.sample].sortOrder
  <2>1. order = q.order
    BY DEF Insert
  <2>2. IsEnd(q.list, q.order)
    BY DEF Insert, IInv, RequestsGood, GoodRequest
  <2>3. IsEnd(q.list, order)
    BY <2>1, <2>2
  <2> HIDE DEF order
  <2>4. ASSUME NEW s \in LiveOf(q.ask.tenant), <<s, samples[s].sortOrder>> \in q.list
        PROVE  samples[s].sortOrder < order
    <3>1. <<s, samples[s].sortOrder>>[2] < order
      BY <2>3, <2>4 DEF IsEnd
    <3>2. QED
      BY <3>1
  <2>5. order = 0 \/ \E entry \in q.list : order = entry[2] + 1
    BY <2>3 DEF IsEnd
  <2>6. QED
    BY <2>4, <2>5 DEF order
<1>2. NewSampleIsLast <=> [][A]_vars
  BY DEF NewSampleIsLast
<1> HIDE DEF A
<1>3. QED
  BY <1>1, <1>2, Invariance, PTL DEF Spec

---------------------------------------------------------------------------
(* The promise of Deactivations.                                           *)

OffNow  == {s \in DOMAIN samples : Off(samples, s)}
View(J) == [j \in Jobs |-> IF J[j] = NoJob THEN [state |-> "none"] ELSE Promised(J[j])]

StateOf(status) ==
  CASE status = "adding" -> "called"
    [] status = "lost" -> "vanished"
    [] status \in {"waiting", "active"} -> "pending"
    [] status = "completed" -> "kept"
    [] status = "failed" -> "broken"

LEMMA PromisedIs ==
  ASSUME NEW x
  PROVE  Promised(x) = [state |-> StateOf(x.status), sample |-> x.sample,
                        answer |-> x.answer, wasOff |-> x.off]
BY DEF Promised, StateOf

LEMMA StatesOf ==
  /\ StateOf("adding") = "called" /\ StateOf("lost") = "vanished"
  /\ StateOf("waiting") = "pending" /\ StateOf("active") = "pending"
  /\ StateOf("completed") = "kept" /\ StateOf("failed") = "broken"
  /\ \A status \in {"adding", "lost"} \cup Queued :
       StateOf(status) \in Promise!Taken <=> status \in Queued
BY DEF StateOf, Queued, Ended, Promise!Taken

\* Nothing is seen of a step that leaves the view alone.
LEMMA Unseen ==
  ASSUME OffNow' = OffNow, View(jobs)' = View(jobs)
  PROVE  UNCHANGED Promise!vars
BY DEF OffNow, View, Promise!vars

LEMMA OffStays ==
  ASSUME UNCHANGED samples
  PROVE  OffNow' = OffNow
BY DEF OffNow, Off

\* A step of one job, as it is seen.
LEMMA OneJobMoves ==
  ASSUME IInv, NEW j \in Jobs, NEW x \in AnyJob, jobs' = [jobs EXCEPT ![j] = x],
         UNCHANGED samples
  PROVE  OffNow' = OffNow /\ View(jobs)' = [View(jobs) EXCEPT ![j] = Promised(x)]
<1>1. jobs \in [Jobs -> JobState] /\ x # NoJob
  BY JobIsRecord DEF IInv, TypeOK
<1>2. \A i \in Jobs : jobs'[i] = IF i = j THEN x ELSE jobs[i]
  BY <1>1
<1>3. QED
  BY <1>1, <1>2, OffStays DEF View

\* The state of a job is all that is seen of it to change.
LEMMA StateMoves ==
  ASSUME IInv, NEW j \in Jobs, jobs[j] # NoJob, NEW x \in AnyJob,
         jobs' = [jobs EXCEPT ![j] = x], UNCHANGED samples,
         x.sample = jobs[j].sample, x.answer = jobs[j].answer, x.off = jobs[j].off
  PROVE  /\ OffNow' = OffNow
         /\ View(jobs)' = [View(jobs) EXCEPT ![j].state = StateOf(x.status)]
         /\ View(jobs)[j].state = StateOf(jobs[j].status)
         /\ StateOf(x.status) = StateOf(jobs[j].status) => View(jobs)' = View(jobs)
<1> DEFINE y == jobs[j]
<1>1. View(jobs)[j] = Promised(y)
  BY DEF View
<1>2. Promised(x) = [Promised(y) EXCEPT !.state = StateOf(x.status)]
  BY PromisedIs
<1>3. OffNow' = OffNow /\ View(jobs)' = [View(jobs) EXCEPT ![j] = Promised(x)]
  BY OneJobMoves
<1>4. Promised(y).state = StateOf(y.status)
  BY PromisedIs
<1>5. StateOf(x.status) = StateOf(y.status) => Promised(x) = Promised(y)
  BY PromisedIs
<1>6. View(jobs) = [View(jobs) EXCEPT ![j] = View(jobs)[j]]
  BY DEF View
<1>7. View(jobs)' = [View(jobs) EXCEPT ![j].state = StateOf(x.status)]
  BY <1>1, <1>2, <1>3
<1>8. QED
  BY <1>1, <1>3, <1>4, <1>5, <1>6, <1>7

LEMMA NotedIs ==
  ASSUME NEW x, NEW y, x.status = y.status, x.sample = y.sample, x.answer = y.answer,
         NEW b, x.off = b
  PROVE  Promised(x) = [Promised(y) EXCEPT !.wasOff = b]
<1>1. Promised(y) = [state |-> StateOf(y.status), sample |-> y.sample,
                     answer |-> y.answer, wasOff |-> y.off]
  BY PromisedIs
<1>2. Promised(x) = [state |-> StateOf(y.status), sample |-> y.sample,
                     answer |-> y.answer, wasOff |-> b]
  BY PromisedIs
<1>3. QED
  BY <1>1, <1>2

\* Marking the jobs whose sample is off is taking note of what is off.
LEMMA MarkIsNote ==
  ASSUME NEW J \in [Jobs -> JobState], NEW table,
         \A j \in Jobs : J[j] # NoJob => J[j].sample \in DOMAIN table
  PROVE  View(MarkOff(J, table)) = Promise!Noted(View(J), {s \in DOMAIN table : Off(table, s)})
<1> DEFINE gone == {s \in DOMAIN table : Off(table, s)}
<1>1. ASSUME NEW j \in Jobs
      PROVE  View(MarkOff(J, table))[j] = Promise!Noted(View(J), gone)[j]
  <2> DEFINE y == J[j]
             x == MarkOff(J, table)[j]
  <2>1. CASE y = NoJob
    <3>1. x = NoJob
      BY <2>1, MarkOffFacts
    <3>2. View(J)[j] = [state |-> "none"] /\ View(MarkOff(J, table))[j] = [state |-> "none"]
      BY <2>1, <3>1 DEF View
    <3>3. View(J)[j].state \notin Promise!Taken
      BY <3>2 DEF Promise!Taken
    <3>4. QED
      BY <3>2, <3>3 DEF Promise!Noted
  <2>2. CASE y # NoJob
    <3>1. y \in AnyJob /\ x # NoJob
      BY <2>2, MarkOffFacts, JobIsRecord
    <3>2. View(J)[j] = Promised(y) /\ View(MarkOff(J, table))[j] = Promised(x)
      BY <2>2, <3>1 DEF View
    <3>3. y.sample \in DOMAIN table
      BY <2>2
    <3>4. Promised(y).state \in Promise!Taken <=> y.status \in Queued
      BY <3>1, PromisedIs, StatesOf DEF AnyJob
    <3>5. CASE y.status \in Queued /\ y.sample \in gone
      <4>1. x = [y EXCEPT !.off = TRUE]
        BY <3>5 DEF MarkOff
      <4>2. Promised(x) = [Promised(y) EXCEPT !.wasOff = TRUE]
        <5>1. /\ x.status = y.status /\ x.sample = y.sample /\ x.answer = y.answer
              /\ x.off = TRUE
          BY <3>1, <4>1 DEF AnyJob
        <5> HIDE DEF x, y
        <5>2. Promised(x) = [Promised(y) EXCEPT !.wasOff = x.off]
          BY <5>1, NotedIs
        <5>3. QED
          BY <5>1, <5>2, Zenon
      <4>3. Promised(y).sample \in gone
        BY <3>5, PromisedIs
      <4>4. QED
        BY <3>2, <3>4, <3>5, <4>2, <4>3 DEF Promise!Noted
    <3>6. CASE ~(y.status \in Queued /\ y.sample \in gone)
      <4>1. x = y
        <5>1. ~(y.status \in Queued /\ Off(table, y.sample))
          BY <3>3, <3>6
        <5>2. QED
          BY <5>1 DEF MarkOff
      <4>2. ~(Promised(y).state \in Promise!Taken /\ Promised(y).sample \in gone)
        BY <3>4, <3>6, PromisedIs
      <4>3. QED
        BY <3>2, <4>1, <4>2 DEF Promise!Noted
    <3>7. QED
      BY <3>5, <3>6
  <2>3. QED
    BY <2>1, <2>2
<1>2. QED
  BY <1>1 DEF View, Promise!Noted

\* The steps of the jobs, as they are seen.
LEMMA FindForJobCalls ==
  ASSUME IInv, NEW r \in Requests, FindForJob(r)
  PROVE  UNCHANGED Promise!vars \/ \E j \in Jobs : Promise!Call(j)
<1> DEFINE q == requests[r]
<1>1. q.phase = "find" /\ UNCHANGED samples
  BY DEF FindForJob
<1>2. q # Idle /\ q \in RequestState
  BY <1>1 DEF Idle, IInv, TypeOK
<1>3. q.ask.sample \in Samples /\ q.ask.tenant \in Tenants
  BY <1>2, RequestShapes, AskShapes
<1>4. CASE UNCHANGED jobs
  BY <1>1, <1>4, OffStays, Unseen DEF View
<1>5. CASE ~UNCHANGED jobs
  <2> DEFINE x == [status |-> "adding", sample |-> q.ask.sample, tenant |-> q.ask.tenant,
                   answer |-> 0, attempts |-> 0, stalls |-> 0, lock |-> Nobody,
                   wrote |-> FALSE, off |-> FALSE]
  <2>1. PICK j \in Jobs : jobs[j] = NoJob /\ jobs' = [jobs EXCEPT ![j] = x]
    BY <1>5 DEF FindForJob
  <2>2. x \in AnyJob
    BY <1>3, QueueAssumption DEF AnyJob
  <2>3. Promised(x) = [state |-> "called", sample |-> q.ask.sample, answer |-> 0,
                       wasOff |-> FALSE]
    BY PromisedIs, StatesOf
  <2> HIDE DEF x
  <2>4. OffNow' = OffNow /\ View(jobs)' = [View(jobs) EXCEPT ![j] = Promised(x)]
    BY <1>1, <2>1, <2>2, OneJobMoves
  <2>5. View(jobs)[j] = [state |-> "none"]
    BY <2>1 DEF View
  <2>6. Promise!Call(j)
    BY <1>3, <2>3, <2>4, <2>5 DEF Promise!Call, Promise!None, View, OffNow
  <2>7. QED
    BY <2>6
<1>6. QED
  BY <1>4, <1>5

LEMMA AddEnds ==
  ASSUME IInv, NEW j \in Jobs, AddArrives(j) \/ AddIsLost(j)
  PROVE  Promise!Enqueue(j) \/ Promise!Vanish(j)
<1> DEFINE y == jobs[j]
<1>1. y.status = "adding" /\ UNCHANGED samples
  BY DEF AddArrives, AddIsLost
<1>2. y # NoJob
  BY <1>1 DEF NoJob
<1>3. y \in AnyJob
  BY <1>2, KnownJob
<1>4. View(jobs)[j].state = "called" /\ OffNow' = OffNow
  BY <1>1, <1>2, PromisedIs, StatesOf, OffStays DEF View
<1>5. CASE AddIsLost(j)
  <2> DEFINE x == [y EXCEPT !.status = "lost"]
  <2>1. x \in AnyJob /\ x.status = "lost" /\ x.sample = y.sample /\ x.answer = y.answer
        /\ x.off = y.off
    BY <1>3, SMTT(60) DEF AnyJob
  <2>2. jobs' = [jobs EXCEPT ![j] = x]
    BY <1>5 DEF AddIsLost
  <2> HIDE DEF x
  <2>3. View(jobs)' = [View(jobs) EXCEPT ![j].state = "vanished"]
    <3>1. StateOf(x.status) = "vanished"
      BY <2>1, StatesOf
    <3>2. View(jobs)' = [View(jobs) EXCEPT ![j].state = StateOf(x.status)]
      BY <1>1, <1>2, <2>1, <2>2, StateMoves
    <3>3. QED
      BY <3>1, <3>2
  <2>4. QED
    BY <1>4, <2>3 DEF Promise!Vanish, View, OffNow
<1>6. CASE AddArrives(j)
  <2> DEFINE x == [y EXCEPT !.status = "waiting"]
             J == [jobs EXCEPT ![j] = x]
  <2>1. x \in AnyJob /\ x.sample = y.sample /\ Promised(x) = [Promised(y) EXCEPT !.state = "pending"]
    BY <1>3, PromisedIs, StatesOf, SMTT(30) DEF AnyJob, Queued
  <2>2. jobs' = MarkOff(J, samples)
    BY <1>6 DEF AddArrives
  <2> HIDE DEF x
  <2>3. J \in [Jobs -> JobState] /\ x # NoJob
    BY <2>1, JobIsRecord DEF IInv, TypeOK
  <2>4. View(J) = [View(jobs) EXCEPT ![j].state = "pending"]
    BY <1>2, <2>1, <2>3 DEF View
  <2>5. \A i \in Jobs : J[i] # NoJob => J[i].sample \in DOMAIN samples
    BY <1>2, <2>1, <2>3, KnownJob DEF GoodJob, SoundJob
  <2> HIDE DEF J
  <2>6. View(jobs') = Promise!Noted(View(J), OffNow)
    BY <2>2, <2>3, <2>5, MarkIsNote DEF OffNow
  <2>7. View(jobs)' = Promise!Noted([View(jobs) EXCEPT ![j].state = "pending"], OffNow)
    BY <2>4, <2>6 DEF View
  <2>8. QED
    BY <1>4, <2>7 DEF Promise!Enqueue, View, OffNow
<1>7. QED
  BY <1>5, <1>6

\* Whoever writes the table.
LEMMA TableSwitches ==
  ASSUME IInv', NEW J \in [Jobs -> JobState], View(J) = View(jobs),
         \A j \in Jobs : J[j] # NoJob => J[j].sample \in DOMAIN samples',
         jobs' = MarkOff(J, samples')
  PROVE  Promise!Switch
<1>1. OffNow' = {s \in DOMAIN samples' : Off(samples', s)}
  BY DEF OffNow, Off
<1>2. View(jobs') = Promise!Noted(View(J), OffNow')
  BY <1>1, MarkIsNote
<1>3. OffNow' \in SUBSET Samples
  BY DEF IInv, TypeOK, OffNow
<1>4. View(jobs)' = Promise!Noted(View(jobs), OffNow')
  BY <1>2 DEF View
<1>5. QED
  BY <1>3, <1>4 DEF Promise!Switch, View, OffNow

LEMMA WritesSwitch ==
  ASSUME IInv, IInv', NEW r \in Requests, Patch(r) \/ Remove(r)
  PROVE  Promise!Switch
<1>1. jobs \in [Jobs -> JobState]
  BY DEF IInv, TypeOK
<1>2. jobs' = MarkOff(jobs, samples') /\ DOMAIN samples' = DOMAIN samples
  BY DEF Patch, Remove
<1>3. \A j \in Jobs : jobs[j] # NoJob => jobs[j].sample \in DOMAIN samples'
  BY <1>2, KnownJob DEF GoodJob, SoundJob
<1>4. QED
  BY <1>1, <1>2, <1>3, TableSwitches

LEMMA JobsSwitch ==
  ASSUME IInv, IInv', NEW w \in Workers, WorkerWrites(w)
  PROVE  Promise!Switch
<1> DEFINE j == workers[w].job
           y == jobs[j]
           x == [y EXCEPT !.wrote = TRUE]
           J == [jobs EXCEPT ![j] = x]
<1>1. workers[w] # Idle
  BY DEF WorkerWrites, Idle
<1>2. j \in Jobs /\ y # NoJob /\ y \in AnyJob
  BY <1>1, KnownWorker
<1>3. jobs' = MarkOff(J, samples') /\ DOMAIN samples' = DOMAIN samples
  BY DEF WorkerWrites
<1>4. x \in AnyJob /\ Promised(x) = Promised(y) /\ x.sample = y.sample
  <2>1. x \in AnyJob /\ x.sample = y.sample /\ x.status = y.status /\ x.answer = y.answer
        /\ x.off = y.off
    <3> HIDE DEF y
    <3>1. x \in AnyJob
      BY <1>2, JobStaysAJob
    <3>2. QED
      BY <1>2, <3>1 DEF AnyJob
  <2> HIDE DEF x, y
  <2>2. QED
    BY <2>1, PromisedIs
<1> HIDE DEF x
<1>5. J \in [Jobs -> JobState] /\ x # NoJob
  BY <1>4, JobIsRecord DEF IInv, TypeOK
<1>6. View(J) = View(jobs)
  BY <1>2, <1>4, <1>5 DEF View
<1>7. \A i \in Jobs : J[i] # NoJob => J[i].sample \in DOMAIN samples'
  BY <1>2, <1>3, <1>4, <1>5, KnownJob DEF GoodJob, SoundJob
<1> HIDE DEF J
<1>8. QED
  BY <1>3, <1>5, <1>6, <1>7, TableSwitches

\* A job that leaves its worker waits again, which is not seen, or has ended.
LEMMA JobLeaves ==
  ASSUME IInv, NEW j \in Jobs, jobs[j] # NoJob, jobs[j].status = "active", UNCHANGED samples,
         NEW x \in AnyJob, jobs' = [jobs EXCEPT ![j] = x],
         x.sample = jobs[j].sample, x.answer = jobs[j].answer, x.off = jobs[j].off,
         \/ x.status \in {"waiting", "active", "failed"}
         \/ x.status = "completed" /\ x.off
  PROVE  UNCHANGED Promise!vars \/ Promise!Keep(j) \/ Promise!Break(j)
<1>1. /\ OffNow' = OffNow
      /\ View(jobs)' = [View(jobs) EXCEPT ![j].state = StateOf(x.status)]
      /\ View(jobs)[j].state = "pending"
      /\ StateOf(x.status) = "pending" => View(jobs)' = View(jobs)
  <2>1. StateOf(jobs[j].status) = "pending"
    BY StatesOf
  <2>2. /\ OffNow' = OffNow
        /\ View(jobs)' = [View(jobs) EXCEPT ![j].state = StateOf(x.status)]
        /\ View(jobs)[j].state = StateOf(jobs[j].status)
        /\ StateOf(x.status) = StateOf(jobs[j].status) => View(jobs)' = View(jobs)
    BY StateMoves
  <2>3. QED
    BY <2>1, <2>2
<1>2. CASE x.status \in {"waiting", "active"}
  BY <1>1, <1>2, StatesOf, Unseen
<1>3. CASE x.status = "failed"
  <2>1. View(jobs)' = [View(jobs) EXCEPT ![j].state = "broken"]
    BY <1>1, <1>3, StatesOf
  <2>2. QED
    BY <1>1, <2>1 DEF Promise!Break, View, OffNow
<1>4. CASE x.status = "completed" /\ x.off
  <2>1. View(jobs)' = [View(jobs) EXCEPT ![j].state = "kept"]
    BY <1>1, <1>4, StatesOf
  <2>2. View(jobs)[j].wasOff
    BY <1>4, PromisedIs DEF View
  <2>3. QED
    BY <1>1, <2>1, <2>2 DEF Promise!Keep, View, OffNow
<1>5. QED
  BY <1>2, <1>3, <1>4

LEMMA CompleteEnds ==
  ASSUME IInv, NEW w \in Workers, workers[w] # Idle, jobs[workers[w].job].off,
         Complete(w), UNCHANGED samples
  PROVE  UNCHANGED Promise!vars \/ \E j \in Jobs : Promise!Keep(j) \/ Promise!Break(j)
<1> DEFINE j == workers[w].job
           y == jobs[j]
           x == [y EXCEPT !.status = "completed", !.lock = Nobody]
<1>1. CASE ~Holds(w)
  BY <1>1, OffStays, Unseen DEF Complete, View
<1>2. CASE Holds(w)
  <2>1. y.status = "active" /\ jobs' = [jobs EXCEPT ![j] = x]
    BY <1>2 DEF Complete, Holds
  <2>2. j \in Jobs /\ y # NoJob /\ y \in AnyJob
    BY KnownWorker
  <2>3. /\ x \in AnyJob /\ x.status = "completed" /\ x.sample = y.sample
        /\ x.answer = y.answer /\ x.off = y.off
    <3>1. "completed" \in {"adding", "lost"} \cup Queued
      BY DEF Queued, Ended
    <3> HIDE DEF y
    <3>2. x \in AnyJob
      BY <2>2, <3>1, JobStaysAJob
    <3>3. QED
      BY <2>2, <3>2 DEF AnyJob
  <2> HIDE DEF x
  <2>4. QED
    BY <2>1, <2>2, <2>3, JobLeaves
<1>3. QED
  BY <1>1, <1>2

LEMMA ThrowEnds ==
  ASSUME IInv, NEW w \in Workers, workers[w] # Idle, Throw(w), UNCHANGED samples
  PROVE  UNCHANGED Promise!vars \/ \E j \in Jobs : Promise!Keep(j) \/ Promise!Break(j)
<1> DEFINE j == workers[w].job
           y == jobs[j]
           status == IF y.attempts + 1 < Attempts THEN "waiting" ELSE "failed"
           x == [y EXCEPT !.status = status, !.attempts = @ + 1, !.lock = Nobody]
<1>1. CASE ~Holds(w)
  BY <1>1, OffStays, Unseen DEF Throw, View
<1>2. CASE Holds(w)
  <2>1. j \in Jobs /\ y # NoJob /\ y \in AnyJob /\ GoodJob(y)
    BY KnownWorker
  <2>2. y.status = "active" /\ jobs' = [jobs EXCEPT ![j] = x]
    BY <1>2 DEF Throw, Holds
  <2>3. y.attempts + 1 \in 0 .. Attempts /\ y.stalls \in 0 .. MaxStalls + 1
    <3>1. y.attempts \in Nat /\ y.attempts < Attempts
      BY <2>1, <2>2, QueueAssumption DEF AnyJob, GoodJob, SoundJob
    <3>2. y.stalls \in 0 .. MaxStalls + 1
      BY <2>1 DEF AnyJob
    <3>3. QED
      BY <3>1, <3>2, QueueAssumption
  <2>4. status \in {"waiting", "failed"} /\ status \in Queued
    BY DEF Queued, Ended
  <2> HIDE DEF status
  <2>5. /\ x \in AnyJob /\ x.status = status /\ x.sample = y.sample
        /\ x.answer = y.answer /\ x.off = y.off
    <3>1. x = Unlocked(y, status, y.attempts + 1, y.stalls)
      BY <2>1 DEF AnyJob, Unlocked
    <3> HIDE DEF x, y
    <3>2. QED
      BY <2>1, <2>3, <2>4, <3>1, UnlockedFacts
  <2> HIDE DEF x
  <2>6. QED
    BY <2>1, <2>2, <2>4, <2>5, JobLeaves
<1>3. QED
  BY <1>1, <1>2

LEMMA WorkersEnd ==
  ASSUME IInv, NEW w \in Workers,
         WorkerFinds(w) \/ WorkerRereads(w) \/ WorkerFails(w) \/ WorkerDies(w)
  PROVE  UNCHANGED Promise!vars \/ \E j \in Jobs : Promise!Keep(j) \/ Promise!Break(j)
<1>1. workers[w] # Idle /\ UNCHANGED samples
  BY DEF WorkerFinds, WorkerRereads, WorkerFails, WorkerDies, Idle
<1>2. GoodWorker(w) /\ GoodJob(jobs[workers[w].job]) /\ jobs[workers[w].job] # NoJob
  BY <1>1, KnownWorker
<1>3. CASE UNCHANGED jobs
  BY <1>1, <1>3, OffStays, Unseen DEF View
<1>4. CASE WorkerFinds(w) /\ ~UNCHANGED jobs
  <2> DEFINE job == jobs[workers[w].job]
  <2>1. Complete(w) /\ ~(Found(job.sample, job.tenant) /\ samples[job.sample].isActive)
    BY <1>4 DEF WorkerFinds
  <2>2. job.sample \in DOMAIN samples /\ samples[job.sample].tenant = job.tenant
        /\ job.status \in Queued
    BY <1>2 DEF GoodJob, SoundJob, GoodWorker
  <2>3. Off(samples, job.sample)
    BY <2>1, <2>2 DEF Found, Live, Off
  <2>4. job.off
    BY <1>2, <2>2, <2>3 DEF GoodJob
  <2>5. QED
    BY <1>1, <2>1, <2>4, CompleteEnds
<1>5. CASE WorkerRereads(w)
  <2>1. jobs[workers[w].job].off
    BY <1>2, <1>5 DEF WorkerRereads, GoodWorker
  <2>2. Complete(w) \/ Throw(w)
    BY <1>5 DEF WorkerRereads
  <2>3. QED
    BY <1>1, <2>1, <2>2, CompleteEnds, ThrowEnds
<1>6. CASE WorkerFails(w)
  BY <1>1, <1>6, ThrowEnds DEF WorkerFails
<1>7. QED
  BY <1>3, <1>4, <1>5, <1>6 DEF WorkerDies

LEMMA LocksChange ==
  ASSUME IInv, NEW j \in Jobs, Stall(j) \/ \E w \in Workers : Deliver(w, j)
  PROVE  UNCHANGED Promise!vars \/ \E i \in Jobs : Promise!Keep(i) \/ Promise!Break(i)
<1> DEFINE y == jobs[j]
<1>1. CASE Stall(j)
  <2> DEFINE status == IF y.stalls < MaxStalls THEN "waiting" ELSE "failed"
             x == [y EXCEPT !.status = status, !.stalls = @ + 1, !.lock = Nobody]
  <2>1. y.status = "active" /\ jobs' = [jobs EXCEPT ![j] = x] /\ UNCHANGED samples
    BY <1>1 DEF Stall
  <2>2. y # NoJob
    BY <2>1 DEF NoJob
  <2>3. y \in AnyJob /\ GoodJob(y)
    BY <2>2, KnownJob
  <2>4. y.stalls + 1 \in 0 .. MaxStalls + 1 /\ y.attempts \in 0 .. Attempts
    <3>1. y.stalls \in Nat /\ y.stalls <= MaxStalls
      BY <2>1, <2>3, QueueAssumption DEF AnyJob, GoodJob, SoundJob
    <3>2. y.attempts \in 0 .. Attempts
      BY <2>3 DEF AnyJob
    <3>3. QED
      BY <3>1, <3>2, QueueAssumption
  <2>5. status \in {"waiting", "failed"} /\ status \in Queued
    BY DEF Queued, Ended
  <2> HIDE DEF status
  <2>6. /\ x \in AnyJob /\ x.status = status /\ x.sample = y.sample
        /\ x.answer = y.answer /\ x.off = y.off
    <3>1. x = Unlocked(y, status, y.attempts, y.stalls + 1)
      BY <2>3 DEF AnyJob, Unlocked
    <3> HIDE DEF x, y
    <3>2. QED
      BY <2>3, <2>4, <2>5, <3>1, UnlockedFacts
  <2> HIDE DEF x
  <2>7. QED
    BY <2>1, <2>2, <2>5, <2>6, JobLeaves
<1>2. ASSUME NEW w \in Workers, Deliver(w, j)
      PROVE  UNCHANGED Promise!vars
  <2> DEFINE x == [y EXCEPT !.status = "active", !.lock = w]
  <2>1. y.status = "waiting" /\ jobs' = [jobs EXCEPT ![j] = x] /\ UNCHANGED samples
    BY <1>2 DEF Deliver
  <2>2. y # NoJob
    BY <2>1 DEF NoJob
  <2>3. y \in AnyJob
    BY <2>2, KnownJob
  <2>4. /\ x \in AnyJob /\ x.status = "active" /\ x.sample = y.sample
        /\ x.answer = y.answer /\ x.off = y.off
    <3>1. "active" \in {"adding", "lost"} \cup Queued
      BY DEF Queued, Ended
    <3> HIDE DEF y
    <3>2. x \in AnyJob
      BY <2>3, <3>1, JobStaysAJob
    <3>3. QED
      BY <2>3, <3>2 DEF AnyJob
  <2> HIDE DEF x
  <2>5. StateOf(x.status) = StateOf(y.status)
    BY <2>1, <2>4, StatesOf
  <2>6. OffNow' = OffNow /\ View(jobs)' = View(jobs)
    BY <2>1, <2>2, <2>4, <2>5, StateMoves
  <2>7. QED
    BY <2>6, Unseen
<1>3. QED
  BY <1>1, <1>2

\* A new row is on.
LEMMA InsertUnseen ==
  ASSUME IInv, NEW r \in Requests, Insert(r)
  PROVE  UNCHANGED Promise!vars
<1>1. requests[r].ask.sample \notin DOMAIN samples
  BY DEF Insert, IInv, RequestsGood, GoodRequest, Creating
<1>2. /\ DOMAIN samples' = DOMAIN samples \cup {requests[r].ask.sample}
      /\ \A s \in DOMAIN samples : samples'[s] = samples[s]
      /\ ~Off(samples', requests[r].ask.sample)
  BY <1>1 DEF Insert, Off
<1>3. OffNow' = OffNow
  BY <1>1, <1>2 DEF OffNow, Off
<1>4. View(jobs)' = View(jobs)
  BY DEF Insert, View
<1>5. QED
  BY <1>3, <1>4, Unseen

Moves(j) ==
  \/ Promise!Call(j) \/ Promise!Enqueue(j) \/ Promise!Vanish(j)
  \/ Promise!Keep(j) \/ Promise!Break(j)

\* Every step, but for the answers, is seen as one of Deactivations.
LEMMA StepsSeen ==
  ASSUME IInv, IInv', [Next]_vars
  PROVE  \/ UNCHANGED Promise!vars
         \/ Promise!Switch
         \/ \E j \in Jobs : Moves(j)
         \/ \E r \in Requests : Accept(r) \/ Refuse(r)
<1>1. CASE UNCHANGED <<samples, jobs>>
  BY <1>1, OffStays, Unseen DEF View
<1>2. ASSUME NEW r \in Requests, HandlerStep(r)
      PROVE  \/ UNCHANGED Promise!vars \/ Promise!Switch
             \/ (\E j \in Jobs : Moves(j)) \/ Accept(r)
  <2>1. CASE ChooseOrder(r) \/ FindForWrite(r)
    BY <2>1, OffStays, Unseen DEF ChooseOrder, FindForWrite, View
  <2>2. CASE FindForJob(r)
    BY <2>2, FindForJobCalls DEF Moves
  <2>3. QED
    BY <1>2, <2>1, <2>2, InsertUnseen, WritesSwitch DEF HandlerStep
<1>3. ASSUME NEW r \in Requests, RequestFails(r) \/ \E ask \in Asks : Begin(r, ask)
      PROVE  UNCHANGED <<samples, jobs>>
  BY <1>3 DEF RequestFails, Begin
<1>4. ASSUME NEW j \in Jobs,
             AddArrives(j) \/ AddIsLost(j) \/ Stall(j) \/ \E w \in Workers : Deliver(w, j)
      PROVE  UNCHANGED Promise!vars \/ \E i \in Jobs : Moves(i)
  BY <1>4, AddEnds, LocksChange DEF Moves
<1>5. ASSUME NEW w \in Workers, WorkerStep(w) \/ WorkerFails(w) \/ WorkerDies(w)
      PROVE  UNCHANGED Promise!vars \/ Promise!Switch \/ \E j \in Jobs : Moves(j)
  BY <1>5, WorkersEnd, JobsSwitch DEF WorkerStep, Moves
<1>6. CASE UNCHANGED vars
  BY <1>1, <1>6 DEF vars
<1>7. QED
  BY <1>1, <1>2, <1>3, <1>4, <1>5, <1>6 DEF Next

\* Nothing but Accept and Refuse answers a call.
LEMMA AnswersStay ==
  ASSUME IInv, IInv', [Next]_vars, \A r \in Requests : ~Accept(r) /\ ~Refuse(r),
         NEW j \in Jobs, jobs[j] # NoJob
  PROVE  jobs'[j].answer = jobs[j].answer
<1> DEFINE P == View(jobs)
           Q == View(jobs)'
<1>0. DOMAIN P = Jobs
  BY DEF View
<1>1. P[j] = Promised(jobs[j]) /\ jobs[j] \in AnyJob
  BY KnownJob DEF View
<1>2. P[j].state # "none" /\ P[j].answer = jobs[j].answer
  BY <1>1, PromisedIs, StatesOf DEF AnyJob, StateOf, Queued, Ended
<1>3. \/ Q[j] = P[j]
      \/ \E f : Q[j] = [P[j] EXCEPT !.state = f] /\ f # "none"
      \/ Q[j] = [P[j] EXCEPT !.wasOff = TRUE]
      \/ \E f : Q[j] = [[P[j] EXCEPT !.state = f] EXCEPT !.wasOff = TRUE] /\ f # "none"
  <2>1. CASE UNCHANGED Promise!vars
    BY <2>1 DEF Promise!vars, View
  <2>2. CASE Promise!Switch
    BY <2>2 DEF Promise!Switch, Promise!Noted, View
  <2>3. ASSUME NEW i \in Jobs, Promise!Call(i) PROVE Q[j] = P[j]
    <3>1. P[i] = [state |-> "none"] /\ \E x : Q = [P EXCEPT ![i] = x]
      BY <2>3 DEF Promise!Call, Promise!None, View
    <3> HIDE DEF P, Q
    <3>2. QED
      BY <1>2, <1>0, <3>1
  <2>4. ASSUME NEW i \in Jobs, Promise!Vanish(i) \/ Promise!Keep(i) \/ Promise!Break(i)
        PROVE  \/ Q[j] = P[j]
               \/ \E f : Q[j] = [P[j] EXCEPT !.state = f] /\ f # "none"
    <3>1. \E f \in {"vanished", "kept", "broken"} : Q = [P EXCEPT ![i].state = f]
      BY <2>4 DEF Promise!Vanish, Promise!Keep, Promise!Break, View
    <3> HIDE DEF P, Q
    <3>2. QED
      BY <1>0, <3>1
  <2>5. ASSUME NEW i \in Jobs, Promise!Enqueue(i)
        PROVE  \/ Q[j] = P[j]
               \/ \E f : Q[j] = [P[j] EXCEPT !.state = f] /\ f # "none"
               \/ Q[j] = [P[j] EXCEPT !.wasOff = TRUE]
               \/ \E f : Q[j] = [[P[j] EXCEPT !.state = f] EXCEPT !.wasOff = TRUE] /\ f # "none"
    <3>1. Q = Promise!Noted([P EXCEPT ![i].state = "pending"], OffNow)
      BY <2>5 DEF Promise!Enqueue, View, OffNow
    <3> DEFINE R == [P EXCEPT ![i].state = "pending"]
    <3> HIDE DEF P, Q
    <3>2. R[j] = P[j] \/ R[j] = [P[j] EXCEPT !.state = "pending"]
      BY <1>0
    <3> HIDE DEF R
    <3>3. Q[j] = R[j] \/ Q[j] = [R[j] EXCEPT !.wasOff = TRUE]
      BY <3>1 DEF Promise!Noted, R
    <3>4. QED
      BY <3>2, <3>3
  <2>6. QED
    BY <2>1, <2>2, <2>3, <2>4, <2>5, StepsSeen DEF Moves
<1>4. Q[j].state # "none" /\ Q[j].answer = P[j].answer
  <2>1. P[j] = [state |-> P[j].state, sample |-> P[j].sample, answer |-> P[j].answer,
                wasOff |-> P[j].wasOff]
    BY <1>1, PromisedIs
  <2> HIDE DEF P, Q
  <2>2. QED
    BY <1>2, <1>3, <2>1
<1>5. Q[j] = IF jobs'[j] = NoJob THEN [state |-> "none"] ELSE Promised(jobs'[j])
  BY DEF View, Promised
<1>6. jobs'[j] # NoJob
  BY <1>4, <1>5
<1>7. QED
  BY <1>2, <1>4, <1>5, <1>6, PromisedIs

\* Who waits has no answer yet, and waits for a job of his own.
Unanswered ==
  \A r \in Requests : requests[r].phase = "wait" =>
    /\ jobs[requests[r].job].answer = 0
    /\ \A o \in Requests : o # r /\ requests[o].phase = "wait"
                            => requests[o].job # requests[r].job

LEMMA WhoWaits ==
  ASSUME IInv, [Next]_vars, NEW r \in Requests, requests'[r].phase = "wait"
  PROVE  requests'[r] = requests[r] \/ FindForJob(r)
<1>0. requests \in [Requests -> RequestState]
  BY DEF IInv, TypeOK
<1>1. ASSUME NEW o \in Requests, HandlerStep(o)
      PROVE  requests'[r] = requests[r] \/ FindForJob(r)
  BY <1>0, <1>1 DEF HandlerStep, ChooseOrder, Insert, FindForWrite, Patch, Remove, FindForJob,
                    Accept, Answer, Idle
<1>2. ASSUME NEW o \in Requests, Refuse(o) \/ RequestFails(o) \/ \E ask \in Asks : Begin(o, ask)
      PROVE  requests'[r] = requests[r]
  BY <1>0, <1>2 DEF Refuse, Answer, RequestFails, Begin, Idle
<1>3. ASSUME NEW j \in Jobs,
             AddArrives(j) \/ AddIsLost(j) \/ Stall(j) \/ \E w \in Workers : Deliver(w, j)
      PROVE  requests'[r] = requests[r]
  BY <1>3 DEF AddArrives, AddIsLost, Stall, Deliver
<1>4. ASSUME NEW w \in Workers, WorkerStep(w) \/ WorkerFails(w) \/ WorkerDies(w)
      PROVE  requests'[r] = requests[r]
  BY <1>4 DEF WorkerStep, WorkerFinds, WorkerWrites, WorkerRereads, WorkerFails, WorkerDies
<1>5. CASE UNCHANGED vars
  BY <1>5 DEF vars
<1>6. QED
  BY <1>1, <1>2, <1>3, <1>4, <1>5 DEF Next

LEMMA UnansweredStep ==
  ASSUME IInv, IInv', Unanswered, [Next]_vars
  PROVE  Unanswered'
<1>0. requests \in [Requests -> RequestState] /\ jobs \in [Jobs -> JobState]
  BY DEF IInv, TypeOK
<1>1. ASSUME NEW r \in Requests, requests[r].phase = "wait"
      PROVE  requests[r].job \in Jobs /\ jobs[requests[r].job] # NoJob
  BY <1>0, <1>1, RequestShapes DEF IInv, RequestsGood, GoodRequest
<1>2. ASSUME NEW r \in Requests, Accept(r) \/ Refuse(r) PROVE Unanswered'
  <2>1. PICK code : Answer(r, code) /\ requests[r].phase = "wait"
    BY <1>2 DEF Accept, Refuse
  <2>2. /\ requests' = [requests EXCEPT ![r] = Idle]
        /\ jobs' = [jobs EXCEPT ![requests[r].job].answer = code]
    BY <2>1 DEF Answer
  <2>3. ASSUME NEW o \in Requests, requests'[o].phase = "wait"
        PROVE  o # r /\ requests'[o] = requests[o] /\ jobs'[requests[o].job] = jobs[requests[o].job]
    <3>1. o # r /\ requests'[o] = requests[o]
      BY <1>0, <2>2, <2>3 DEF Idle
    <3>2. requests[o].job # requests[r].job /\ requests[o].job \in Jobs
      BY <1>1, <2>1, <2>3, <3>1 DEF Unanswered
    <3>3. QED
      BY <1>0, <2>2, <3>1, <3>2
  <2>4. QED
    BY <2>3 DEF Unanswered
<1>3. CASE \A r \in Requests : ~Accept(r) /\ ~Refuse(r)
  <2>1. ASSUME NEW o \in Requests, requests[o].phase = "wait"
        PROVE  jobs'[requests[o].job].answer = 0
    BY <1>1, <1>3, <2>1, AnswersStay DEF Unanswered
  <2>2. ASSUME NEW r \in Requests, FindForJob(r) PROVE Unanswered'
    <3>1. \A o \in Requests : o # r => requests'[o] = requests[o]
      BY <1>0, <2>2 DEF FindForJob
    <3>2. CASE requests'[r].phase # "wait"
      BY <2>1, <3>1, <3>2 DEF Unanswered
    <3>3. CASE requests'[r].phase = "wait"
      <4>1. PICK j \in Jobs : /\ jobs[j] = NoJob /\ requests'[r].job = j
                              /\ jobs'[j].answer = 0
        BY <1>0, <2>2, <3>3 DEF FindForJob, Idle
      <4>2. \A o \in Requests : requests[o].phase = "wait" => requests[o].job # j
        BY <1>1, <4>1
      <4>3. QED
        BY <2>1, <3>1, <4>1, <4>2 DEF Unanswered
    <3>4. QED
      BY <3>2, <3>3
  <2>3. CASE \A r \in Requests : ~FindForJob(r)
    <3>1. \A r \in Requests : requests'[r].phase = "wait" => requests'[r] = requests[r]
      BY <2>3, WhoWaits
    <3>2. QED
      BY <2>1, <3>1 DEF Unanswered
  <2>4. QED
    BY <2>2, <2>3
<1>4. QED
  BY <1>2, <1>3

LEMMA AnswersSeen ==
  ASSUME IInv, Unanswered, NEW r \in Requests, Accept(r) \/ Refuse(r)
  PROVE  \E j \in Jobs, code \in {202, 503} : Promise!Answer(j, code)
<1> DEFINE j == requests[r].job
           y == jobs[j]
<1>1. requests[r].phase = "wait" /\ requests[r] \in RequestState
  BY DEF Accept, Refuse, IInv, TypeOK
<1>2. j \in Jobs /\ y # NoJob /\ y.answer = 0
  BY <1>1, RequestShapes DEF IInv, RequestsGood, GoodRequest, Unanswered
<1>3. y \in AnyJob
  BY <1>2, KnownJob
<1>4. PICK code \in {202, 503} : Answer(r, code) /\ (code = 202 => y.status \in Queued)
  BY DEF Accept, Refuse
<1> DEFINE x == [y EXCEPT !.answer = code]
<1>5. /\ x \in AnyJob /\ x.answer = code /\ x.sample = y.sample /\ x.status = y.status
      /\ x.off = y.off
  BY <1>3, SMTT(60) DEF AnyJob
<1>6. jobs' = [jobs EXCEPT ![j] = x] /\ UNCHANGED samples
  BY <1>4 DEF Answer
<1> HIDE DEF x
<1>7. OffNow' = OffNow /\ View(jobs)' = [View(jobs) EXCEPT ![j] = Promised(x)]
  <2>1. j \in Jobs /\ x \in AnyJob /\ jobs' = [jobs EXCEPT ![j] = x] /\ UNCHANGED samples
    BY <1>2, <1>5, <1>6
  <2> HIDE DEF j
  <2>2. QED
    BY <2>1, OneJobMoves
<1>8. View(jobs)[j] = Promised(y)
  BY <1>2 DEF View
<1>9. Promised(x) = [Promised(y) EXCEPT !.answer = code]
  BY <1>5, PromisedIs
<1>10. View(jobs)' = [View(jobs) EXCEPT ![j].answer = code]
  BY <1>7, <1>8, <1>9
<1>11. View(jobs)[j].answer = 0 /\ View(jobs)[j] # [state |-> "none"]
  BY <1>2, <1>8, PromisedIs
<1>12. code = 202 => View(jobs)[j].state \in Promise!Taken
  <2>1. View(jobs)[j].state = StateOf(y.status)
    BY <1>8, PromisedIs
  <2>2. y.status \in Queued => StateOf(y.status) \in Promise!Taken
    BY StatesOf
  <2>3. QED
    BY <1>4, <2>1, <2>2
<1>13. Promise!Answer(j, code)
  BY <1>7, <1>10, <1>11, <1>12 DEF Promise!Answer, Promise!None, View, OffNow
<1>14. QED
  BY <1>2, <1>13

\* What BullMQ and the adapter do with a job - the race of the enqueue, attempts, stalls,
\* workers that go on without the lock - keeps the promise of Deactivations.
THEOREM QueueKeepsItsPromise == Spec => ImplementsDeactivations
<1>1. Init => Promise!Init /\ Unanswered
  <2> SUFFICES ASSUME Init PROVE Promise!Init /\ Unanswered
    OBVIOUS
  <2>1. OffNow = {}
    BY DEF Init, OffNow, Off
  <2>2. View(jobs) = [j \in Jobs |-> [state |-> "none"]]
    BY DEF Init, View
  <2>3. Promise!Init
    BY <2>1, <2>2 DEF Promise!Init, Promise!None, View, OffNow
  <2>4. Unanswered
    BY DEF Init, Unanswered, Idle
  <2>5. QED
    BY <2>3, <2>4
<1>2. IInv /\ IInv' /\ Unanswered /\ [Next]_vars => Unanswered'
  BY UnansweredStep
<1>3. IInv /\ IInv' /\ Unanswered /\ [Next]_vars => [Promise!Next]_(Promise!vars)
  BY StepsSeen, AnswersSeen DEF Promise!Next, Moves
<1>4. QED
  BY <1>1, <1>2, <1>3, Invariance, PTL DEF Spec, ImplementsDeactivations, Promise!Spec
=============================================================================
