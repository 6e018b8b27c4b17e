----------------------------- MODULE ScannerPool -----------------------------
(***************************************************************************)
(* What a service request holds while it is under way: its place in        *)
(* ServiceRequestLimiter (serviceRequestLimiter.ts, inflightLimiter.ts),   *)
(* taken and given back in gateway.ts, and for its response a worker of    *)
(* SecretScannerPool or a place in the pool's queue                        *)
(* (secretScannerPool.ts, called from responseTokenizer.ts).               *)
(*                                                                         *)
(* Every method runs to its end at once; timers and the events of worker   *)
(* threads come in between in any order.  A request scans one text at a    *)
(* time, so a job is named by its request.  The limiters' counts and the   *)
(* pool's are kept as the code keeps them, not derived.                    *)
(***************************************************************************)
EXTENDS Integers, FiniteSets, SequencesExt

CONSTANTS
  Jobs, ScanSubjects, ScanServices,
  MaxTotal, MaxPerSource, MaxPerService,        \* of the request limiter
  PoolWorkers, QueueMax, SubjectActiveMax, SubjectQueueMax,  \* of the pool
  MaxFailures       \* bound on failures and exits of worker threads

VARIABLES
  request,     \* the service requests under way
  bySource, byService, requests,  \* the limiter's counts
  slot,        \* the pool's workers: the job of each and whether its thread runs
  queue,       \* the jobs that wait for a worker
  activeBySubject,
  closed,
  late,        \* threads that were replaced and may still report an error, at most
               \* as many as may still fail
  strays,      \* workers created for an entry that is no longer in the pool
  failures

poolVars == <<request, bySource, byService, requests, slot, queue, activeBySubject,
              closed, late, strays, failures>>

NoJob == "none"
Free == [job |-> NoJob, runs |-> TRUE]
Ready == [at |-> "ready"]

Init ==
  /\ request = [j \in Jobs |-> Ready]
  /\ bySource = [s \in ScanSubjects |-> 0] /\ byService = [v \in ScanServices |-> 0]
  /\ requests = 0
  /\ slot = [i \in 1..PoolWorkers |-> Free]
  /\ queue = <<>>
  /\ activeBySubject = [s \in ScanSubjects |-> 0]
  /\ closed = FALSE
  /\ late = 0 /\ strays = 0 /\ failures = 0

SubjectOf(j) == request[j].subject

-----------------------------------------------------------------------------
(* ServiceRequestLimiter, and the request that holds a place.              *)

\* A refused request has changed none of the three counts.
Acquire(j, s, v) ==
  /\ request[j] = Ready
  /\ byService[v] < MaxPerService
  /\ requests < MaxTotal /\ bySource[s] < MaxPerSource
  /\ requests' = requests + 1
  /\ bySource' = [bySource EXCEPT ![s] = @ + 1]
  /\ byService' = [byService EXCEPT ![v] = @ + 1]
  /\ request' = [request EXCEPT ![j] = [at |-> "open", subject |-> s, service |-> v]]
  /\ UNCHANGED <<slot, queue, activeBySubject, closed, late, strays, failures>>

\* The finally of the request, reached by every answer and every error.
Release(j) ==
  /\ request[j].at \in {"open", "scanned", "refused"}
  /\ requests' = requests - 1
  /\ bySource' = [bySource EXCEPT ![request[j].subject] = @ - 1]
  /\ byService' = [byService EXCEPT ![request[j].service] = @ - 1]
  /\ request' = [request EXCEPT ![j] = Ready]
  /\ UNCHANGED <<slot, queue, activeBySubject, closed, late, strays, failures>>

-----------------------------------------------------------------------------
(* The pool's state as one record, which each method takes and returns.    *)

Pool == [slot |-> slot, queue |-> queue, active |-> activeBySubject]

Eligible(pool, j) == pool.active[SubjectOf(j)] < SubjectActiveMax

Started(pool, i, j) ==
  [pool EXCEPT !.slot[i].job = j, !.active[SubjectOf(j)] = @ + 1]

\* A variant of DispatchTo: a job whose subject is at its limit holds up the rest.
DispatchToInOrder(pool, i) ==
  IF pool.slot[i].job # NoJob \/ pool.queue = <<>> \/ ~Eligible(pool, pool.queue[1])
  THEN pool
  ELSE [Started(pool, i, pool.queue[1]) EXCEPT !.queue = Tail(@)]

\* One turn of dispatch: a free worker takes the first job in the queue whose
\* subject is below its limit.
DispatchTo(pool, i) ==
  LET places == {k \in DOMAIN pool.queue : Eligible(pool, pool.queue[k])}
      k == Min(places)
  IN IF pool.slot[i].job # NoJob \/ places = {} THEN pool
     ELSE [Started(pool, i, pool.queue[k]) EXCEPT !.queue = RemoveAt(@, k)]

\* dispatch: every worker in turn.
Dispatched(pool) ==
  LET after[i \in 0..PoolWorkers] == IF i = 0 THEN pool ELSE DispatchTo(after[i - 1], i)
  IN after[PoolWorkers]

Keeps(pool) ==
  slot' = pool.slot /\ queue' = pool.queue /\ activeBySubject' = pool.active

\* Entry i gives up its job, if it has one, and its place is filled again.
Vacated(pool, i, thread) ==
  IF pool.slot[i].job = NoJob THEN [pool EXCEPT !.slot[i] = thread]
  ELSE [pool EXCEPT !.slot[i] = thread, !.active[SubjectOf(pool.slot[i].job)] = @ - 1]

Answers(j, at) == request' = [request EXCEPT ![j].at = at]

-----------------------------------------------------------------------------
(* The pool's methods.                                                     *)

\* scan: a free worker at once, a place in the queue, or a refusal.
Scan(j) ==
  LET s == SubjectOf(j)
      free == {i \in DOMAIN slot : slot[i].job = NoJob}
      canStart == free # {} /\ Eligible(Pool, j)
      queued == Len(SelectSeq(queue, LAMBDA k : SubjectOf(k) = s))
  IN /\ request[j].at \in {"open", "scanned"}
     /\ \/ /\ closed
           /\ Answers(j, "refused") /\ UNCHANGED <<slot, queue, activeBySubject>>
        \/ /\ ~closed /\ canStart
           /\ Answers(j, "scanning") /\ Keeps(Started(Pool, Min(free), j))
        \/ /\ ~closed /\ ~canStart /\ Len(queue) < QueueMax /\ queued < SubjectQueueMax
           /\ Answers(j, "queued") /\ Keeps([Pool EXCEPT !.queue = Append(@, j)])
        \/ /\ ~closed /\ ~canStart /\ (Len(queue) >= QueueMax \/ queued >= SubjectQueueMax)
           /\ Answers(j, "refused") /\ UNCHANGED <<slot, queue, activeBySubject>>
     /\ UNCHANGED <<bySource, byService, requests, closed, late, strays, failures>>

\* A job that waited too long leaves the queue; start has stopped this timer.
QueueTimeout(k) ==
  /\ k \in DOMAIN queue
  /\ queue' = RemoveAt(queue, k)
  /\ Answers(queue[k], "refused")
  /\ UNCHANGED <<bySource, byService, requests, slot, activeBySubject, closed, late, strays,
                 failures>>

\* When a job leaves its worker, the started jobs are known only afterwards.
Leaves(i, thread, at) ==
  LET pool == Dispatched(Vacated(Pool, i, thread))
      j == slot[i].job
  IN /\ Keeps(pool)
     /\ request' = [k \in Jobs |->
          IF k = j THEN [request[k] EXCEPT !.at = at]
          ELSE IF \E n \in DOMAIN pool.slot : pool.slot[n].job = k
               THEN [request[k] EXCEPT !.at = "scanning"] ELSE request[k]]

\* finish: the thread answers, with findings or an error.
Finish(i) ==
  /\ slot[i].job # NoJob /\ slot[i].runs
  /\ \E at \in {"scanned", "refused"} : Leaves(i, [slot[i] EXCEPT !.job = NoJob], at)
  /\ UNCHANGED <<bySource, byService, requests, closed, late, strays, failures>>

\* recycle: the entry's thread is replaced unless the pool is closed.  The old
\* thread may still report an error, for which its entry listens.
Recycled(i) ==
  /\ Leaves(i, IF closed THEN [Free EXCEPT !.runs = FALSE] ELSE Free, "refused")
  /\ late' = IF closed \/ late = MaxFailures THEN late ELSE late + 1

ScanTimeout(i) ==
  /\ slot[i].job # NoJob
  /\ Recycled(i)
  /\ UNCHANGED <<bySource, byService, requests, closed, strays, failures>>

WorkerError(i) ==
  /\ failures < MaxFailures /\ slot[i].runs
  /\ failures' = failures + 1
  /\ Recycled(i)
  /\ UNCHANGED <<bySource, byService, requests, closed, strays>>

\* An exit replaces the thread only if it has a job and the code is not zero;
\* otherwise the entry stays in the pool with a thread that has ended.
WorkerExit(i) ==
  /\ failures < MaxFailures /\ slot[i].runs
  /\ failures' = failures + 1
  /\ \/ ~closed /\ slot[i].job # NoJob /\ Recycled(i)
     \/ slot' = [slot EXCEPT ![i].runs = FALSE] /\ UNCHANGED <<request, queue, activeBySubject, late>>
  /\ UNCHANGED <<bySource, byService, requests, closed, strays>>

\* recycle of an entry that is no longer among the workers: indexOf gives -1,
\* and the new thread is stored where nothing looks for it.
LateError ==
  /\ failures < MaxFailures /\ late > 0
  /\ failures' = failures + 1 /\ late' = late - 1
  /\ strays' = IF closed THEN strays ELSE strays + 1
  /\ Keeps(Dispatched(Pool))
  /\ UNCHANGED <<request, bySource, byService, requests, closed>>

\* close refuses the queue and ends the threads; an answer may still arrive, and
\* the jobs of the others are left to their timers.
Close ==
  /\ ~closed /\ closed' = TRUE
  /\ queue' = <<>>
  /\ request' = [j \in Jobs |->
       IF Contains(queue, j) THEN [request[j] EXCEPT !.at = "refused"] ELSE request[j]]
  /\ UNCHANGED <<bySource, byService, requests, slot, activeBySubject, late, strays, failures>>

Next ==
  \/ \E j \in Jobs :
       \/ \E s \in ScanSubjects, v \in ScanServices : Acquire(j, s, v)
       \/ Release(j) \/ Scan(j)
  \/ \E k \in 1..QueueMax : QueueTimeout(k)
  \/ \E i \in 1..PoolWorkers :
       Finish(i) \/ ScanTimeout(i) \/ WorkerError(i) \/ WorkerExit(i)
  \/ LateError \/ Close

Spec == Init /\ [][Next]_poolVars

-----------------------------------------------------------------------------
(* Properties.                                                             *)

Under(P(_)) == Cardinality({j \in Jobs : request[j] # Ready /\ P(request[j])})
Running == {j \in Jobs : \E i \in DOMAIN slot : slot[i].job = j}

\* The counts of limiter and pool are those of the requests under way, within
\* their limits, however scans, timers and failing threads follow each other;
\* a request that waits has exactly one place where it will be answered, and
\* no worker idles while a job waits whose subject may start one
\* (serviceRequestLimiter.ts, secretScannerPool.ts dispatch, recycle, finish).
CapacityKept ==
  /\ requests = Under(LAMBDA r : TRUE) /\ requests <= MaxTotal
  /\ \A s \in ScanSubjects :
       /\ bySource[s] = Under(LAMBDA r : r.subject = s) /\ bySource[s] <= MaxPerSource
       /\ activeBySubject[s] = Cardinality({j \in Running : SubjectOf(j) = s})
       /\ activeBySubject[s] <= SubjectActiveMax
  /\ \A v \in ScanServices :
       byService[v] = Under(LAMBDA r : r.service = v) /\ byService[v] <= MaxPerService
  /\ Len(queue) <= QueueMax
  /\ \A j \in Jobs :
       /\ (request[j].at = "scanning") <=> j \in Running
       /\ (request[j].at = "queued") <=> Contains(queue, j)
       /\ Cardinality({i \in DOMAIN slot : slot[i].job = j}
                      \cup {-k : k \in {k \in DOMAIN queue : queue[k] = j}}) <= 1
  /\ \A i \in DOMAIN slot, k \in DOMAIN queue :
       slot[i].job = NoJob => ~Eligible(Pool, queue[k])
=============================================================================
