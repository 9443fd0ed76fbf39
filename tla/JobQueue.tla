------------------------------ MODULE JobQueue ------------------------------
(***************************************************************************)
(* The Bull half of a worker process: JobsProvider loads the queue         *)
(* classes, starts a worker per enabled queue and closes them one after    *)
(* the other; Queueable dispatches jobs and runs them.  Bull and Redis are *)
(* external and serve all worker processes: jobs survive the process; a    *)
(* failed attempt is tried again after the backoff; a job whose lock was   *)
(* not renewed is handed out again, to this process or to another, and an  *)
(* outcome counts only while its process holds the lock.                   *)
(***************************************************************************)
EXTENDS Naturals, Sequences, FiniteSets, WorkerStages

CONSTANTS
    Queues,           \* queue names, in the order their files are loaded
    BrokenQueues,     \* those whose file throws when it is imported
    JobDefinitions,   \* JOB_DEFINITIONS
    Jobs,             \* the jobs that get dispatched
    QueueOf,          \* the queue of a job
    ConcurrencyOf,    \* getConcurrency of a queue's class
    SharedQueues,     \* the queues that worker processes elsewhere run, too
    Attempts,         \* defaultJobOptions.attempts
    MaxStalls,        \* Bull's maxStalledCount
    Nothing           \* no queue, or no place

\* This process, and all other worker processes.
Places == {"here", "elsewhere"}

QueueNames == {Queues[i] : i \in DOMAIN Queues}
ASSUME QueuesAssumption == Queues \in Seq(STRING) /\ Queues # <<>> /\ Nothing \notin STRING
ASSUME JobsAssumption == IsFiniteSet(Jobs) /\ QueueOf \in [Jobs -> QueueNames]
ASSUME PlacesAssumption == Nothing \notin Places
ASSUME PoolsAssumption == ConcurrencyOf \in [QueueNames -> Nat \ {0}] /\ SharedQueues \subseteq QueueNames
ASSUME JobBounds == Attempts \in Nat \ {0} /\ MaxStalls \in Nat

VARIABLES
    workers,        \* queueWorkerDefinitions: the classes whose file was loaded
    runningJobs,    \* JobsProvider.runningJobs
    closing,        \* the queue whose close JobsProvider.close awaits, or Nothing
    processing,     \* queues with a process handler and no finished close
    unclosed,       \* queues whose close failed
    job,            \* each job in Redis: "none", "wait", "active", "delayed", "completed", "failed"
    tries, stalls,  \* attempts that failed, locks that were lost
    lock,           \* the place whose worker holds the job's lock, or Nothing
    running         \* how many handlers run at a place, of each job

redisJobs == <<job, tries, stalls, lock>>
provider  == <<workers, runningJobs, closing, processing, unclosed>>
jobVars   == <<provider, redisJobs, running>>

JobsInit ==
    /\ workers = <<>> /\ runningJobs = <<>> /\ closing = Nothing /\ processing = {} /\ unclosed = {}
    /\ job = [j \in Jobs |-> "none"] /\ tries = [j \in Jobs |-> 0] /\ stalls = [j \in Jobs |-> 0]
    /\ lock = [j \in Jobs |-> Nothing] /\ running = [w \in Places |-> [j \in Jobs |-> 0]]

-----------------------------------------------------------------------------
(* register, boot, close *)

LoadWorker ==
    /\ stage = "registerJobs" /\ Allows("worker")
    /\ workers' = IF Queues[at] \in BrokenQueues THEN workers ELSE Append(workers, Queues[at])
    /\ IF at < Len(Queues) THEN at' = at + 1 /\ UNCHANGED stage ELSE at' = 1 /\ stage' = "bootKafka"
    /\ UNCHANGED <<runningJobs, closing, processing, unclosed, redisJobs, running>>

\* register returns at once; boot and close find nothing to do.
JobsDisabled ==
    /\ ~Allows("worker") /\ stage = "registerJobs"
    /\ stage' = "bootKafka"
    /\ UNCHANGED <<at, jobVars>>

\* startJob: a queue that is not enabled is passed over.
StartJob ==
    /\ stage = "bootJobs" /\ at <= Len(workers)
    /\ LET q == workers[at]
       IN IF JobDefinitions = {} \/ q \in JobDefinitions
          THEN processing' = processing \cup {q} /\ runningJobs' = Append(runningJobs, q)
          ELSE UNCHANGED <<processing, runningJobs>>
    /\ at' = at + 1
    /\ UNCHANGED <<stage, workers, closing, unclosed, redisJobs, running>>

JobsBooted ==
    /\ stage = "bootJobs" /\ at > Len(workers)
    /\ stage' = "up" /\ at' = 1
    /\ UNCHANGED jobVars

RunningIn(q) == {j \in Jobs : QueueOf[j] = q /\ running["here"][j] > 0}

\* The last queue is popped and closed; the ones before it work on meanwhile.
CloseQueue ==
    /\ stage = "closeJobs" /\ closing = Nothing /\ runningJobs # <<>>
    /\ closing' = runningJobs[Len(runningJobs)]
    /\ runningJobs' = SubSeq(runningJobs, 1, Len(runningJobs) - 1)
    /\ UNCHANGED <<stage, at, workers, processing, unclosed, redisJobs, running>>

\* Bull's close returns when the queue's handlers are done.
QueueClosed ==
    /\ stage = "closeJobs" /\ closing # Nothing /\ RunningIn(closing) = {}
    /\ processing' = processing \ {closing} /\ closing' = Nothing
    /\ UNCHANGED <<stage, at, workers, runningJobs, unclosed, redisJobs, running>>

\* job.close() rejects: the error is logged and the loop goes on, whatever handlers of the
\* queue run, and nothing in the provider stops it from taking more jobs.
CloseFails ==
    /\ stage = "closeJobs" /\ closing # Nothing
    /\ unclosed' = unclosed \cup {closing} /\ closing' = Nothing
    /\ UNCHANGED <<stage, at, workers, runningJobs, processing, redisJobs, running>>

QueuesStopped ==
    /\ stage = "closeJobs" /\ closing = Nothing /\ runningJobs = <<>>
    /\ stage' = "closeKafka"
    /\ UNCHANGED <<at, jobVars>>

\* The process is gone with its handlers; what Redis holds stays, its locks until they expire.
JobsGone ==
    /\ workers' = <<>> /\ runningJobs' = <<>> /\ closing' = Nothing /\ processing' = {} /\ unclosed' = {}
    /\ running' = [running EXCEPT !["here"] = [j \in Jobs |-> 0]]
    /\ UNCHANGED redisJobs

-----------------------------------------------------------------------------
(* The jobs *)
Move(j, state) == job' = [job EXCEPT ![j] = state]
Lock(j, holder) == lock' = [lock EXCEPT ![j] = holder]
End(w, j) == running[w][j] > 0 /\ running' = [running EXCEPT ![w][j] = @ - 1]

\* dispatch, POST /jobs-demo/dispatch: the controller has the queue whether or not a worker runs.
Dispatch(j) ==
    /\ job[j] = "none"
    /\ Move(j, "wait")
    /\ UNCHANGED <<stage, at, provider, tries, stalls, lock, running>>

\* The queue's handlers at work here, told apart by their job and a number.
Handlers(q) == {h \in Jobs \X (1 .. ConcurrencyOf[q]) : QueueOf[h[1]] = q /\ h[2] <= running["here"][h[1]]}

\* registerProcess: what this process takes; what others do is theirs to limit.
Takes(w, q) ==
    IF w = "here" THEN q \in processing \ {closing} /\ Cardinality(Handlers(q)) < ConcurrencyOf[q]
    ELSE q \in SharedQueues

\* Bull hands a waiting job to processHandler.
Take(w, j) ==
    /\ job[j] = "wait" /\ Takes(w, QueueOf[j])
    /\ Move(j, "active") /\ Lock(j, w)
    /\ running' = [running EXCEPT ![w][j] = @ + 1]
    /\ UNCHANGED <<stage, at, provider, tries, stalls>>

\* Mutant of Succeed: the handler's promise is not returned, so Bull does not wait for it.
SucceedUnawaited(w, j) ==
    /\ running[w][j] > 0
    /\ IF lock[j] = w THEN Move(j, "completed") /\ Lock(j, Nothing) /\ UNCHANGED running
       ELSE End(w, j) /\ UNCHANGED <<job, lock>>
    /\ UNCHANGED <<stage, at, provider, tries, stalls>>

\* The promise of processHandler resolves; the outcome of a place without the lock is refused.
Succeed(w, j) ==
    /\ End(w, j)
    /\ IF lock[j] = w THEN Move(j, "completed") /\ Lock(j, Nothing) ELSE UNCHANGED <<job, lock>>
    /\ UNCHANGED <<stage, at, provider, tries, stalls>>

\* Mutant of Throw: the attempt is not counted.
ThrowUncounted(w, j) ==
    /\ End(w, j)
    /\ IF lock[j] = w THEN Move(j, "delayed") /\ Lock(j, Nothing) ELSE UNCHANGED <<job, lock>>
    /\ UNCHANGED <<stage, at, provider, tries, stalls>>

\* It rejects: another attempt after the fixed backoff, or the job has failed.
Throw(w, j) ==
    /\ End(w, j)
    /\ IF lock[j] = w
       THEN /\ tries' = [tries EXCEPT ![j] = @ + 1]
            /\ Move(j, IF tries[j] + 1 < Attempts THEN "delayed" ELSE "failed") /\ Lock(j, Nothing)
       ELSE UNCHANGED <<job, tries, lock>>
    /\ UNCHANGED <<stage, at, provider, stalls>>

\* A handler elsewhere ends with its process, or is not the one that has the lock there.
EndElsewhere(j) ==
    /\ End("elsewhere", j)
    /\ UNCHANGED <<stage, at, provider, redisJobs>>

\* A worker of the queue moves a job whose backoff is over.
Served(j) == QueueOf[j] \in processing \cup SharedQueues
Due(j) ==
    /\ job[j] = "delayed" /\ Served(j)
    /\ Move(j, "wait")
    /\ UNCHANGED <<stage, at, provider, tries, stalls, lock, running>>

\* The lock expires: its holder died, or was too busy to renew it and works on.
Expire(j) ==
    /\ lock[j] # Nothing
    /\ Lock(j, Nothing)
    /\ UNCHANGED <<stage, at, provider, job, tries, stalls, running>>

\* A worker of the queue finds an active job without its lock, which may be taken again, but
\* not any number of times.
Stall(j) ==
    /\ job[j] = "active" /\ lock[j] = Nothing /\ Served(j)
    /\ stalls' = [stalls EXCEPT ![j] = @ + 1]
    /\ Move(j, IF stalls[j] < MaxStalls THEN "wait" ELSE "failed")
    /\ UNCHANGED <<stage, at, provider, tries, lock, running>>

JobsNext ==
    \/ LoadWorker \/ JobsDisabled \/ StartJob \/ JobsBooted
    \/ CloseQueue \/ QueueClosed \/ CloseFails \/ QueuesStopped
    \/ \E j \in Jobs :
         \/ Dispatch(j) \/ Due(j) \/ Expire(j) \/ Stall(j) \/ EndElsewhere(j)
         \/ \E w \in Places : Take(w, j) \/ Succeed(w, j) \/ Throw(w, j)

-----------------------------------------------------------------------------
JobsTypeOK ==
    /\ workers \in Seq(QueueNames) /\ runningJobs \in Seq(QueueNames)
    /\ closing \in QueueNames \cup {Nothing} /\ processing \subseteq QueueNames /\ unclosed \subseteq QueueNames
    /\ job \in [Jobs -> {"none", "wait", "active", "delayed", "completed", "failed"}]
    /\ tries \in [Jobs -> 0 .. Attempts] /\ stalls \in [Jobs -> 0 .. MaxStalls + 1]
    /\ lock \in [Jobs -> Places \cup {Nothing}] /\ running \in [Places -> [Jobs -> Nat]]

\* A job is handled by one handler at a time, here or elsewhere, and by none when it is over;
\* every handler beyond that is accounted for by a lock the job lost, however many jobs a
\* process takes at once and however many processes there are (getProcessHandler returns
\* the handler's promise; registerProcess, getConcurrency).
HandlersOf(j) == running["here"][j] + running["elsewhere"][j]
OverlapsFollowStalls ==
    \A j \in Jobs : HandlersOf(j) <= stalls[j] + (IF job[j] = "active" THEN 1 ELSE 0)

\* An attempt is left to every job that has not failed, and only active jobs are locked.
AttemptsLeft == \A j \in Jobs : job[j] # "failed" => tries[j] < Attempts /\ stalls[j] <= MaxStalls
LockedActive == \A j \in Jobs : lock[j] # Nothing => job[j] = "active"

\* Handlers run here only for a queue that takes jobs, and such a queue is still to be closed,
\* or its close is awaited or has failed: the list close pops from forgets none.
HandlersProcessed == \A j \in Jobs : running["here"][j] > 0 => QueueOf[j] \in processing
ProcessingListed ==
    \A q \in processing \ unclosed : q = closing \/ \E n \in DOMAIN runningJobs : runningJobs[n] = q
ProcessingUp ==
    /\ processing \ unclosed # {} => stage \in {"bootJobs", "up", "closeJobs"}
    /\ unclosed # {} => stage \in {"closeJobs", "closeKafka", "closed"}

\* As long as the process stays up, a job some worker of it can take ends: completed, or
\* failed after its attempts, or stalled too often (defaultJobOptions, dispatch).
JobsEnd ==
    \A j \in Jobs :
        (stage = "up" /\ QueueOf[j] \in processing /\ job[j] # "none")
            ~> (job[j] \in {"completed", "failed"} \/ stage # "up")
=============================================================================
