------------------------------ MODULE Workers ------------------------------
(***************************************************************************)
(* One worker process: the providers of the Kernel are registered, booted  *)
(* in order and closed in reverse (see Lifecycle), here KafkaProvider and  *)
(* JobsProvider at the places Kernel.providers names in its comments.  The *)
(* process may crash at any moment and be started again; the broker and    *)
(* Redis keep their state.                                                 *)
(***************************************************************************)
EXTENDS KafkaConsumers, JobQueue

vars == <<stage, at, serverTypes, kafkaVars, jobVars>>

Init ==
    /\ stage = "registerKafka" /\ at = 1 /\ serverTypes \in SUBSET {"consumer", "worker"}
    /\ KafkaInit /\ JobsInit

\* A signal after the start; one before it ends the process, like a crash.
Shutdown ==
    /\ stage = "up"
    /\ stage' = "closeJobs"
    /\ UNCHANGED <<at, serverTypes, kafkaVars, jobVars>>

\* The process ends: by a boot that throws, an exit that is forced, having nothing left to do
\* when all is closed, or otherwise.
Crash == stage # "gone" /\ KafkaGone /\ JobsGone /\ UNCHANGED serverTypes

\* Somebody starts it again.
Restart ==
    /\ stage = "gone"
    /\ stage' = "registerKafka" /\ at' = 1
    /\ UNCHANGED <<serverTypes, kafkaVars, jobVars>>

Next ==
    \/ KafkaNext /\ UNCHANGED <<serverTypes, jobVars>>
    \/ JobsNext /\ UNCHANGED <<serverTypes, kafkaVars>>
    \/ Shutdown \/ Crash \/ Restart

Spec == Init /\ [][Next]_vars

\* While the process is up, members read and commit, handlers come to an end wherever they
\* run, and Bull's timers fire; clients, operators, other workers, rebalances and faults owe nothing.
Read == \E i \in Ids : (Join(i) \/ Deliver(i) \/ HandlerEnds(i) \/ Commit(i)) /\ UNCHANGED <<serverTypes, jobVars>>
Work ==
    \E j \in Jobs :
        /\ \/ QueueOf[j] \in processing /\ (Take("here", j) \/ Due(j) \/ Stall(j))
           \/ \E w \in Places : Succeed(w, j) \/ Throw(w, j)
           \/ Expire(j) /\ running[lock[j]][j] = 0
        /\ UNCHANGED <<serverTypes, kafkaVars>>

FairSpec == Spec /\ WF_vars(Read) /\ WF_vars(Work)

-----------------------------------------------------------------------------
\* Both halves of the process have their types.
TypeOK ==
    /\ stage \in Stages /\ at \in Nat \ {0} /\ serverTypes \subseteq {"consumer", "worker"}
    /\ KafkaTypeOK /\ JobsTypeOK

\* A handler can send while it runs: in a process with Kafka, no message and no job is handled
\* before the producer is connected, or from the moment it may be disconnected, whatever is
\* still running when the process is told to stop; but a consumer whose own disconnect failed,
\* and a queue whose own close failed, may work on behind it, for those errors are only logged
\* (KafkaProvider.boot and close, shutdown, JobsProvider.close, their order in the Kernel).
Disconnectable == stage = "closeKafka" /\ Settled
WithoutProducer == Allows("consumer") /\ (~producer \/ Disconnectable)
HandlersHaveProducer ==
    WithoutProducer =>
        /\ \A i \in Ids : member[i] = "busy" => i \in stuck
        /\ \A j \in Jobs : running["here"][j] > 0 => QueueOf[j] \in unclosed

\* The hooks' loops stay within their lists, and behind boot the producer is connected.
PlacesInRange ==
    /\ stage = "registerKafka" => at \in 1 .. Len(Listeners) /\ (~Allows("consumer") => at = 1)
    /\ stage = "registerJobs" => at \in 1 .. Len(Queues)
ProducerConnected ==
    Allows("consumer") /\ stage \in {"bootJobs", "up", "closeJobs", "closeKafka"} => producer

\* The inductive invariant.
IInv ==
    /\ TypeOK /\ PlacesInRange /\ ProducerConnected
    /\ OffsetsCoverHandling /\ OwnersHandled /\ IdleOwn /\ OffsetsWritten /\ SkippedBefore /\ ReadersRegistered
    /\ OverlapsFollowStalls /\ AttemptsLeft /\ LockedActive
    /\ HandlersProcessed /\ ProcessingListed /\ ProcessingUp
=============================================================================
