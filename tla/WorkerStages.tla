---------------------------- MODULE WorkerStages ----------------------------
(* Where a worker process is: the providers' hooks, one after the other. *)

Stages == {"registerKafka", "registerJobs", "bootKafka", "bootJobs", "up", "closeJobs", "closeKafka", "closed", "gone"}

VARIABLES
    stage,   \* the hook that runs; "up" between boot and close, "closed" behind both, "gone" without a process
    at,      \* place in its loop over files, consumers or queues
    serverTypes   \* SERVER_TYPE: what this process is to be

\* allowConsumerServer, allowWorkerServer. "consumer" stands for a Kafka that is enabled and
\* has brokers, too.
Allows(type) == type \in serverTypes
=============================================================================
