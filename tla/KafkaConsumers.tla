--------------------------- MODULE KafkaConsumers ---------------------------
(***************************************************************************)
(* The Kafka half of a worker process: KafkaProvider loads the listener    *)
(* classes, connects the producer and has KafkaConsumerRunner start one    *)
(* consumer per listener; on shutdown it disconnects them.  Brokers and    *)
(* kafkajs are external: a group's committed offset survives the process,  *)
(* a member that owns a partition reads it in order from there, commits    *)
(* after eachMessage resolves, and a rebalance may take the partition from *)
(* a member at any time.  A topic has one partition; Workers composes this *)
(* module with JobQueue and gives both their process.                      *)
(***************************************************************************)
EXTENDS Naturals, Sequences, WorkerStages

CONSTANTS
    Listeners,          \* the @KafkaListener options, in the order the files are loaded
    BrokenListeners,    \* names of those whose file throws when it is imported
    EnabledConsumers,   \* KAFKA_ENABLED_CONSUMERS
    EnvGroupId,         \* KAFKA_CONSUMER_GROUP_ID, or None
    EnvFromBeginning,   \* KAFKA_CONSUMER_FROM_BEGINNING
    MaxLog,             \* bound: messages per topic
    MaxMoves,           \* bound: rebalances
    None

Ids == DOMAIN Listeners

Options == [name : STRING, topic : STRING, groupId : STRING \cup {None}, fromBeginning : BOOLEAN \cup {None}]
ASSUME ListenersAssumption == Listeners \in Seq(Options) /\ Listeners # <<>>
ASSUME NoneAssumption == None \notin Nat
ASSUME KafkaBounds == MaxLog \in Nat /\ MaxMoves \in Nat

\* `${clientId}-${topic}` is told apart by its topic only.
GroupId(i) ==
    IF Listeners[i].groupId # None THEN Listeners[i].groupId
    ELSE IF EnvGroupId # None THEN EnvGroupId ELSE Listeners[i].topic

FromBeginning(i) ==
    IF Listeners[i].fromBeginning # None THEN Listeners[i].fromBeginning ELSE EnvFromBeginning

\* What a member reads: the partition of its topic, on behalf of its group.
Feed(i)  == [group |-> GroupId(i), topic |-> Listeners[i].topic]
Feeds    == {Feed(i) : i \in Ids}
Topics   == {Listeners[i].topic : i \in Ids}
Offsets  == 0 .. MaxLog - 1

VARIABLES
    registry,     \* kafkaConsumerDefinitions: the listeners whose file was loaded
    consumers,    \* KafkaConsumerRunner.consumers
    stuck,        \* those whose disconnect failed
    producer,     \* the producer is connected
    member,       \* each consumer: "off", "joined", "idle" (has the partition), "busy" or "dead"
    position,     \* the next offset it reads
    resolved,     \* members with a resolved offset to commit
    owner,        \* the member a group gave the partition to, or None
    committed,    \* the group's committed offset, or None
    log,          \* how many messages a topic has
    moves,        \* rebalances so far
    \* History, read by the properties only:
    ended,        \* offsets a handler of the group was called with and came back from
    skipped       \* offsets the group started behind, when it last did so without a committed offset

broker  == <<owner, committed, log, moves>>
readers == <<member, position, resolved>>
kafkaHistory == <<ended, skipped>>
kafkaVars == <<registry, consumers, stuck, producer, readers, broker, kafkaHistory>>

KafkaInit ==
    /\ registry = <<>> /\ consumers = {} /\ stuck = {} /\ producer = FALSE
    /\ member = [i \in Ids |-> "off"] /\ position = [i \in Ids |-> 0] /\ resolved = {}
    /\ owner = [f \in Feeds |-> None] /\ committed = [f \in Feeds |-> None]
    /\ log = [t \in Topics |-> 0] /\ moves = 0
    /\ ended = [f \in Feeds |-> {}] /\ skipped = [f \in Feeds |-> {}]

-----------------------------------------------------------------------------
(* register, boot *)

\* loadModulesFromPatterns: a file that throws is only logged, and the process goes on
\* without its listener.
Loads(i) == Listeners[i].name \notin BrokenListeners

\* @KafkaListener, evaluated with the file.
Listen(i) == registry' = Append(registry, i)

LoadListener ==
    /\ stage = "registerKafka" /\ Allows("consumer")
    /\ IF Loads(at) THEN Listen(at) ELSE UNCHANGED registry
    /\ IF at < Len(Listeners) THEN at' = at + 1 /\ UNCHANGED stage ELSE at' = 1 /\ stage' = "registerJobs"
    /\ UNCHANGED <<consumers, stuck, producer, readers, broker, kafkaHistory>>

\* register, boot and close return at once.
KafkaDisabled ==
    /\ ~Allows("consumer")
    /\ \/ stage = "registerKafka" /\ stage' = "registerJobs"
       \/ stage = "bootKafka" /\ stage' = "bootJobs"
       \/ stage = "closeKafka" /\ stage' = "closed"
    /\ UNCHANGED <<at, kafkaVars>>

Enabled(i) == EnabledConsumers = {} \/ Listeners[i].name \in EnabledConsumers

ConnectProducer ==
    /\ stage = "bootKafka" /\ Allows("consumer") /\ ~producer
    /\ producer' = TRUE
    /\ UNCHANGED <<stage, at, registry, consumers, stuck, readers, broker, kafkaHistory>>

\* connect and subscribe are awaited; run is not, so the member joins behind boot's back.
\* A listener that is not enabled is passed over.
RegisterConsumer ==
    /\ stage = "bootKafka" /\ producer /\ at <= Len(registry)
    /\ LET i == registry[at]
       IN IF Enabled(i)
          THEN member' = [member EXCEPT ![i] = "joined"] /\ consumers' = consumers \cup {i}
          ELSE UNCHANGED <<member, consumers>>
    /\ at' = at + 1
    /\ UNCHANGED <<stage, registry, stuck, producer, position, resolved, broker, kafkaHistory>>

KafkaBooted ==
    /\ stage = "bootKafka" /\ producer /\ at > Len(registry)
    /\ stage' = "bootJobs" /\ at' = 1
    /\ UNCHANGED kafkaVars

-----------------------------------------------------------------------------
(* The run loop of a consumer, and its group *)

\* POST /kafka-demo/produce, or a producer elsewhere: the broker acknowledges a message.
Produce(t) ==
    /\ log[t] < MaxLog
    /\ log' = [log EXCEPT ![t] = @ + 1]
    /\ UNCHANGED <<stage, at, registry, consumers, stuck, producer, readers, owner, committed, moves, kafkaHistory>>

\* The group gives the partition to a member, which reads on from the committed offset; a
\* group without one starts at the first offset or behind the last, as subscribe asked.
Join(i) ==
    LET f == Feed(i)
        end == log[Listeners[i].topic]
        start == IF committed[f] # None THEN committed[f] ELSE IF FromBeginning(i) THEN 0 ELSE end
    IN /\ member[i] = "joined" /\ owner[f] = None
       /\ member' = [member EXCEPT ![i] = "idle"] /\ owner' = [owner EXCEPT ![f] = i]
       /\ position' = [position EXCEPT ![i] = start] /\ resolved' = resolved \ {i}
       /\ skipped' = IF committed[f] = None THEN [skipped EXCEPT ![f] = {m \in Offsets : m < start}]
                     ELSE skipped
       /\ UNCHANGED <<stage, at, registry, consumers, stuck, producer, committed, log, moves, ended>>

\* disconnect stops the loop before it waits for the handler, unless it fails.
HasMessage(i) ==
    /\ member[i] = "idle" /\ position[i] < log[Listeners[i].topic]
    /\ stage = "closeKafka" => i \in stuck

\* Mutant of Deliver: handler.handle is not awaited, so its offset is resolved at once.
DeliverUnawaited(i) ==
    /\ HasMessage(i)
    /\ position' = [position EXCEPT ![i] = @ + 1] /\ resolved' = resolved \cup {i}
    /\ UNCHANGED <<stage, at, registry, consumers, stuck, producer, member, broker, kafkaHistory>>

\* eachMessage parses the value and calls the handler.
Deliver(i) ==
    /\ HasMessage(i)
    /\ member' = [member EXCEPT ![i] = "busy"]
    /\ UNCHANGED <<stage, at, registry, consumers, stuck, producer, position, resolved, broker, kafkaHistory>>

\* A member whose partition was taken goes on when its handler is back, without committing.
Moved(i) == owner[Feed(i)] # i

\* Mutant of HandlerEnds: a throw is not caught, and kafkajs fetches the message again.
HandlerEndsUncaught(i) ==
    /\ member[i] = "busy"
    /\ member' = [member EXCEPT ![i] = IF Moved(i) THEN "joined" ELSE "idle"]
    /\ \/ /\ ended' = [ended EXCEPT ![Feed(i)] = @ \cup {position[i]}]
          /\ IF Moved(i) THEN UNCHANGED <<position, resolved>>
             ELSE position' = [position EXCEPT ![i] = @ + 1] /\ resolved' = resolved \cup {i}
       \/ UNCHANGED <<position, resolved, ended>>
    /\ UNCHANGED <<stage, at, registry, consumers, stuck, producer, broker, skipped>>

\* handle returned or threw: the error is only logged, and the offset is resolved either way.
HandlerEnds(i) ==
    /\ member[i] = "busy"
    /\ member' = [member EXCEPT ![i] = IF Moved(i) THEN "joined" ELSE "idle"]
    /\ ended' = [ended EXCEPT ![Feed(i)] = @ \cup {position[i]}]
    /\ IF Moved(i) THEN UNCHANGED <<position, resolved>>
       ELSE position' = [position EXCEPT ![i] = @ + 1] /\ resolved' = resolved \cup {i}
    /\ UNCHANGED <<stage, at, registry, consumers, stuck, producer, broker, skipped>>

\* kafkajs commits what was resolved between two messages; only the owner's commit is accepted.
Commit(i) ==
    /\ member[i] = "idle" /\ i \in resolved
    /\ committed' = [committed EXCEPT ![Feed(i)] = position[i]] /\ resolved' = resolved \ {i}
    /\ UNCHANGED <<stage, at, registry, consumers, stuck, producer, member, position, owner, log, moves, kafkaHistory>>

\* The group moves the partition: a session timed out, or a member came or went.
Rebalance(f) ==
    /\ moves < MaxMoves /\ owner[f] # None
    /\ moves' = moves + 1
    /\ owner' = [owner EXCEPT ![f] = None]
    /\ member' = [i \in Ids |-> IF i = owner[f] /\ member[i] = "idle" THEN "joined" ELSE member[i]]
    /\ resolved' = resolved \ {owner[f]}
    /\ UNCHANGED <<stage, at, registry, consumers, stuck, producer, position, committed, log, kafkaHistory>>

Release(i) == owner' = [f \in Feeds |-> IF owner[f] = i THEN None ELSE owner[f]]

\* run rejects: the error is logged, the consumer stays in the list and reads no more.
RunDies(i) ==
    /\ member[i] \in {"joined", "idle"}
    /\ member' = [member EXCEPT ![i] = "dead"] /\ resolved' = resolved \ {i} /\ Release(i)
    /\ UNCHANGED <<stage, at, registry, consumers, stuck, producer, position, committed, log, moves, kafkaHistory>>

-----------------------------------------------------------------------------
(* close, crash *)

\* shutdown disconnects all consumers at once; each disconnect waits for its handler.
Disconnect(i) ==
    /\ stage = "closeKafka" /\ i \in consumers \ stuck /\ member[i] \notin {"busy", "off"}
    /\ member' = [member EXCEPT ![i] = "off"] /\ resolved' = resolved \ {i} /\ Release(i)
    /\ UNCHANGED <<stage, at, registry, consumers, stuck, producer, position, committed, log, moves, kafkaHistory>>

\* A disconnect rejects: the error is logged, and the member may go on. A shutdown that
\* rejects as a whole is the same for all of them.
DisconnectFails(i) ==
    /\ stage = "closeKafka" /\ i \in consumers \ stuck /\ member[i] # "off"
    /\ stuck' = stuck \cup {i}
    /\ UNCHANGED <<stage, at, registry, consumers, producer, readers, broker, kafkaHistory>>

\* The Promise.all of shutdown settles when every disconnect has returned or failed.
Settled == \A i \in consumers : member[i] = "off" \/ i \in stuck

\* Mutant of DisconnectProducer: shutdown is not awaited.
DisconnectProducerFirst ==
    /\ stage = "closeKafka" /\ Allows("consumer")
    /\ consumers' = {} /\ producer' = FALSE /\ stage' = "closed"
    /\ UNCHANGED <<at, registry, stuck, readers, broker, kafkaHistory>>

\* Behind shutdown, whatever came of it, the producer is disconnected, or its disconnect
\* rejects; the process goes on to the providers that are closed after this one.
DisconnectProducer ==
    /\ stage = "closeKafka" /\ Allows("consumer") /\ Settled
    /\ consumers' = {} /\ producer' \in BOOLEAN /\ stage' = "closed"
    /\ UNCHANGED <<at, registry, stuck, readers, broker, kafkaHistory>>

\* The process is gone, with its consumers, its registry and every handler.
KafkaGone ==
    /\ stage' = "gone" /\ at' = 1
    /\ registry' = <<>> /\ consumers' = {} /\ stuck' = {} /\ producer' = FALSE /\ resolved' = {}
    /\ member' = [i \in Ids |-> "off"] /\ position' = [i \in Ids |-> 0]
    /\ owner' = [f \in Feeds |-> None]
    /\ UNCHANGED <<committed, log, moves, kafkaHistory>>

KafkaNext ==
    \/ LoadListener \/ KafkaDisabled \/ ConnectProducer \/ RegisterConsumer \/ KafkaBooted \/ DisconnectProducer
    \/ \E t \in Topics : Produce(t)
    \/ \E f \in Feeds : Rebalance(f)
    \/ \E i \in Ids :
         Join(i) \/ Deliver(i) \/ HandlerEnds(i) \/ Commit(i) \/ RunDies(i) \/ Disconnect(i) \/ DisconnectFails(i)

-----------------------------------------------------------------------------
KafkaTypeOK ==
    /\ registry \in Seq(Ids) /\ consumers \subseteq Ids /\ stuck \subseteq Ids /\ producer \in BOOLEAN
    /\ member \in [Ids -> {"off", "joined", "idle", "busy", "dead"}]
    /\ position \in [Ids -> 0 .. MaxLog] /\ resolved \subseteq Ids
    /\ owner \in [Feeds -> Ids \cup {None}] /\ committed \in [Feeds -> (0 .. MaxLog) \cup {None}]
    /\ log \in [Topics -> 0 .. MaxLog] /\ moves \in 0 .. MaxMoves
    /\ ended \in [Feeds -> SUBSET Offsets] /\ skipped \in [Feeds -> SUBSET Offsets]

\* No message is lost between the broker and a handler, whatever crashes, rebalances and
\* shutdowns come between: what a group has committed, one of its handlers was called with
\* and came back from, unless the group began behind it (registerConsumer's eachMessage).
Handled(f, offset) == \A m \in Offsets : m < offset => m \in ended[f] \cup skipped[f]
OffsetsCoverHandling == \A f \in Feeds : committed[f] # None => Handled(f, committed[f])

\* Why it is so: the member that has the partition, and only that one reads and commits, has
\* handled everything before its position; and nobody is ahead of the log.
OwnersHandled == \A i \in Ids : owner[Feed(i)] = i => Handled(Feed(i), position[i])
IdleOwn == \A i \in Ids : member[i] = "idle" => owner[Feed(i)] = i
OffsetsWritten ==
    /\ \A i \in Ids : position[i] <= log[Listeners[i].topic]
    /\ \A i \in Ids : member[i] = "busy" => position[i] < log[Listeners[i].topic]
    /\ \A f \in Feeds : committed[f] # None => committed[f] <= log[f.topic]

\* What a group began behind lies before its committed offset: once it has committed, no
\* message from there on is passed over.
AllBefore(f, offset) == \A m \in skipped[f] : m < offset
SkippedBefore ==
    /\ \A f \in Feeds : committed[f] # None => AllBefore(f, committed[f])
    /\ \A i \in Ids : owner[Feed(i)] = i => AllBefore(Feed(i), position[i])

\* Who reads was registered, behind the producer's connection, or its disconnect failed.
ReadersRegistered == \A i \in Ids : member[i] # "off" => (i \in consumers /\ producer) \/ i \in stuck

\* No consumer that still runs is left to hear the feed.
Deaf(f) == \A i \in consumers : Feed(i) = f => member[i] = "dead"

\* As long as the process stays up, every message reaches a handler of every group with a
\* running consumer, although handlers throw and partitions move: one bad message does not
\* hold up the ones behind it (eachMessage's catch). The exception is a group that has not
\* committed yet and does not read from the beginning: each time the partition moves, it
\* begins again at the end of the log, and what was written meanwhile it never sees
\* (subscribe's fromBeginning); behind its first commit nothing is excepted (SkippedBefore).
MessagesReachListeners ==
    \A f \in Feeds, m \in Offsets :
        (stage = "up" /\ m < log[f.topic])
            ~> (m \in ended[f] \cup skipped[f] \/ stage # "up" \/ Deaf(f))
=============================================================================
