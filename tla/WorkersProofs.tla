--------------------------- MODULE WorkersProofs ---------------------------
(***************************************************************************)
(* Proofs about Workers, for any listeners, queues and jobs: what a group  *)
(* has committed was handled, a job has no more handlers than it lost      *)
(* locks, and none works without a connected producer, but for what did    *)
(* not stop when told to.  Each half of the process keeps an invariant of  *)
(* its own, which the steps of the other half cannot disturb; the stages   *)
(* tie the two together.                                                   *)
(***************************************************************************)
EXTENDS Workers, SequenceTheorems, TLAPS

KafkaInv ==
    /\ KafkaTypeOK /\ OffsetsCoverHandling /\ OwnersHandled /\ IdleOwn /\ OffsetsWritten
    /\ SkippedBefore /\ ReadersRegistered

JobsInv ==
    /\ JobsTypeOK /\ OverlapsFollowStalls /\ AttemptsLeft /\ LockedActive /\ HandlersProcessed /\ ProcessingListed

StageInv ==
    /\ stage \in Stages /\ at \in Nat \ {0} /\ serverTypes \subseteq {"consumer", "worker"}
    /\ PlacesInRange /\ ProducerConnected /\ ProcessingUp

\* The inductive invariant is these three.
LEMMA Halves == IInv <=> KafkaInv /\ JobsInv /\ StageInv
BY DEF IInv, TypeOK, KafkaInv, JobsInv, StageInv

-----------------------------------------------------------------------------
(* The constants. *)

\* Listeners are numbered, and read a feed of a topic that exists.
LEMMA Feeding ==
    /\ Ids = 1 .. Len(Listeners) /\ Len(Listeners) \in Nat \ {0} /\ None \notin Ids
    /\ \A i \in Ids : Feed(i) \in Feeds /\ Feed(i).topic = Listeners[i].topic /\ Listeners[i].topic \in Topics
    /\ \A f \in Feeds : f.topic \in Topics
<1>1. Ids = 1 .. Len(Listeners) /\ Len(Listeners) \in Nat \ {0}
  <2> DEFINE S == Options
  <2>1. Listeners \in Seq(S) /\ Listeners # <<>> BY ListenersAssumption
  <2> HIDE DEF S
  <2> QED BY <2>1 DEF Ids
<1>2. None \notin Ids BY <1>1, NoneAssumption
<1>3. \A i \in Ids : Feed(i) \in Feeds /\ Feed(i).topic = Listeners[i].topic /\ Listeners[i].topic \in Topics
  BY DEF Feed, Feeds, Topics
<1>4. \A f \in Feeds : f.topic \in Topics BY <1>3 DEF Feeds
<1> QED BY <1>1, <1>2, <1>3, <1>4

\* Queues are numbered, and none of them is Nothing.
LEMMA Naming ==
    /\ DOMAIN Queues = 1 .. Len(Queues) /\ Len(Queues) \in Nat \ {0}
    /\ \A i \in 1 .. Len(Queues) : Queues[i] \in QueueNames
    /\ Nothing \notin QueueNames /\ Nothing \notin Places
<1>1. DOMAIN Queues = 1 .. Len(Queues) /\ Len(Queues) \in Nat \ {0} /\ \A i \in 1 .. Len(Queues) : Queues[i] \in STRING
  <2> DEFINE S == STRING
  <2>1. Queues \in Seq(S) /\ Queues # <<>> BY QueuesAssumption
  <2> HIDE DEF S
  <2>2. DOMAIN Queues = 1 .. Len(Queues) /\ Len(Queues) \in Nat \ {0} /\ \A i \in 1 .. Len(Queues) : Queues[i] \in S
    BY <2>1
  <2> QED BY <2>2 DEF S
<1>2. Nothing \notin STRING BY QueuesAssumption
<1> QED BY <1>1, <1>2, PlacesAssumption DEF QueueNames

-----------------------------------------------------------------------------
(* The Kafka half. *)

\* A step that changes nothing of it keeps its invariant.
LEMMA KafkaKept ==
    ASSUME KafkaInv, UNCHANGED kafkaVars
    PROVE  KafkaInv'
BY DEF KafkaInv, kafkaVars, readers, broker, kafkaHistory, KafkaTypeOK, OffsetsCoverHandling, Handled,
       OwnersHandled, IdleOwn, OffsetsWritten, SkippedBefore, AllBefore, ReadersRegistered

\* The files are loaded, the producer and the consumers connected.
LEMMA KafkaBoots ==
    ASSUME KafkaInv, StageInv, LoadListener \/ KafkaDisabled \/ ConnectProducer \/ RegisterConsumer \/ KafkaBooted
    PROVE  KafkaInv'
<1> USE DEF KafkaInv
<1>1. CASE LoadListener
  <2>1. UNCHANGED <<consumers, stuck, producer, readers, broker, kafkaHistory>> BY <1>1 DEF LoadListener
  <2>2. registry' \in Seq(Ids)
    <3>1. at \in Ids BY <1>1, Feeding DEF LoadListener, StageInv, PlacesInRange
    <3>2. registry' = Append(registry, at) \/ registry' = registry BY <1>1 DEF LoadListener, Listen
    <3>3. registry \in Seq(Ids) BY DEF KafkaTypeOK
    <3>4. Append(registry, at) \in Seq(Ids) BY <3>1, <3>3, AppendProperties
    <3> QED BY <3>2, <3>3, <3>4
  <2> QED
    BY <2>1, <2>2 DEF readers, broker, kafkaHistory, KafkaTypeOK, OffsetsCoverHandling, Handled,
       OwnersHandled, IdleOwn, OffsetsWritten, SkippedBefore, AllBefore, ReadersRegistered
<1>2. CASE KafkaDisabled BY <1>2, KafkaKept DEF KafkaDisabled
<1>3. CASE ConnectProducer
  BY <1>3 DEF ConnectProducer, readers, broker, kafkaHistory, KafkaTypeOK, OffsetsCoverHandling, Handled,
       OwnersHandled, IdleOwn, OffsetsWritten, SkippedBefore, AllBefore, ReadersRegistered
<1>4. CASE RegisterConsumer
  <2>1. UNCHANGED <<registry, stuck, producer, position, resolved, broker, kafkaHistory>> /\ producer BY <1>4 DEF RegisterConsumer
  <2>2. registry[at] \in Ids BY <1>4 DEF RegisterConsumer, StageInv, KafkaTypeOK
  <2>3. /\ member' \in [Ids -> {"off", "joined", "idle", "busy", "dead"}]
        /\ consumers \subseteq consumers' /\ consumers' \subseteq Ids
        /\ \A i \in Ids : member'[i] = member[i] \/ (member'[i] = "joined" /\ i \in consumers')
    <3>1. CASE Enabled(registry[at])
      <4>1. member' = [member EXCEPT ![registry[at]] = "joined"] /\ consumers' = consumers \cup {registry[at]}
        BY <1>4, <3>1 DEF RegisterConsumer
      <4> QED BY <4>1, <2>2 DEF KafkaTypeOK
    <3>2. CASE ~Enabled(registry[at])
      <4>1. UNCHANGED <<member, consumers>> BY <1>4, <3>2 DEF RegisterConsumer
      <4> QED BY <4>1 DEF KafkaTypeOK
    <3> QED BY <3>1, <3>2
  <2>4. KafkaTypeOK' BY <2>1, <2>3 DEF broker, kafkaHistory, KafkaTypeOK
  <2>5. (OffsetsCoverHandling /\ OwnersHandled /\ SkippedBefore)'
    BY <2>1 DEF broker, kafkaHistory, OffsetsCoverHandling, Handled, OwnersHandled, SkippedBefore, AllBefore
  <2>6. (IdleOwn /\ OffsetsWritten /\ ReadersRegistered)'
    BY <2>1, <2>3 DEF broker, IdleOwn, OffsetsWritten, ReadersRegistered
  <2> QED BY <2>4, <2>5, <2>6
<1>5. CASE KafkaBooted BY <1>5, KafkaKept DEF KafkaBooted
<1> QED BY <1>1, <1>2, <1>3, <1>4, <1>5

\* A message is written to the log.
LEMMA KafkaProduces ==
    ASSUME KafkaInv, NEW t \in Topics, Produce(t)
    PROVE  KafkaInv'
<1> USE DEF KafkaInv
<1>1. /\ UNCHANGED <<registry, consumers, stuck, producer, readers, owner, committed, moves, kafkaHistory>>
      /\ log' = [log EXCEPT ![t] = @ + 1] /\ log[t] < MaxLog
  BY DEF Produce
<1>2. log' \in [Topics -> 0 .. MaxLog] /\ \A u \in Topics : log'[u] >= log[u]
  BY <1>1, KafkaBounds DEF KafkaTypeOK
<1>3. KafkaTypeOK' BY <1>1, <1>2 DEF readers, kafkaHistory, KafkaTypeOK
<1>4. (OffsetsCoverHandling /\ OwnersHandled /\ IdleOwn /\ SkippedBefore /\ ReadersRegistered)'
  BY <1>1 DEF readers, kafkaHistory, OffsetsCoverHandling, Handled, OwnersHandled, IdleOwn, SkippedBefore, AllBefore,
       ReadersRegistered
<1>5. OffsetsWritten'
  <2>1. UNCHANGED <<member, position, committed>> BY <1>1 DEF readers
  <2>2. \A u \in Topics : log[u] \in Nat /\ log'[u] \in Nat BY <1>2, KafkaBounds DEF KafkaTypeOK
  <2>3. \A i \in Ids : position[i] \in Nat BY KafkaBounds DEF KafkaTypeOK
  <2>4. \A f \in Feeds : committed[f] # None => committed[f] \in Nat BY KafkaBounds DEF KafkaTypeOK
  <2>5. \A i \in Ids : Listeners[i].topic \in Topics BY Feeding
  <2>6. \A i \in Ids : /\ position'[i] <= log'[Listeners[i].topic]
                       /\ member'[i] = "busy" => position'[i] < log'[Listeners[i].topic]
    BY <1>2, <2>1, <2>2, <2>3, <2>5 DEF OffsetsWritten
  <2>7. \A f \in Feeds : committed'[f] # None => committed'[f] <= log'[f.topic]
    BY <1>2, <2>1, <2>2, <2>4, Feeding DEF OffsetsWritten
  <2> QED BY <2>6, <2>7 DEF OffsetsWritten
<1> QED BY <1>3, <1>4, <1>5

\* A member gets the partition, and reads on from what was handled.
LEMMA KafkaJoins ==
    ASSUME KafkaInv, NEW i \in Ids, Join(i)
    PROVE  KafkaInv'
<1> USE DEF KafkaInv
<1> DEFINE f == Feed(i)
           start == IF committed[f] # None THEN committed[f] ELSE IF FromBeginning(i) THEN 0 ELSE log[Listeners[i].topic]
<1>1. /\ member[i] = "joined" /\ owner[f] = None
      /\ member' = [member EXCEPT ![i] = "idle"] /\ owner' = [owner EXCEPT ![f] = i]
      /\ position' = [position EXCEPT ![i] = start] /\ resolved' = resolved \ {i}
      /\ skipped' = IF committed[f] = None THEN [skipped EXCEPT ![f] = {m \in Offsets : m < start}] ELSE skipped
      /\ UNCHANGED <<registry, consumers, stuck, producer, committed, log, moves, ended>>
  BY DEF Join
<1>2. f \in Feeds /\ f.topic = Listeners[i].topic /\ Listeners[i].topic \in Topics BY Feeding
<1>3. start \in 0 .. MaxLog /\ start <= log[Listeners[i].topic]
  <2>1. log[Listeners[i].topic] \in 0 .. MaxLog BY <1>2 DEF KafkaTypeOK
  <2>2. committed[f] # None => committed[f] \in 0 .. MaxLog /\ committed[f] <= log[f.topic]
    BY <1>2 DEF KafkaTypeOK, OffsetsWritten
  <2> QED BY <2>1, <2>2, <1>2, KafkaBounds
<1>4. committed[f] # None => start = committed[f] OBVIOUS
<1> HIDE DEF f, start
<1>5. /\ skipped' \in [Feeds -> SUBSET Offsets]
      /\ \A g \in Feeds : g # f \/ committed[f] # None => skipped'[g] = skipped[g]
      /\ committed[f] = None => skipped'[f] = {m \in Offsets : m < start}
  BY <1>1, <1>2 DEF KafkaTypeOK
<1>6. /\ \A m \in Offsets : m < start => m \in ended[f] \cup skipped'[f]
      /\ \A m \in skipped'[f] : m < start
  <2>1. CASE committed[f] = None BY <2>1, <1>5
  <2>2. CASE committed[f] # None
    BY <2>2, <1>2, <1>4, <1>5 DEF OffsetsCoverHandling, Handled, SkippedBefore, AllBefore
  <2> QED BY <2>1, <2>2
<1>7. KafkaTypeOK'
  BY <1>1, <1>2, <1>3, <1>5 DEF KafkaTypeOK
<1>8. OffsetsCoverHandling' /\ \A g \in Feeds : committed'[g] # None => AllBefore(g, committed[g])'
  BY <1>1, <1>5 DEF OffsetsCoverHandling, Handled, SkippedBefore, AllBefore
<1>9. /\ OwnersHandled'
      /\ \A j \in Ids : owner'[Feed(j)] = j => AllBefore(Feed(j), position[j])'
  <2> SUFFICES ASSUME NEW j \in Ids, owner'[Feed(j)] = j
               PROVE  /\ \A m \in Offsets : m < position'[j] => m \in ended'[Feed(j)] \cup skipped'[Feed(j)]
                      /\ \A m \in skipped'[Feed(j)] : m < position'[j]
    BY DEF OwnersHandled, Handled, AllBefore
  <2>1. CASE j = i
    <3>1. position'[j] = start BY <2>1, <1>1 DEF KafkaTypeOK
    <3> QED BY <2>1, <3>1, <1>1, <1>6 DEF f
  <2>2. CASE j # i
    <3>1. position'[j] = position[j] BY <2>2, <1>1 DEF KafkaTypeOK
    <3>2. Feed(j) \in Feeds BY Feeding
    <3>3. owner[Feed(j)] = j /\ Feed(j) # f BY <2>2, <3>2, <1>1, <1>2 DEF KafkaTypeOK
    <3> QED BY <3>1, <3>2, <3>3, <1>1, <1>5 DEF OwnersHandled, Handled, SkippedBefore, AllBefore
  <2> QED BY <2>1, <2>2
<1>10. IdleOwn'
  <2> SUFFICES ASSUME NEW j \in Ids, member'[j] = "idle" PROVE owner'[Feed(j)] = j BY DEF IdleOwn
  <2>1. Feed(j) \in Feeds BY Feeding
  <2>2. CASE j = i BY <2>2, <1>1, <1>2 DEF KafkaTypeOK, f
  <2>3. CASE j # i
    <3>1. owner[Feed(j)] = j BY <2>3, <1>1 DEF KafkaTypeOK, IdleOwn
    <3>2. Feed(j) # f BY <3>1, <1>1, Feeding
    <3> QED BY <2>1, <3>1, <3>2, <1>1 DEF KafkaTypeOK
  <2> QED BY <2>2, <2>3
<1>11. OffsetsWritten'
  BY <1>1, <1>2, <1>3 DEF KafkaTypeOK, OffsetsWritten
<1>12. ReadersRegistered'
  BY <1>1 DEF KafkaTypeOK, ReadersRegistered
<1>13. SkippedBefore' BY <1>8, <1>9 DEF SkippedBefore
<1> QED BY <1>7, <1>8, <1>9, <1>10, <1>11, <1>12, <1>13

\* A message is handed to its handler.
LEMMA KafkaDelivers ==
    ASSUME KafkaInv, NEW i \in Ids, Deliver(i)
    PROVE  KafkaInv'
<1> USE DEF KafkaInv
<1>1. /\ member[i] = "idle" /\ position[i] < log[Listeners[i].topic]
      /\ member' = [member EXCEPT ![i] = "busy"]
      /\ UNCHANGED <<registry, consumers, stuck, producer, position, resolved, broker, kafkaHistory>>
  BY DEF Deliver, HasMessage
<1>2. (KafkaTypeOK /\ OffsetsCoverHandling /\ OwnersHandled /\ SkippedBefore)'
  BY <1>1 DEF broker, kafkaHistory, KafkaTypeOK, OffsetsCoverHandling, Handled, OwnersHandled, SkippedBefore, AllBefore
<1>3. (IdleOwn /\ OffsetsWritten /\ ReadersRegistered)'
  BY <1>1 DEF broker, KafkaTypeOK, IdleOwn, OffsetsWritten, ReadersRegistered
<1> QED BY <1>2, <1>3

\* A handler is back, and its member goes on to the next message unless the partition moved.
LEMMA KafkaHandles ==
    ASSUME KafkaInv, NEW i \in Ids, HandlerEnds(i)
    PROVE  KafkaInv'
<1> USE DEF KafkaInv
<1> DEFINE f == Feed(i)
<1>1. /\ member[i] = "busy"
      /\ member' = [member EXCEPT ![i] = IF Moved(i) THEN "joined" ELSE "idle"]
      /\ ended' = [ended EXCEPT ![f] = @ \cup {position[i]}]
      /\ \/ Moved(i) /\ UNCHANGED <<position, resolved>>
         \/ ~Moved(i) /\ position' = [position EXCEPT ![i] = @ + 1] /\ resolved' = resolved \cup {i}
      /\ UNCHANGED <<registry, consumers, stuck, producer, owner, committed, log, moves, skipped>>
  BY DEF HandlerEnds, broker
<1>2. f \in Feeds /\ f.topic = Listeners[i].topic /\ Listeners[i].topic \in Topics BY Feeding
<1>3. Moved(i) <=> owner[f] # i BY DEF Moved
<1> HIDE DEF f
<1>4. /\ position[i] \in 0 .. MaxLog /\ log[Listeners[i].topic] \in 0 .. MaxLog
      /\ position[i] < log[Listeners[i].topic]
  BY <1>1, <1>2 DEF KafkaTypeOK, OffsetsWritten
<1>5. position[i] \in Offsets /\ position[i] + 1 \in 0 .. MaxLog /\ position[i] + 1 <= log[Listeners[i].topic]
  BY <1>4, KafkaBounds DEF Offsets
<1>6. /\ position' \in [Ids -> 0 .. MaxLog] /\ resolved' \subseteq Ids
      /\ \A j \in Ids : position'[j] # position[j] => j = i /\ owner[f] = i /\ position'[i] = position[i] + 1
  BY <1>1, <1>3, <1>5 DEF KafkaTypeOK
<1>7. /\ member' \in [Ids -> {"off", "joined", "idle", "busy", "dead"}]
      /\ member'[i] = "joined" \/ (member'[i] = "idle" /\ owner[f] = i)
      /\ \A j \in Ids : j # i => member'[j] = member[j]
  BY <1>1, <1>3 DEF KafkaTypeOK
<1>8. /\ ended' \in [Feeds -> SUBSET Offsets] /\ position[i] \in ended'[f]
      /\ \A g \in Feeds : ended[g] \subseteq ended'[g]
  BY <1>1, <1>2, <1>5 DEF KafkaTypeOK
<1>9. KafkaTypeOK' BY <1>1, <1>6, <1>7, <1>8 DEF KafkaTypeOK
<1>10. OffsetsCoverHandling' BY <1>1, <1>8 DEF OffsetsCoverHandling, Handled
<1>11. OwnersHandled'
  <2> SUFFICES ASSUME NEW j \in Ids, owner'[Feed(j)] = j, NEW m \in Offsets, m < position'[j]
               PROVE  m \in ended'[Feed(j)] \cup skipped'[Feed(j)]
    BY DEF OwnersHandled, Handled
  <2>1. Feed(j) \in Feeds BY Feeding
  <2>2. CASE position'[j] = position[j]
    BY <2>1, <2>2, <1>1, <1>8 DEF OwnersHandled, Handled
  <2>3. CASE position'[j] # position[j]
    <3>1. j = i /\ position'[i] = position[i] + 1 BY <2>3, <1>6
    <3>2. m < position[i] \/ m = position[i] BY <3>1, <1>4, KafkaBounds DEF Offsets
    <3>3. CASE m < position[i] BY <3>1, <3>3, <2>1, <1>1, <1>8 DEF OwnersHandled, Handled
    <3>4. CASE m = position[i] BY <3>1, <3>4, <1>8 DEF f
    <3> QED BY <3>2, <3>3, <3>4
  <2> QED BY <2>2, <2>3
<1>12. IdleOwn' BY <1>1, <1>7 DEF IdleOwn, f
<1>13. OffsetsWritten'
  <2>1. \A j \in Ids : position'[j] <= log'[Listeners[j].topic] BY <1>1, <1>5, <1>6 DEF OffsetsWritten
  <2>2. \A j \in Ids : member'[j] = "busy" => j # i /\ position'[j] = position[j] /\ member[j] = "busy" BY <1>6, <1>7
  <2> QED BY <2>1, <2>2, <1>1 DEF OffsetsWritten
<1>14. ReadersRegistered' BY <1>1, <1>7 DEF ReadersRegistered
<1>15. SkippedBefore'
  <2>1. \A g \in Feeds : \A m \in skipped[g] : m \in Nat BY KafkaBounds DEF KafkaTypeOK, Offsets
  <2>2. ASSUME NEW j \in Ids, owner[Feed(j)] = j, NEW m \in skipped[Feed(j)] PROVE m < position'[j]
    <3>1. m < position[j] /\ m \in Nat BY <2>1, <2>2, Feeding DEF SkippedBefore, AllBefore
    <3>2. CASE position'[j] = position[j] BY <3>1, <3>2
    <3>3. CASE position'[j] # position[j]
      <4>1. j = i /\ position'[i] = position[i] + 1 /\ position[i] \in Nat BY <3>3, <1>4, <1>6
      <4> QED BY <3>1, <4>1
    <3> QED BY <3>2, <3>3
  <2> QED BY <1>1, <2>2 DEF SkippedBefore, AllBefore
<1> QED BY <1>9, <1>10, <1>11, <1>12, <1>13, <1>14, <1>15

\* The position of the member that has the partition is committed.
LEMMA KafkaCommits ==
    ASSUME KafkaInv, NEW i \in Ids, Commit(i)
    PROVE  KafkaInv'
<1> USE DEF KafkaInv
<1> DEFINE f == Feed(i)
<1>1. /\ member[i] = "idle" /\ resolved' = resolved \ {i}
      /\ committed' = [committed EXCEPT ![f] = position[i]]
      /\ UNCHANGED <<registry, consumers, stuck, producer, member, position, owner, log, moves, kafkaHistory>>
  BY DEF Commit
<1>2. f \in Feeds /\ f.topic = Listeners[i].topic BY Feeding
<1>3. owner[f] = i BY <1>1 DEF IdleOwn
<1>4. Handled(f, position[i]) /\ AllBefore(f, position[i]) BY <1>3 DEF OwnersHandled, SkippedBefore
<1> HIDE DEF f
<1>5. KafkaTypeOK' BY <1>1, <1>2 DEF kafkaHistory, KafkaTypeOK
<1>6. OffsetsCoverHandling' BY <1>1, <1>2, <1>4 DEF kafkaHistory, KafkaTypeOK, OffsetsCoverHandling, Handled
<1>7. (OwnersHandled /\ IdleOwn /\ ReadersRegistered)'
  BY <1>1 DEF kafkaHistory, OwnersHandled, Handled, IdleOwn, ReadersRegistered
<1>8. OffsetsWritten' BY <1>1, <1>2 DEF KafkaTypeOK, OffsetsWritten
<1>9. SkippedBefore' BY <1>1, <1>2, <1>4 DEF kafkaHistory, KafkaTypeOK, SkippedBefore, AllBefore
<1> QED BY <1>5, <1>6, <1>7, <1>8, <1>9

\* Whatever takes partitions and idle members away, and moves no offset, keeps the invariant.
LEMMA KafkaLoses ==
    ASSUME KafkaInv, UNCHANGED <<registry, consumers, stuck, producer, position, committed, log, moves, kafkaHistory>>,
           resolved' \subseteq resolved, owner' \in [Feeds -> Ids \cup {None}],
           member' \in [Ids -> {"off", "joined", "idle", "busy", "dead"}],
           \A f \in Feeds : owner'[f] = owner[f] \/ owner'[f] = None,
           \A i \in Ids : \/ member'[i] = member[i] /\ (member[i] = "idle" => owner'[Feed(i)] = owner[Feed(i)])
                          \/ member[i] # "off" /\ member'[i] \in {"joined", "dead", "off"}
    PROVE  KafkaInv'
<1> USE DEF KafkaInv
<1>1. KafkaTypeOK' BY DEF kafkaHistory, KafkaTypeOK
<1>2. OffsetsCoverHandling' BY DEF kafkaHistory, OffsetsCoverHandling, Handled
<1>3. (OwnersHandled /\ SkippedBefore)'
  <2>1. \A j \in Ids : owner'[Feed(j)] = j => owner[Feed(j)] = j BY Feeding
  <2> QED BY <2>1 DEF kafkaHistory, OwnersHandled, Handled, SkippedBefore, AllBefore
<1>4. (IdleOwn /\ OffsetsWritten /\ ReadersRegistered)' BY DEF IdleOwn, OffsetsWritten, ReadersRegistered
<1> QED BY <1>1, <1>2, <1>3, <1>4

\* What a member that stops gives back is its own.
LEMMA Releasing ==
    ASSUME KafkaInv, NEW i \in Ids, Release(i)
    PROVE  /\ owner' \in [Feeds -> Ids \cup {None}]
           /\ \A f \in Feeds : owner'[f] = owner[f] \/ owner'[f] = None
           /\ \A j \in Ids : j # i /\ member[j] = "idle" => owner'[Feed(j)] = owner[Feed(j)]
<1>1. \A f \in Feeds : owner'[f] = IF owner[f] = i THEN None ELSE owner[f] BY DEF Release
<1>2. \A j \in Ids : member[j] = "idle" => owner[Feed(j)] = j /\ Feed(j) \in Feeds
  BY Feeding DEF KafkaInv, IdleOwn
<1>3. owner' \in [Feeds -> Ids \cup {None}] BY DEF Release, KafkaInv, KafkaTypeOK
<1> QED BY <1>1, <1>2, <1>3

\* The group moves a partition.
LEMMA KafkaRebalances ==
    ASSUME KafkaInv, NEW g \in Feeds, Rebalance(g)
    PROVE  KafkaInv'
<1> USE DEF KafkaInv
<1>1. /\ owner[g] # None /\ owner' = [owner EXCEPT ![g] = None]
      /\ member' = [i \in Ids |-> IF i = owner[g] /\ member[i] = "idle" THEN "joined" ELSE member[i]]
      /\ resolved' = resolved \ {owner[g]} /\ moves < MaxMoves /\ moves' = moves + 1
      /\ UNCHANGED <<registry, consumers, stuck, producer, position, committed, log, kafkaHistory>>
  BY DEF Rebalance
<1>2. owner' \in [Feeds -> Ids \cup {None}] /\ \A f \in Feeds : owner'[f] = IF f = g THEN None ELSE owner[f]
  BY <1>1 DEF KafkaTypeOK
<1>3. member' \in [Ids -> {"off", "joined", "idle", "busy", "dead"}]
  BY <1>1 DEF KafkaTypeOK
<1>4. \A i \in Ids : \/ member'[i] = member[i] /\ (member[i] = "idle" => owner'[Feed(i)] = owner[Feed(i)])
                     \/ member[i] # "off" /\ member'[i] = "joined"
  <2> SUFFICES ASSUME NEW i \in Ids
               PROVE \/ member'[i] = member[i] /\ (member[i] = "idle" => owner'[Feed(i)] = owner[Feed(i)])
                     \/ member[i] # "off" /\ member'[i] = "joined"
    OBVIOUS
  <2>1. member[i] = "idle" => owner[Feed(i)] = i /\ Feed(i) \in Feeds BY Feeding DEF IdleOwn
  <2>2. CASE i = owner[g] /\ member[i] = "idle" BY <2>2, <1>1
  <2>3. CASE ~(i = owner[g] /\ member[i] = "idle")
    <3>1. member'[i] = member[i] BY <2>3, <1>1
    <3> QED BY <3>1, <2>1, <2>3, <1>2
  <2> QED BY <2>2, <2>3
<1>5. moves' \in 0 .. MaxMoves BY <1>1, KafkaBounds DEF KafkaTypeOK
<1>6. KafkaTypeOK' BY <1>1, <1>2, <1>3, <1>5 DEF kafkaHistory, KafkaTypeOK
<1>7. OffsetsCoverHandling' BY <1>1 DEF kafkaHistory, OffsetsCoverHandling, Handled
<1>8. (OwnersHandled /\ SkippedBefore)'
  <2>1. \A j \in Ids : owner'[Feed(j)] = j => owner[Feed(j)] = j BY <1>2, Feeding
  <2> QED BY <1>1, <2>1 DEF kafkaHistory, OwnersHandled, Handled, SkippedBefore, AllBefore
<1>9. (IdleOwn /\ OffsetsWritten /\ ReadersRegistered)'
  BY <1>1, <1>4 DEF IdleOwn, OffsetsWritten, ReadersRegistered
<1> QED BY <1>6, <1>7, <1>8, <1>9

\* A run rejects, or shutdown disconnects a consumer.
LEMMA KafkaStops ==
    ASSUME KafkaInv, NEW i \in Ids, RunDies(i) \/ Disconnect(i)
    PROVE  KafkaInv'
<1>1. PICK last \in {"dead", "off"} :
        /\ member[i] # "off" /\ member' = [member EXCEPT ![i] = last]
        /\ resolved' = resolved \ {i} /\ Release(i)
        /\ UNCHANGED <<registry, consumers, stuck, producer, position, committed, log, moves, kafkaHistory>>
  BY DEF RunDies, Disconnect
<1>2. /\ member' \in [Ids -> {"off", "joined", "idle", "busy", "dead"}]
      /\ member'[i] = last /\ \A j \in Ids : j # i => member'[j] = member[j]
  BY <1>1 DEF KafkaInv, KafkaTypeOK
<1>3. resolved' \subseteq resolved BY <1>1
<1> QED BY <1>1, <1>2, <1>3, Releasing, KafkaLoses

\* A disconnect fails, or the producer is disconnected behind the ones that did and did not.
LEMMA KafkaCloses ==
    ASSUME KafkaInv, (\E i \in Ids : DisconnectFails(i)) \/ DisconnectProducer
    PROVE  KafkaInv'
<1> USE DEF KafkaInv
<1>1. /\ UNCHANGED <<registry, readers, broker, kafkaHistory>>
      /\ stuck \subseteq stuck' /\ stuck' \subseteq Ids /\ consumers' \subseteq Ids /\ producer' \in BOOLEAN
  BY DEF DisconnectFails, DisconnectProducer, KafkaTypeOK
<1>2. KafkaTypeOK' BY <1>1 DEF readers, broker, kafkaHistory, KafkaTypeOK
<1>3. (OffsetsCoverHandling /\ OwnersHandled /\ IdleOwn /\ OffsetsWritten /\ SkippedBefore)'
  BY <1>1 DEF readers, broker, kafkaHistory, OffsetsCoverHandling, Handled, OwnersHandled, IdleOwn, OffsetsWritten,
       SkippedBefore, AllBefore
<1>4. ReadersRegistered'
  <2>1. CASE \E i \in Ids : DisconnectFails(i)
    BY <1>1, <2>1 DEF DisconnectFails, readers, ReadersRegistered
  <2>2. CASE DisconnectProducer
    <3>1. \A i \in Ids : member[i] # "off" => i \in stuck BY <2>2 DEF DisconnectProducer, Settled, ReadersRegistered
    <3> QED BY <1>1, <3>1 DEF readers, ReadersRegistered
  <2> QED BY <2>1, <2>2
<1> QED BY <1>2, <1>3, <1>4

\* The process ends: what is left is the brokers' and the history.
LEMMA KafkaEnds ==
    ASSUME KafkaInv, KafkaGone
    PROVE  KafkaInv'
<1> USE DEF KafkaInv
<1>1. /\ registry' = <<>> /\ consumers' = {} /\ stuck' = {} /\ producer' = FALSE /\ resolved' = {}
      /\ member' = [i \in Ids |-> "off"] /\ position' = [i \in Ids |-> 0]
      /\ owner' = [f \in Feeds |-> None]
      /\ UNCHANGED <<committed, log, moves, kafkaHistory>>
  BY DEF KafkaGone
<1>2. KafkaTypeOK'
  <2>1. registry' \in Seq(Ids) BY <1>1
  <2>2. position' \in [Ids -> 0 .. MaxLog] BY <1>1, KafkaBounds
  <2> QED BY <1>1, <2>1, <2>2 DEF kafkaHistory, KafkaTypeOK
<1>3. OffsetsCoverHandling' BY <1>1 DEF kafkaHistory, OffsetsCoverHandling, Handled
<1>4. (OwnersHandled /\ IdleOwn /\ SkippedBefore /\ ReadersRegistered)'
  <2>1. \A j \in Ids : owner'[Feed(j)] # j /\ member'[j] = "off" BY <1>1, Feeding
  <2> QED BY <1>1, <2>1 DEF kafkaHistory, OwnersHandled, IdleOwn, SkippedBefore, AllBefore, ReadersRegistered
<1>5. OffsetsWritten'
  <2>1. \A t \in Topics : log[t] \in Nat BY KafkaBounds DEF KafkaTypeOK
  <2> QED BY <1>1, <2>1, Feeding DEF OffsetsWritten
<1> QED BY <1>2, <1>3, <1>4, <1>5

\* Every step of the Kafka half keeps its invariant.
LEMMA KafkaStep ==
    ASSUME KafkaInv, StageInv, KafkaNext
    PROVE  KafkaInv'
BY KafkaBoots, KafkaProduces, KafkaJoins, KafkaDelivers, KafkaHandles, KafkaCommits, KafkaRebalances, KafkaStops,
   KafkaCloses DEF KafkaNext

-----------------------------------------------------------------------------
(* The Bull half. *)

\* A step that changes nothing of it keeps its invariant.
LEMMA JobsKept ==
    ASSUME JobsInv, UNCHANGED jobVars
    PROVE  JobsInv'
BY DEF JobsInv, jobVars, provider, redisJobs, JobsTypeOK, OverlapsFollowStalls, HandlersOf, AttemptsLeft, LockedActive,
       HandlersProcessed, ProcessingListed

\* A step of the provider that starts and closes queues leaves the jobs alone.
LEMMA ProviderMoves ==
    ASSUME JobsInv, UNCHANGED <<redisJobs, running>>,
           workers' \in Seq(QueueNames), runningJobs' \in Seq(QueueNames),
           closing' \in QueueNames \cup {Nothing}, processing' \subseteq QueueNames, unclosed' \subseteq QueueNames,
           \A j \in Jobs : running["here"][j] > 0 => QueueOf[j] \in processing',
           ProcessingListed'
    PROVE  JobsInv'
BY DEF JobsInv, redisJobs, JobsTypeOK, OverlapsFollowStalls, HandlersOf, AttemptsLeft, LockedActive, HandlersProcessed

\* The files are loaded and the queues started.
LEMMA JobsBoot ==
    ASSUME JobsInv, StageInv, LoadWorker \/ JobsDisabled \/ StartJob \/ JobsBooted
    PROVE  JobsInv'
<1>0. JobsTypeOK /\ HandlersProcessed /\ ProcessingListed BY DEF JobsInv
<1>1. CASE LoadWorker
  <2>1. UNCHANGED <<runningJobs, closing, processing, unclosed, redisJobs, running>> BY <1>1 DEF LoadWorker
  <2>2. at \in 1 .. Len(Queues) BY <1>1 DEF LoadWorker, StageInv, PlacesInRange
  <2>3. workers' = workers \/ workers' = Append(workers, Queues[at]) BY <1>1 DEF LoadWorker
  <2>4. workers \in Seq(QueueNames) BY <1>0 DEF JobsTypeOK
  <2>5. Append(workers, Queues[at]) \in Seq(QueueNames) BY <2>2, <2>4, Naming, AppendProperties
  <2>6. workers' \in Seq(QueueNames) BY <2>3, <2>4, <2>5
  <2>7. ProcessingListed' BY <1>0, <2>1 DEF ProcessingListed
  <2> QED BY <1>0, <2>1, <2>6, <2>7, ProviderMoves DEF JobsTypeOK, HandlersProcessed
<1>2. CASE JobsDisabled BY <1>2, JobsKept DEF JobsDisabled
<1>3. CASE StartJob
  <2> DEFINE q == workers[at]
  <2>1. at \in 1 .. Len(workers) /\ UNCHANGED <<workers, closing, unclosed, redisJobs, running>>
    BY <1>3 DEF StartJob, StageInv
  <2>2. workers \in Seq(QueueNames) /\ runningJobs \in Seq(QueueNames) BY <1>0 DEF JobsTypeOK
  <2>3. q \in QueueNames
    <3> DEFINE S == QueueNames
    <3>1. workers \in Seq(S) BY <2>2
    <3> HIDE DEF S
    <3>2. q \in S BY <2>1, <3>1
    <3> QED BY <3>2 DEF S
  <2>4. \/ UNCHANGED <<processing, runningJobs>>
        \/ processing' = processing \cup {q} /\ runningJobs' = Append(runningJobs, q)
    BY <1>3 DEF StartJob
  <2> HIDE DEF q
  <2>5. CASE UNCHANGED <<processing, runningJobs>>
    BY <2>1, <2>5, JobsKept DEF jobVars, provider
  <2>6. CASE processing' = processing \cup {q} /\ runningJobs' = Append(runningJobs, q)
    <3>1. /\ Append(runningJobs, q) \in Seq(QueueNames)
          /\ Len(Append(runningJobs, q)) = Len(runningJobs) + 1
          /\ \A n \in 1 .. Len(runningJobs) : Append(runningJobs, q)[n] = runningJobs[n]
          /\ Append(runningJobs, q)[Len(runningJobs) + 1] = q
      BY <2>2, <2>3, AppendProperties
    <3>2. /\ DOMAIN runningJobs = 1 .. Len(runningJobs) /\ Len(runningJobs) \in Nat
          /\ DOMAIN Append(runningJobs, q) = 1 .. Len(Append(runningJobs, q))
      BY <2>2, <3>1, LenProperties
    <3>3. ProcessingListed'
      <4> SUFFICES ASSUME NEW p \in processing' \ unclosed
                   PROVE  p = closing \/ \E n \in DOMAIN runningJobs' : runningJobs'[n] = p
        BY <2>1 DEF ProcessingListed
      <4>1. CASE p = q BY <4>1, <2>6, <3>1, <3>2
      <4>2. CASE p # q
        <5>1. p \in processing \ unclosed BY <4>2, <2>6
        <5> QED BY <5>1, <1>0, <2>6, <3>1, <3>2 DEF ProcessingListed
      <4> QED BY <4>1, <4>2
    <3>4. processing' \subseteq QueueNames /\ \A j \in Jobs : running["here"][j] > 0 => QueueOf[j] \in processing'
      BY <1>0, <2>3, <2>6 DEF JobsTypeOK, HandlersProcessed
    <3> QED BY <1>0, <2>1, <2>2, <2>6, <3>1, <3>3, <3>4, ProviderMoves DEF JobsTypeOK
  <2> QED BY <2>4, <2>5, <2>6
<1>4. CASE JobsBooted BY <1>4, JobsKept DEF JobsBooted
<1> QED BY <1>1, <1>2, <1>3, <1>4

\* The queues are closed, the last one first.
LEMMA JobsClose ==
    ASSUME JobsInv, CloseQueue \/ QueueClosed \/ CloseFails \/ QueuesStopped
    PROVE  JobsInv'
<1>0. JobsTypeOK /\ HandlersProcessed /\ ProcessingListed BY DEF JobsInv
<1>1. CASE CloseQueue
  <2> DEFINE n == Len(runningJobs)
  <2>1. /\ closing = Nothing /\ runningJobs # <<>>
        /\ closing' = runningJobs[n] /\ runningJobs' = SubSeq(runningJobs, 1, n - 1)
        /\ UNCHANGED <<workers, processing, unclosed, redisJobs, running>>
    BY <1>1 DEF CloseQueue
  <2>2. runningJobs \in Seq(QueueNames) BY <1>0 DEF JobsTypeOK
  <2>3. n \in Nat \ {0} /\ DOMAIN runningJobs = 1 .. n BY <2>1, <2>2, EmptySeq, LenProperties
  <2>4. \A i \in 1 .. n : runningJobs[i] \in QueueNames BY <2>2, ElementOfSeq
  <2> HIDE DEF n
  <2>5. /\ SubSeq(runningJobs, 1, n - 1) \in Seq(QueueNames)
        /\ Len(SubSeq(runningJobs, 1, n - 1)) = n - 1
        /\ \A i \in 1 .. n - 1 : SubSeq(runningJobs, 1, n - 1)[i] = runningJobs[i]
    <3>1. 1 \in Int /\ n - 1 \in Int /\ \A i \in 1 .. n - 1 : runningJobs[i] \in QueueNames BY <2>3, <2>4
    <3>2. /\ SubSeq(runningJobs, 1, n - 1) \in Seq(QueueNames)
          /\ Len(SubSeq(runningJobs, 1, n - 1)) = IF 1 <= n - 1 THEN n - 1 - 1 + 1 ELSE 0
          /\ \A i \in 1 .. n - 1 - 1 + 1 : SubSeq(runningJobs, 1, n - 1)[i] = runningJobs[1 + i - 1]
      BY <3>1, SubSeqProperties
    <3> QED BY <3>2, <2>3
  <2>6. DOMAIN SubSeq(runningJobs, 1, n - 1) = 1 .. n - 1 BY <2>5, LenProperties
  <2>7. ProcessingListed'
    <3> SUFFICES ASSUME NEW q \in processing \ unclosed
                 PROVE  q = closing' \/ \E i \in DOMAIN runningJobs' : runningJobs'[i] = q
      BY <2>1 DEF ProcessingListed
    <3>1. q # Nothing BY <1>0, <2>1, Naming DEF JobsTypeOK
    <3>2. PICK i \in 1 .. n : runningJobs[i] = q BY <1>0, <2>1, <2>3, <3>1 DEF ProcessingListed
    <3>3. i = n \/ i \in 1 .. n - 1 BY <2>3
    <3> QED BY <2>1, <2>5, <2>6, <3>2, <3>3
  <2>8. closing' \in QueueNames BY <2>1, <2>3, <2>4
  <2> QED BY <1>0, <2>1, <2>5, <2>7, <2>8, ProviderMoves DEF JobsTypeOK, HandlersProcessed
<1>2. CASE QueueClosed
  <2>1. /\ RunningIn(closing) = {} /\ processing' = processing \ {closing} /\ closing' = Nothing
        /\ UNCHANGED <<workers, runningJobs, unclosed, redisJobs, running>>
    BY <1>2 DEF QueueClosed
  <2>2. \A j \in Jobs : running["here"][j] > 0 => QueueOf[j] \in processing'
    BY <1>0, <2>1 DEF RunningIn, HandlersProcessed
  <2>3. ProcessingListed' BY <1>0, <2>1 DEF ProcessingListed
  <2> QED BY <1>0, <2>1, <2>2, <2>3, ProviderMoves DEF JobsTypeOK
<1>3. CASE CloseFails
  <2>1. /\ closing # Nothing /\ unclosed' = unclosed \cup {closing} /\ closing' = Nothing
        /\ UNCHANGED <<workers, runningJobs, processing, redisJobs, running>>
    BY <1>3 DEF CloseFails
  <2>2. ProcessingListed' BY <1>0, <2>1 DEF ProcessingListed
  <2> QED BY <1>0, <2>1, <2>2, ProviderMoves DEF JobsTypeOK, HandlersProcessed
<1>4. CASE QueuesStopped BY <1>4, JobsKept DEF QueuesStopped
<1> QED BY <1>1, <1>2, <1>3, <1>4

\* The process ends: what is left is Redis'.
LEMMA JobsEnded ==
    ASSUME JobsInv, JobsGone
    PROVE  JobsInv'
<1>1. /\ workers' = <<>> /\ runningJobs' = <<>> /\ closing' = Nothing /\ processing' = {} /\ unclosed' = {}
      /\ running' = [running EXCEPT !["here"] = [j \in Jobs |-> 0]] /\ UNCHANGED redisJobs
  BY DEF JobsGone
<1>2. workers' \in Seq(QueueNames) /\ runningJobs' \in Seq(QueueNames) BY <1>1, EmptySeq
<1>3. running \in [Places -> [Jobs -> Nat]] /\ stalls \in [Jobs -> Nat] BY JobBounds DEF JobsInv, JobsTypeOK
<1>4. /\ running' \in [Places -> [Jobs -> Nat]]
      /\ \A j \in Jobs : running'["here"][j] = 0 /\ running'["elsewhere"][j] = running["elsewhere"][j]
  BY <1>1, <1>3 DEF Places
<1>5. JobsTypeOK' BY <1>1, <1>2, <1>4 DEF JobsInv, redisJobs, JobsTypeOK
<1>6. OverlapsFollowStalls'
  <2> SUFFICES ASSUME NEW j \in Jobs
               PROVE  running'["here"][j] + running'["elsewhere"][j] <= stalls[j] + (IF job[j] = "active" THEN 1 ELSE 0)
    BY <1>1 DEF redisJobs, OverlapsFollowStalls, HandlersOf
  <2>1. running["here"][j] + running["elsewhere"][j] <= stalls[j] + (IF job[j] = "active" THEN 1 ELSE 0)
    BY DEF JobsInv, OverlapsFollowStalls, HandlersOf
  <2>2. running["here"][j] \in Nat /\ running["elsewhere"][j] \in Nat /\ stalls[j] \in Nat BY <1>3 DEF Places
  <2> QED BY <2>1, <2>2, <1>4
<1>7. (AttemptsLeft /\ LockedActive)' BY <1>1 DEF JobsInv, redisJobs, AttemptsLeft, LockedActive
<1>8. (HandlersProcessed /\ ProcessingListed)' BY <1>1, <1>4 DEF HandlersProcessed, ProcessingListed
<1> QED BY <1>5, <1>6, <1>7, <1>8 DEF JobsInv

\* How many handlers a job may have.
Allowed(j) == stalls[j] + (IF job[j] = "active" THEN 1 ELSE 0)

\* What one job's step may make of it.
OneJob(j) ==
    /\ job' \in [Jobs -> {"none", "wait", "active", "delayed", "completed", "failed"}]
    /\ tries' \in [Jobs -> 0 .. Attempts] /\ stalls' \in [Jobs -> 0 .. MaxStalls + 1]
    /\ lock' \in [Jobs -> Places \cup {Nothing}] /\ running' \in [Places -> [Jobs -> Nat]]
    /\ \A k \in Jobs : k # j => /\ job'[k] = job[k] /\ tries'[k] = tries[k] /\ stalls'[k] = stalls[k]
                               /\ lock'[k] = lock[k]
                               /\ running'["here"][k] = running["here"][k]
                               /\ running'["elsewhere"][k] = running["elsewhere"][k]
    /\ (HandlersOf(j) <= Allowed(j))'
    /\ job'[j] # "failed" => tries'[j] < Attempts /\ stalls'[j] <= MaxStalls
    /\ lock'[j] # Nothing => job'[j] = "active"
    /\ running'["here"][j] > 0 => QueueOf[j] \in processing

\* A job moves, and perhaps a handler of it starts or ends.
LEMMA JobMoves ==
    ASSUME JobsInv, UNCHANGED provider, NEW j \in Jobs, OneJob(j)
    PROVE  JobsInv'
<1> USE DEF JobsInv, OneJob
<1>1. JobsTypeOK' BY DEF provider, JobsTypeOK
<1>2. OverlapsFollowStalls'
  <2> SUFFICES ASSUME NEW k \in Jobs PROVE (HandlersOf(k) <= Allowed(k))'
    BY DEF OverlapsFollowStalls, Allowed
  <2>1. CASE k = j BY <2>1
  <2>2. CASE k # j BY <2>2 DEF OverlapsFollowStalls, HandlersOf, Allowed
  <2> QED BY <2>1, <2>2
<1>3. (AttemptsLeft /\ LockedActive)' BY DEF AttemptsLeft, LockedActive
<1>4. (HandlersProcessed /\ ProcessingListed)' BY DEF provider, HandlersProcessed, ProcessingListed
<1> QED BY <1>1, <1>2, <1>3, <1>4

\* A handler that ends makes one less of its job's, and leaves the others alone.
LEMMA Ending ==
    ASSUME JobsInv, NEW w \in Places, NEW j \in Jobs, End(w, j)
    PROVE  /\ running' \in [Places -> [Jobs -> Nat]]
           /\ \A v \in Places, k \in Jobs : k # j => running'[v][k] = running[v][k]
           /\ HandlersOf(j)' + 1 = HandlersOf(j) /\ HandlersOf(j)' \in Nat
           /\ running'["here"][j] <= running["here"][j] /\ running["here"][j] \in Nat
<1>1. running \in [Places -> [Jobs -> Nat]] BY DEF JobsInv, JobsTypeOK
<1>2. running[w][j] > 0 /\ running' = [running EXCEPT ![w][j] = @ - 1] BY DEF End
<1>3. running' \in [Places -> [Jobs -> Nat]] /\ running'[w][j] = running[w][j] - 1 BY <1>1, <1>2
<1>4. \A v \in Places, k \in Jobs : v # w \/ k # j => running'[v][k] = running[v][k] BY <1>1, <1>2
<1>5. running["here"][j] \in Nat /\ running["elsewhere"][j] \in Nat BY <1>1 DEF Places
<1>6. CASE w = "here" BY <1>2, <1>3, <1>4, <1>5, <1>6 DEF Places, HandlersOf
<1>7. CASE w = "elsewhere" BY <1>2, <1>3, <1>4, <1>5, <1>7 DEF Places, HandlersOf
<1> QED BY <1>3, <1>4, <1>5, <1>6, <1>7 DEF Places

\* A job's steps in Redis, with no handler of it started or ended.
LEMMA JobsRest ==
    ASSUME JobsInv, NEW j \in Jobs, Dispatch(j) \/ Due(j) \/ Expire(j) \/ Stall(j)
    PROVE  JobsInv'
<1>1. /\ job \in [Jobs -> {"none", "wait", "active", "delayed", "completed", "failed"}]
      /\ tries \in [Jobs -> 0 .. Attempts] /\ stalls \in [Jobs -> 0 .. MaxStalls + 1]
      /\ lock \in [Jobs -> Places \cup {Nothing}] /\ running \in [Places -> [Jobs -> Nat]]
      /\ Attempts \in Nat \ {0} /\ MaxStalls \in Nat
  BY JobBounds DEF JobsInv, JobsTypeOK
<1>2. /\ job[j] # "failed" => tries[j] < Attempts /\ stalls[j] <= MaxStalls
      /\ lock[j] # Nothing => job[j] = "active"
      /\ running["here"][j] > 0 => QueueOf[j] \in processing
      /\ HandlersOf(j) <= Allowed(j)
  BY DEF JobsInv, AttemptsLeft, OverlapsFollowStalls, LockedActive, HandlersProcessed, Allowed
<1>3. HandlersOf(j) \in Nat BY <1>1 DEF HandlersOf, Places
<1>4. UNCHANGED running => HandlersOf(j)' = HandlersOf(j) BY DEF HandlersOf
<1>5. CASE Dispatch(j)
  <2>1. job' = [job EXCEPT ![j] = "wait"] /\ job[j] = "none" /\ UNCHANGED <<provider, tries, stalls, lock, running>>
    BY <1>5 DEF Dispatch, Move
  <2>2. (HandlersOf(j) <= Allowed(j))' BY <2>1, <1>1, <1>2, <1>4 DEF Allowed
  <2> QED BY <2>1, <2>2, <1>1, <1>2, JobMoves DEF OneJob
<1>6. CASE Due(j)
  <2>1. job' = [job EXCEPT ![j] = "wait"] /\ job[j] = "delayed" /\ UNCHANGED <<provider, tries, stalls, lock, running>>
    BY <1>6 DEF Due, Move
  <2>2. (HandlersOf(j) <= Allowed(j))' BY <2>1, <1>1, <1>2, <1>4 DEF Allowed
  <2> QED BY <2>1, <2>2, <1>1, <1>2, JobMoves DEF OneJob
<1>7. CASE Expire(j)
  <2>1. lock' = [lock EXCEPT ![j] = Nothing] /\ UNCHANGED <<provider, job, tries, stalls, running>>
    BY <1>7 DEF Expire, Lock
  <2>2. (HandlersOf(j) <= Allowed(j))' BY <2>1, <1>1, <1>2, <1>4 DEF Allowed
  <2> QED BY <2>1, <2>2, <1>1, <1>2, JobMoves DEF OneJob
<1>8. CASE Stall(j)
  <2> DEFINE after == IF stalls[j] < MaxStalls THEN "wait" ELSE "failed"
  <2>1. /\ job[j] = "active" /\ lock[j] = Nothing
        /\ job' = [job EXCEPT ![j] = after] /\ stalls' = [stalls EXCEPT ![j] = stalls[j] + 1]
        /\ UNCHANGED <<provider, tries, lock, running>>
    BY <1>8 DEF Stall, Move
  <2>2. after \in {"wait", "failed"} /\ (after # "failed" => stalls[j] + 1 <= MaxStalls) BY <1>1
  <2>3. stalls[j] + 1 \in 0 .. MaxStalls + 1 BY <2>1, <1>1, <1>2
  <2> HIDE DEF after
  <2>4. (HandlersOf(j) <= Allowed(j))' BY <2>1, <2>2, <1>1, <1>2, <1>3, <1>4 DEF Allowed
  <2> QED BY <2>1, <2>2, <2>3, <2>4, <1>1, <1>2, JobMoves DEF OneJob
<1> QED BY <1>5, <1>6, <1>7, <1>8

\* A handler starts or ends.
LEMMA JobsWork ==
    ASSUME JobsInv, NEW j \in Jobs, EndElsewhere(j) \/ \E w \in Places : Take(w, j) \/ Succeed(w, j) \/ Throw(w, j)
    PROVE  JobsInv'
<1>1. /\ job \in [Jobs -> {"none", "wait", "active", "delayed", "completed", "failed"}]
      /\ tries \in [Jobs -> 0 .. Attempts] /\ stalls \in [Jobs -> 0 .. MaxStalls + 1]
      /\ lock \in [Jobs -> Places \cup {Nothing}] /\ running \in [Places -> [Jobs -> Nat]]
      /\ Attempts \in Nat \ {0} /\ MaxStalls \in Nat
  BY JobBounds DEF JobsInv, JobsTypeOK
<1>2. /\ job[j] # "failed" => tries[j] < Attempts /\ stalls[j] <= MaxStalls
      /\ lock[j] # Nothing => job[j] = "active"
      /\ running["here"][j] > 0 => QueueOf[j] \in processing
      /\ HandlersOf(j) <= Allowed(j)
  BY DEF JobsInv, AttemptsLeft, OverlapsFollowStalls, LockedActive, HandlersProcessed, Allowed
<1>3. \A v \in Places, k \in Jobs : running[v][k] \in Nat BY <1>1
<1>4. ASSUME NEW w \in Places, Take(w, j) PROVE JobsInv'
  <2>1. /\ job[j] = "wait" /\ job' = [job EXCEPT ![j] = "active"] /\ lock' = [lock EXCEPT ![j] = w]
        /\ running' = [running EXCEPT ![w][j] = @ + 1] /\ UNCHANGED <<provider, tries, stalls>>
    BY <1>4 DEF Take, Move, Lock
  <2>2. w = "here" => QueueOf[j] \in processing BY <1>4 DEF Take, Takes
  <2>3. running' \in [Places -> [Jobs -> Nat]] /\ running'[w][j] = running[w][j] + 1 BY <2>1, <1>1
  <2>4. \A v \in Places, k \in Jobs : v # w \/ k # j => running'[v][k] = running[v][k] BY <2>1, <1>1
  <2>5. HandlersOf(j)' = HandlersOf(j) + 1 /\ HandlersOf(j) \in Nat
    <3>1. running["here"][j] \in Nat /\ running["elsewhere"][j] \in Nat BY <1>3 DEF Places
    <3>2. CASE w = "here" BY <2>3, <2>4, <3>1, <3>2 DEF Places, HandlersOf
    <3>3. CASE w = "elsewhere" BY <2>3, <2>4, <3>1, <3>3 DEF Places, HandlersOf
    <3> QED BY <3>2, <3>3 DEF Places
  <2>6. (HandlersOf(j) <= Allowed(j))' BY <2>1, <2>5, <1>1, <1>2 DEF Allowed
  <2>7. running'["here"][j] > 0 => QueueOf[j] \in processing
    <3>1. CASE w = "here" BY <2>2, <3>1
    <3>2. CASE w # "here" BY <2>4, <3>2, <1>2 DEF Places
    <3> QED BY <3>1, <3>2
  <2>8. \A k \in Jobs : k # j => /\ running'["here"][k] = running["here"][k]
                                /\ running'["elsewhere"][k] = running["elsewhere"][k]
    BY <2>4 DEF Places
  <2>9. /\ job' \in [Jobs -> {"none", "wait", "active", "delayed", "completed", "failed"}]
        /\ lock' \in [Jobs -> Places \cup {Nothing}] /\ job'[j] = "active"
        /\ \A k \in Jobs : k # j => job'[k] = job[k] /\ lock'[k] = lock[k]
    BY <2>1, <1>1
  <2>10. OneJob(j) BY <2>1, <2>3, <2>6, <2>7, <2>8, <2>9, <1>1, <1>2 DEF OneJob
  <2> QED BY <2>1, <2>10, JobMoves
<1>5. ASSUME NEW w \in Places, End(w, j), UNCHANGED <<provider, stalls>>,
             job' \in [Jobs -> {"none", "wait", "active", "delayed", "completed", "failed"}],
             tries' \in [Jobs -> 0 .. Attempts], lock' \in [Jobs -> Places \cup {Nothing}],
             \A k \in Jobs : k # j => job'[k] = job[k] /\ tries'[k] = tries[k] /\ lock'[k] = lock[k],
             job'[j] # "failed" => job[j] # "failed" /\ tries'[j] < Attempts,
             \/ job'[j] = job[j] /\ lock'[j] = lock[j]
             \/ job[j] = "active" /\ job'[j] # "active" /\ lock'[j] = Nothing
      PROVE JobsInv'
  <2>1. /\ running' \in [Places -> [Jobs -> Nat]]
        /\ \A v \in Places, k \in Jobs : k # j => running'[v][k] = running[v][k]
        /\ HandlersOf(j)' + 1 = HandlersOf(j) /\ HandlersOf(j)' \in Nat
        /\ running'["here"][j] <= running["here"][j] /\ running["here"][j] \in Nat
    BY <1>5, Ending
  <2>2. running'["here"][j] \in Nat BY <2>1 DEF Places
  <2>3. running'["here"][j] > 0 => QueueOf[j] \in processing BY <2>1, <2>2, <1>2
  <2>4. (HandlersOf(j) <= Allowed(j))'
    <3>1. HandlersOf(j)' + 1 <= stalls[j] + (IF job[j] = "active" THEN 1 ELSE 0) /\ stalls[j] \in Nat
      BY <2>1, <1>1, <1>2 DEF Allowed
    <3>2. HandlersOf(j)' <= stalls[j] BY <3>1, <2>1
    <3> QED BY <3>2, <3>1, <2>1, <1>5 DEF Allowed
  <2>5. \A k \in Jobs : k # j => /\ running'["here"][k] = running["here"][k]
                                /\ running'["elsewhere"][k] = running["elsewhere"][k]
    BY <2>1 DEF Places
  <2>6. OneJob(j) BY <2>1, <2>3, <2>4, <2>5, <1>1, <1>2, <1>5 DEF OneJob
  <2> QED BY <2>6, <1>5, JobMoves
<1>6. ASSUME NEW w \in Places, Succeed(w, j) PROVE JobsInv'
  <2>1. End(w, j) /\ UNCHANGED <<provider, tries, stalls>> BY <1>6 DEF Succeed
  <2>2. CASE lock[j] = w
    <3>1. job' = [job EXCEPT ![j] = "completed"] /\ lock' = [lock EXCEPT ![j] = Nothing]
      BY <1>6, <2>2 DEF Succeed, Move, Lock
    <3>2. job[j] = "active"
      <4>1. w # Nothing BY Naming
      <4> QED BY <4>1, <2>2, <1>2
    <3> QED BY <2>1, <3>1, <3>2, <1>1, <1>2, <1>5
  <2>3. CASE lock[j] # w
    <3>1. job' = job /\ lock' = lock BY <1>6, <2>3 DEF Succeed
    <3> QED BY <2>1, <3>1, <1>1, <1>2, <1>5
  <2> QED BY <2>2, <2>3
<1>7. ASSUME NEW w \in Places, Throw(w, j) PROVE JobsInv'
  <2>1. End(w, j) /\ UNCHANGED <<provider, stalls>> BY <1>7 DEF Throw
  <2>2. CASE lock[j] = w
    <3> DEFINE after == IF tries[j] + 1 < Attempts THEN "delayed" ELSE "failed"
    <3>1. /\ job' = [job EXCEPT ![j] = after] /\ tries' = [tries EXCEPT ![j] = tries[j] + 1]
          /\ lock' = [lock EXCEPT ![j] = Nothing]
      BY <1>7, <2>2 DEF Throw, Move, Lock
    <3>2. job[j] = "active"
      <4>1. w # Nothing BY Naming
      <4> QED BY <4>1, <2>2, <1>2
    <3>3. tries[j] + 1 \in 0 .. Attempts BY <3>2, <1>1, <1>2
    <3>4. after \in {"delayed", "failed"} /\ (after # "failed" => tries[j] + 1 < Attempts) OBVIOUS
    <3> HIDE DEF after
    <3> QED BY <2>1, <3>1, <3>2, <3>3, <3>4, <1>1, <1>2, <1>5
  <2>3. CASE lock[j] # w
    <3>1. job' = job /\ tries' = tries /\ lock' = lock BY <1>7, <2>3 DEF Throw
    <3> QED BY <2>1, <3>1, <1>1, <1>2, <1>5
  <2> QED BY <2>2, <2>3
<1>8. ASSUME EndElsewhere(j) PROVE JobsInv'
  <2>1. End("elsewhere", j) /\ UNCHANGED <<provider, job, tries, stalls, lock>> BY <1>8 DEF EndElsewhere, redisJobs
  <2>2. "elsewhere" \in Places BY DEF Places
  <2> QED BY <2>1, <2>2, <1>1, <1>2, <1>5
<1> QED BY <1>4, <1>6, <1>7, <1>8

\* Every step of the Bull half keeps its invariant.
LEMMA JobsStep ==
    ASSUME JobsInv, StageInv, JobsNext
    PROVE  JobsInv'
BY JobsBoot, JobsClose, JobsRest, JobsWork DEF JobsNext

-----------------------------------------------------------------------------
(* The stages. *)

\* The hooks' loops stay within their lists, the producer is connected when Kafka's boot is
\* over, and the last queue is closed before Kafka's close begins.
LEMMA StageKept ==
    ASSUME StageInv, UNCHANGED <<stage, at, serverTypes, producer, processing, unclosed>>
    PROVE  StageInv'
BY DEF StageInv, PlacesInRange, ProducerConnected, ProcessingUp, Allows

\* The steps of Kafka's register and boot.
LEMMA KafkaStages ==
    ASSUME StageInv, UNCHANGED <<serverTypes, processing, unclosed>>,
           LoadListener \/ KafkaDisabled \/ ConnectProducer \/ RegisterConsumer \/ KafkaBooted
    PROVE  StageInv'
<1> USE DEF StageInv
<1>0. Len(Queues) \in Nat \ {0} /\ Len(Listeners) \in Nat \ {0} BY Feeding, Naming
<1>1. CASE LoadListener
  <2>1. stage = "registerKafka" /\ at \in 1 .. Len(Listeners) /\ producer' = producer /\ Allows("consumer")
    BY <1>1 DEF LoadListener, PlacesInRange
  <2>2. \/ at < Len(Listeners) /\ at' = at + 1 /\ stage' = stage
        \/ at' = 1 /\ stage' = "registerJobs"
    BY <1>1 DEF LoadListener
  <2>3. processing' \ unclosed' = {} /\ unclosed' = {} BY <2>1 DEF ProcessingUp
  <2> QED BY <1>0, <2>1, <2>2, <2>3 DEF PlacesInRange, ProducerConnected, ProcessingUp, Allows, Stages
<1>2. CASE KafkaDisabled
  <2>1. /\ ~Allows("consumer") /\ at' = at
        /\ \/ stage = "registerKafka" /\ stage' = "registerJobs"
           \/ stage = "bootKafka" /\ stage' = "bootJobs"
           \/ stage = "closeKafka" /\ stage' = "closed"
    BY <1>2 DEF KafkaDisabled
  <2>2. processing' \ unclosed' = {} /\ (stage # "closeKafka" => unclosed' = {}) BY <2>1 DEF ProcessingUp
  <2> QED BY <1>0, <2>1, <2>2 DEF PlacesInRange, ProducerConnected, ProcessingUp, Allows, Stages
<1>3. CASE ConnectProducer
  BY <1>3 DEF ConnectProducer, PlacesInRange, ProducerConnected, ProcessingUp, Allows
<1>4. CASE RegisterConsumer
  BY <1>4 DEF RegisterConsumer, PlacesInRange, ProducerConnected, ProcessingUp, Allows
<1>5. CASE KafkaBooted
  BY <1>5 DEF KafkaBooted, kafkaVars, PlacesInRange, ProducerConnected, ProcessingUp, Allows, Stages
<1> QED BY <1>1, <1>2, <1>3, <1>4, <1>5

\* Of Kafka's other steps only the last of its close moves the process on.
LEMMA KafkaStageStep ==
    ASSUME StageInv, KafkaNext, UNCHANGED <<serverTypes, jobVars>>
    PROVE  StageInv'
<1>1. processing' = processing /\ unclosed' = unclosed /\ serverTypes' = serverTypes BY DEF jobVars, provider
<1>2. CASE LoadListener \/ KafkaDisabled \/ ConnectProducer \/ RegisterConsumer \/ KafkaBooted
  BY <1>1, <1>2, KafkaStages
<1>3. CASE \E t \in Topics : Produce(t)
  BY <1>1, <1>3, StageKept DEF Produce
<1>4. CASE \E f \in Feeds : Rebalance(f)
  BY <1>1, <1>4, StageKept DEF Rebalance
<1>5. CASE \E i \in Ids : \/ Join(i) \/ Deliver(i) \/ HandlerEnds(i) \/ Commit(i)
                          \/ RunDies(i) \/ Disconnect(i) \/ DisconnectFails(i)
  <2>1. UNCHANGED <<stage, at, producer>>
    BY <1>5 DEF Join, Deliver, HandlerEnds, Commit, RunDies, Disconnect, DisconnectFails
  <2> QED BY <1>1, <2>1, StageKept
<1>6. CASE DisconnectProducer
  <2>1. stage = "closeKafka" /\ stage' = "closed" /\ at' = at BY <1>6 DEF DisconnectProducer
  <2> QED BY <1>1, <2>1 DEF StageInv, PlacesInRange, ProducerConnected, ProcessingUp, Allows, Stages
<1> QED BY <1>2, <1>3, <1>4, <1>5, <1>6 DEF KafkaNext

\* The steps of the Bull half.
LEMMA JobsStageStep ==
    ASSUME JobsInv, StageInv, JobsNext, UNCHANGED <<serverTypes, kafkaVars>>
    PROVE  StageInv'
<1> USE DEF StageInv
<1>0. producer' = producer /\ serverTypes' = serverTypes /\ Len(Queues) \in Nat \ {0} BY Naming DEF kafkaVars
<1>1. CASE LoadWorker
  <2>1. stage = "registerJobs" /\ at \in 1 .. Len(Queues) /\ processing' = processing /\ unclosed' = unclosed
    BY <1>1 DEF LoadWorker, PlacesInRange
  <2>2. \/ at < Len(Queues) /\ at' = at + 1 /\ stage' = stage
        \/ at' = 1 /\ stage' = "bootKafka"
    BY <1>1 DEF LoadWorker
  <2> QED BY <1>0, <2>1, <2>2 DEF PlacesInRange, ProducerConnected, ProcessingUp, Allows, Stages
<1>2. CASE JobsDisabled
  BY <1>0, <1>2 DEF JobsDisabled, jobVars, provider, PlacesInRange, ProducerConnected, ProcessingUp, Allows, Stages
<1>3. CASE StartJob
  <2>1. stage = "bootJobs" /\ stage' = stage /\ at' = at + 1 /\ unclosed' = unclosed BY <1>3 DEF StartJob
  <2> QED BY <1>0, <2>1 DEF PlacesInRange, ProducerConnected, ProcessingUp, Allows
<1>4. CASE JobsBooted
  BY <1>0, <1>4 DEF JobsBooted, jobVars, provider, PlacesInRange, ProducerConnected, ProcessingUp, Allows, Stages
<1>5. CASE CloseQueue
  BY <1>0, <1>5, StageKept DEF CloseQueue
<1>6. CASE QueueClosed
  <2>1. stage = "closeJobs" /\ UNCHANGED <<stage, at, unclosed>> BY <1>6 DEF QueueClosed
  <2> QED BY <1>0, <2>1 DEF PlacesInRange, ProducerConnected, ProcessingUp, Allows
<1>7. CASE QueuesStopped
  <2>1. /\ stage = "closeJobs" /\ stage' = "closeKafka" /\ at' = at
        /\ processing' = processing /\ unclosed' = unclosed /\ closing = Nothing /\ runningJobs = <<>>
    BY <1>7 DEF QueuesStopped, jobVars, provider
  <2>2. processing \ unclosed = {}
    <3>1. \A q \in processing \ unclosed : q = Nothing BY <2>1 DEF JobsInv, ProcessingListed
    <3>2. Nothing \notin processing BY Naming DEF JobsInv, JobsTypeOK
    <3> QED BY <3>1, <3>2
  <2> QED BY <1>0, <2>1, <2>2 DEF PlacesInRange, ProducerConnected, ProcessingUp, Allows, Stages
<1>8. CASE CloseFails
  <2>1. /\ stage = "closeJobs" /\ UNCHANGED <<stage, at, processing>>
    BY <1>8 DEF CloseFails
  <2> QED BY <1>0, <2>1 DEF PlacesInRange, ProducerConnected, ProcessingUp, Allows
<1>9. CASE \E j \in Jobs : \/ Dispatch(j) \/ Due(j) \/ Expire(j) \/ Stall(j) \/ EndElsewhere(j)
                           \/ \E w \in Places : Take(w, j) \/ Succeed(w, j) \/ Throw(w, j)
  <2>1. UNCHANGED <<stage, at, processing, unclosed>>
    BY <1>9 DEF Dispatch, Due, Expire, Stall, EndElsewhere, Take, Succeed, Throw, provider
  <2> QED BY <1>0, <2>1, StageKept
<1> QED BY <1>1, <1>2, <1>3, <1>4, <1>5, <1>6, <1>7, <1>8, <1>9 DEF JobsNext

\* The process ends, or is told to, or starts again.
LEMMA ProcessStages ==
    ASSUME StageInv, \/ Shutdown \/ Restart
                     \/ KafkaGone /\ JobsGone /\ UNCHANGED serverTypes
    PROVE  StageInv'
<1> USE DEF StageInv
<1>0. Len(Listeners) \in Nat \ {0} BY Feeding
<1>1. CASE Shutdown
  BY <1>1 DEF Shutdown, kafkaVars, jobVars, provider, PlacesInRange, ProducerConnected, ProcessingUp, Allows, Stages
<1>2. CASE Restart
  BY <1>0, <1>2 DEF Restart, kafkaVars, jobVars, provider, PlacesInRange, ProducerConnected, ProcessingUp, Allows, Stages
<1>3. CASE KafkaGone /\ JobsGone /\ UNCHANGED serverTypes
  BY <1>3 DEF KafkaGone, JobsGone, PlacesInRange, ProducerConnected, ProcessingUp, Allows, Stages
<1> QED BY <1>1, <1>2, <1>3

-----------------------------------------------------------------------------
(* The process. *)

\* The invariant holds when the process starts for the first time.
LEMMA InitInv == Init => IInv
<1> SUFFICES ASSUME Init PROVE IInv OBVIOUS
<1>1. KafkaInv
  <2>1. KafkaTypeOK
    <3>1. registry \in Seq(Ids) BY DEF Init, KafkaInit
    <3>2. 0 \in 0 .. MaxLog /\ 0 \in 0 .. MaxMoves BY KafkaBounds
    <3>3. /\ consumers = {} /\ stuck = {} /\ producer = FALSE /\ resolved = {} /\ moves = 0
          /\ member = [i \in Ids |-> "off"] /\ position = [i \in Ids |-> 0]
          /\ owner = [g \in Feeds |-> None] /\ committed = [g \in Feeds |-> None]
          /\ log = [t \in Topics |-> 0] /\ ended = [g \in Feeds |-> {}] /\ skipped = [g \in Feeds |-> {}]
      BY DEF Init, KafkaInit
    <3> QED BY <3>1, <3>2, <3>3 DEF KafkaTypeOK
  <2>2. OffsetsCoverHandling BY DEF Init, KafkaInit, OffsetsCoverHandling
  <2>3. OwnersHandled /\ IdleOwn /\ SkippedBefore /\ ReadersRegistered
    BY Feeding DEF Init, KafkaInit, OwnersHandled, IdleOwn, SkippedBefore, AllBefore, ReadersRegistered
  <2>4. OffsetsWritten BY Feeding DEF Init, KafkaInit, OffsetsWritten
  <2> QED BY <2>1, <2>2, <2>3, <2>4 DEF KafkaInv
<1>2. JobsInv
  <2>1. workers \in Seq(QueueNames) /\ runningJobs \in Seq(QueueNames) BY EmptySeq DEF Init, JobsInit
  <2>2. JobsTypeOK BY <2>1, JobBounds DEF Init, JobsInit, JobsTypeOK
  <2>3. OverlapsFollowStalls BY DEF Init, JobsInit, OverlapsFollowStalls, HandlersOf, Places
  <2>4. AttemptsLeft /\ LockedActive /\ HandlersProcessed /\ ProcessingListed
    BY JobBounds DEF Init, JobsInit, AttemptsLeft, LockedActive, HandlersProcessed, ProcessingListed, Places
  <2> QED BY <2>2, <2>3, <2>4 DEF JobsInv
<1>3. StageInv
  BY Feeding DEF Init, KafkaInit, JobsInit, StageInv, PlacesInRange, ProducerConnected, ProcessingUp, Stages
<1> QED BY <1>1, <1>2, <1>3, Halves

\* Every step of the process keeps it.
LEMMA StepInv == IInv /\ [Next]_vars => IInv'
<1> SUFFICES ASSUME IInv, [Next]_vars PROVE IInv' OBVIOUS
<1>0. KafkaInv /\ JobsInv /\ StageInv BY Halves
<1>1. (KafkaInv /\ JobsInv /\ StageInv)'
  <2>1. CASE KafkaNext /\ UNCHANGED <<serverTypes, jobVars>>
    BY <1>0, <2>1, KafkaStep, JobsKept, KafkaStageStep
  <2>2. CASE JobsNext /\ UNCHANGED <<serverTypes, kafkaVars>>
    BY <1>0, <2>2, JobsStep, KafkaKept, JobsStageStep
  <2>3. CASE Shutdown
    BY <1>0, <2>3, KafkaKept, JobsKept, ProcessStages DEF Shutdown
  <2>4. CASE Crash
    BY <1>0, <2>4, KafkaEnds, JobsEnded, ProcessStages DEF Crash
  <2>5. CASE Restart
    BY <1>0, <2>5, KafkaKept, JobsKept, ProcessStages DEF Restart
  <2>6. CASE UNCHANGED vars
    BY <1>0, <2>6, KafkaKept, JobsKept, StageKept DEF vars, kafkaVars, jobVars, provider
  <2> QED BY <2>1, <2>2, <2>3, <2>4, <2>5, <2>6 DEF Next
<1> QED BY <1>1 DEF IInv, TypeOK, KafkaInv, JobsInv, StageInv

\* The inductive invariant holds for any listeners, queues, jobs and bounds.
THEOREM Invariant == Spec => []IInv
BY InitInv, StepInv, PTL DEF Spec

\* What a group committed, its handlers came back from: crashes, rebalances and shutdowns lose
\* no message (registerConsumer's eachMessage).
THEOREM OffsetsCovered == Spec => []OffsetsCoverHandling
<1>1. IInv => OffsetsCoverHandling BY DEF IInv
<1> QED BY Invariant, <1>1, PTL

\* A job has one handler at a time, in whatever processes it may be taken, and one more at most
\* for every lock it lost (registerProcess, getProcessHandler).
THEOREM OverlapsStalled == Spec => []OverlapsFollowStalls
<1>1. IInv => OverlapsFollowStalls BY DEF IInv
<1> QED BY Invariant, <1>1, PTL

\* Messages and jobs are handled only behind the producer's connection, and when the producer
\* may be disconnected none is, but by consumers and queues that failed to stop themselves
\* (the order of the Kernel's providers, JobsProvider.close, shutdown).
THEOREM ProducerOutlivesHandlers == Spec => []HandlersHaveProducer
<1>1. IInv => HandlersHaveProducer
  <2> SUFFICES ASSUME IInv, WithoutProducer
               PROVE  /\ \A i \in Ids : member[i] = "busy" => i \in stuck
                      /\ \A j \in Jobs : running["here"][j] > 0 => QueueOf[j] \in unclosed
    BY DEF HandlersHaveProducer
  <2>0. KafkaInv /\ JobsInv /\ StageInv BY Halves
  <2>1. \A i \in Ids : member[i] = "busy" => i \in stuck
    BY <2>0 DEF KafkaInv, ReadersRegistered, WithoutProducer, Disconnectable, Settled
  <2>2. ASSUME NEW j \in Jobs, running["here"][j] > 0, QueueOf[j] \notin unclosed PROVE FALSE
    <3>1. processing \ unclosed # {} BY <2>0, <2>2 DEF JobsInv, HandlersProcessed
    <3>2. stage \in {"bootJobs", "up", "closeJobs"} BY <2>0, <3>1 DEF StageInv, ProcessingUp
    <3> QED BY <2>0, <3>2 DEF StageInv, ProducerConnected, WithoutProducer, Disconnectable
  <2> QED BY <2>1, <2>2
<1> QED BY Invariant, <1>1, PTL
=============================================================================
