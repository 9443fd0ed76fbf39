----------------------------- MODULE MCWorkers -----------------------------
(* Instances of Workers for TLC. *)
EXTENDS Workers

CONSTANTS j1, j2

Listener(name, topic, fromBeginning) == [name |-> name, topic |-> topic, groupId |-> None, fromBeginning |-> fromBeginning]

\* Two classes listen to one topic and share its default group; the file of a third is broken.
TopicListeners == <<Listener("A", "t", None), Listener("C", "t", TRUE), Listener("B", "t", None)>>
OneListener == <<Listener("A", "t", TRUE)>>

\* A queue that runs two jobs at once and is run elsewhere, too, and one that does neither.
OneQueue == <<"q1">>
TwoQueues == <<"q1", "q2">>
OnePerQueue == [j \in Jobs |-> IF j = j1 THEN "q1" ELSE "q2"]
TwoThenOne == [q \in QueueNames |-> IF q = "q1" THEN 2 ELSE 1]
=============================================================================
