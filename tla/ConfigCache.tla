---------------------------- MODULE ConfigCache ----------------------------
(***************************************************************************)
(* ConfigService: configuration values kept in MongoDB (ConfigRepository)  *)
(* behind a Redis cache.  Reads fill the cache on a miss, setByKey writes  *)
(* the database and then the cache, a multi-key read uses cache entries of *)
(* its own (the hash tag is part of their names), and an administrator may *)
(* drop entries by prefix.  Every Redis command and every MongoDB call is  *)
(* one action; several requests, of this process or another, interleave.   *)
(***************************************************************************)
EXTENDS Naturals, Sequences

CONSTANTS
    Requests,   \* slots for calls in flight; a slot is reused
    Keys, Values,
    Empty,      \* the value "", which JavaScript takes for no value
    None,       \* no entry, no document
    Tags,       \* hash tags of multi-key reads
    Queries,    \* the key lists of multi-key reads, sequences of Keys
    Prefixes,   \* the sets of entry names a prefix can match
    Ops, Faults \* what the instance calls, and what may fail: {} or {"fail"}

AllOps == {"getByKey", "setByKey", "getByMultiKeys", "expireConfigs", "keys"}

ASSUME DistinctAssumption == None \notin Values \cup {Empty} /\ "plain" \notin Tags
ASSUME QueriesAssumption == Queries \subseteq Seq(Keys)
ASSUME OpsAssumption == Ops \subseteq AllOps

Names == (Tags \cup {"plain"}) \X Keys      \* "key" and "{tag}key"
Plain(k) == <<"plain", k>>
Found(v) == v \notin {None, Empty}          \* if (v)

ASSUME PrefixesAssumption == Prefixes \subseteq SUBSET Names

VARIABLES
    db,         \* collection configs: value by key, or None
    cache,      \* Redis: value by entry name, or None
    body,       \* what the latest call of each slot asks for
    pc,         \* the await it stands at, or "done"
    local,      \* its locals: entries still to write, entries still to drop, results
    answer,     \* what the latest step returned to its caller, or NoAnswer
    \* History, read by the properties only:
    written,    \* values the collection has held, by key
    existed,    \* per slot: keys of a multi-key read that had a document when it began
    unsettled   \* keys for which a cache write was overtaken, or failed

history == <<written, unsettled>>
vars == <<db, cache, body, pc, local, answer, written, existed, unsettled>>

Call(op, k, v, q, t, p) == [op |-> op, key |-> k, value |-> v, query |-> q, tag |-> t, prefix |-> p]
NoCall == Call("none", None, None, <<>>, None, {})
Locals(fill, drop, results) == [fill |-> fill, drop |-> drop, results |-> results]
NoLocals == Locals({}, {}, <<>>)
Entry(n, v) == [name |-> n, value |-> v]
NoAnswer == [slot |-> None, call |-> NoCall, code |-> "none", results |-> <<>>]

InFlight(r) == pc[r] # "done"
Running(r, op, at) == body[r].op = op /\ pc[r] = at

Goto(r, at, locals) ==
    /\ pc' = [pc EXCEPT ![r] = at]
    /\ local' = [local EXCEPT ![r] = locals]
    /\ answer' = NoAnswer
    /\ UNCHANGED <<body, existed>>

Answer(r, code, results) ==
    /\ answer' = [slot |-> r, call |-> body[r], code |-> code, results |-> results]
    /\ pc' = [pc EXCEPT ![r] = "done"]
    /\ body' = [body EXCEPT ![r] = NoCall]
    /\ local' = [local EXCEPT ![r] = NoLocals]
    /\ existed' = [existed EXCEPT ![r] = {}]

\* One of several commands that the call sends without waiting in between.
Sends(r, locals) ==
    /\ local' = [local EXCEPT ![r] = locals]
    /\ answer' = NoAnswer
    /\ UNCHANGED <<body, pc, existed>>

Init ==
    /\ db = [k \in Keys |-> None]
    /\ cache = [n \in Names |-> None]
    /\ body = [r \in Requests |-> NoCall]
    /\ pc = [r \in Requests |-> "done"]
    /\ local = [r \in Requests |-> NoLocals]
    /\ answer = NoAnswer
    /\ written = [k \in Keys |-> {}]
    /\ existed = [r \in Requests |-> {}]
    /\ unsettled = {}

Begin(r, call, at) ==
    /\ call.op \in Ops /\ ~InFlight(r)
    /\ body' = [body EXCEPT ![r] = call]
    /\ pc' = [pc EXCEPT ![r] = at]
    /\ answer' = NoAnswer
    /\ existed' = [existed EXCEPT ![r] = {k \in Keys : db[k] # None /\ \E i \in DOMAIN call.query : call.query[i] = k}]
    /\ UNCHANGED <<db, cache, local, written, unsettled>>

Client(r) ==
    \/ \E k \in Keys : Begin(r, Call("getByKey", k, None, <<>>, None, {}), "cacheGet")
    \/ \E k \in Keys, v \in Values : Begin(r, Call("setByKey", k, v, <<>>, None, {}), "upsert")
    \/ \E q \in Queries, t \in Tags : Begin(r, Call("getByMultiKeys", None, None, q, t, {}), "mget")
    \/ \E op \in {"expireConfigs", "keys"}, p \in Prefixes : Begin(r, Call(op, None, None, <<>>, None, p), "scan")

-----------------------------------------------------------------------------
(* getByKey *)
\* What getByKey returned goes to its caller, or to one of the getters that convert it, where a
\* missing value has no split and a text may not be JSON: their callers see an error.
Return(r, v) == Answer(r, "ok", <<v>>) \/ Answer(r, "500", <<>>)

CacheGet(r) ==
    /\ Running(r, "getByKey", "cacheGet")
    /\ LET v == cache[Plain(body[r].key)]
       IN \/ Found(v) /\ Return(r, v)
          \/ ~Found(v) /\ Goto(r, "dbGet", Locals({}, {}, <<v>>))
    /\ UNCHANGED <<db, cache, history>>

\* Mutant: a document that is not there is cached all the same.
DbGetUnchecked(r) ==
    /\ Running(r, "getByKey", "dbGet")
    /\ LET v == db[body[r].key]
       IN Goto(r, "setex", Locals({Entry(Plain(body[r].key), v)}, {}, <<v>>))
    /\ UNCHANGED <<db, cache, history>>
DbGet(r) ==
    /\ Running(r, "getByKey", "dbGet")
    /\ LET v == db[body[r].key]
       IN \/ v = None /\ Return(r, local[r].results[1])
          \/ v # None /\ Goto(r, "setex", Locals({Entry(Plain(body[r].key), v)}, {}, <<v>>))
    /\ UNCHANGED <<db, cache, history>>

(* setByKey *)
\* History: writing v while another call still holds another value for the entry.
Overtakes(r, k, v) ==
    \E s \in Requests \ {r} : \E e \in local[s].fill : e.name = Plain(k) /\ e.value # v

\* findOneAndUpdate with new and upsert: writes, and returns the new document.
\* Mutant: without new it returns the old one.
UpsertReturningOld(r) ==
    /\ Running(r, "setByKey", "upsert")
    /\ LET k == body[r].key
           v == body[r].value
       IN /\ db' = [db EXCEPT ![k] = v]
          /\ \/ db[k] = None /\ Answer(r, "ok", <<>>)
             \/ db[k] # None /\ Goto(r, "setex", Locals({Entry(Plain(k), db[k])}, {}, <<>>))
          /\ written' = [written EXCEPT ![k] = @ \cup {v}]
          /\ unsettled' = IF Overtakes(r, k, v) THEN unsettled \cup {k} ELSE unsettled
    /\ UNCHANGED cache
Upsert(r) ==
    /\ Running(r, "setByKey", "upsert")
    /\ LET k == body[r].key
           v == body[r].value
       IN /\ db' = [db EXCEPT ![k] = v]
          /\ Goto(r, "setex", Locals({Entry(Plain(k), v)}, {}, <<>>))
          /\ written' = [written EXCEPT ![k] = @ \cup {v}]
          /\ unsettled' = IF Overtakes(r, k, v) THEN unsettled \cup {k} ELSE unsettled
    /\ UNCHANGED cache

\* SETEX, at the end of getByKey, setByKey and, several in one pipeline, of getByMultiKeys.
Setex(r) ==
    /\ pc[r] = "setex"
    /\ \E e \in local[r].fill :
        /\ cache' = [cache EXCEPT ![e.name] = e.value]
        /\ Sends(r, Locals(local[r].fill \ {e}, {}, local[r].results))
    /\ UNCHANGED <<db, history>>

SetexDone(r) ==
    /\ pc[r] = "setex" /\ local[r].fill = {}
    /\ IF body[r].op = "getByKey" THEN Return(r, local[r].results[1]) ELSE Answer(r, "ok", local[r].results)
    /\ UNCHANGED <<db, cache, history>>

-----------------------------------------------------------------------------
(* getByMultiKeys *)
\* keysNotFound: the keys the cache did not have, each with the last position asking for it.
Missing(q, results) == {q[i] : i \in {j \in DOMAIN q : results[j] = None}}
\* Mutant: one variable captured by every callback of the loop.
CapturedIndex(q, k, i) == i = Len(q)
\* Mutant: an index that is there already is kept.
FirstIndex(q, k, i) == q[i] = k /\ \A j \in DOMAIN q : q[j] = k => j >= i
IsLastIndex(q, k, i) == q[i] = k /\ \A j \in DOMAIN q : q[j] = k => j <= i

MGet(r) ==
    /\ Running(r, "getByMultiKeys", "mget")
    /\ LET q == body[r].query
           cached(k) == cache[<<body[r].tag, k>>]
           results == [i \in DOMAIN q |-> IF Found(cached(q[i])) THEN cached(q[i]) ELSE None]
       IN \/ Missing(q, results) = {} /\ Answer(r, "ok", results)
          \/ Missing(q, results) # {} /\ Goto(r, "dbFind", Locals({}, {}, results))
    /\ UNCHANGED <<db, cache, history>>

\* A document with an empty value leaves a hole in the pipeline's command list, which
\* ioredis rejects before it sends anything.
DbFind(r) ==
    /\ Running(r, "getByMultiKeys", "dbFind")
    /\ LET q == body[r].query
           found == {k \in Missing(q, local[r].results) : db[k] # None}
           keyAt(i) == {k \in found : IsLastIndex(q, k, i)}
           results == [i \in DOMAIN q |-> IF keyAt(i) = {} THEN local[r].results[i]
                                          ELSE db[CHOOSE k \in keyAt(i) : TRUE]]
       IN \/ (\E k \in found : ~Found(db[k])) /\ Answer(r, "500", <<>>)
          \/ /\ \A k \in found : Found(db[k])
             /\ Goto(r, "setex", Locals({Entry(<<body[r].tag, k>>, db[k]) : k \in found}, {}, results))
    /\ UNCHANGED <<db, cache, history>>

-----------------------------------------------------------------------------
(* expireConfigs and keys: KEYS prefix*, then one DEL per entry. *)
Scan(r) ==
    /\ Running(r, "expireConfigs", "scan") \/ Running(r, "keys", "scan")
    /\ LET names == {n \in body[r].prefix : cache[n] # None}
       IN \/ body[r].op = "keys" /\ Answer(r, "ok", <<>>)
          \/ body[r].op = "expireConfigs" /\ Goto(r, "del", Locals({}, names, <<>>))
    /\ UNCHANGED <<db, cache, history>>

Del(r) ==
    /\ Running(r, "expireConfigs", "del")
    /\ \E n \in local[r].drop :
        /\ cache' = [cache EXCEPT ![n] = None]
        /\ Sends(r, Locals({}, local[r].drop \ {n}, <<>>))
    /\ UNCHANGED <<db, history>>

DelDone(r) ==
    /\ Running(r, "expireConfigs", "del") /\ local[r].drop = {}
    /\ Answer(r, "ok", <<>>)
    /\ UNCHANGED <<db, cache, history>>

-----------------------------------------------------------------------------
\* A Redis command or a MongoDB call fails, or the process dies: the rest of the call is
\* lost.  A setByKey that had written the collection leaves the old cache entry behind.
\* (A single command of getByMultiKeys' pipeline fails without a rejection: the caller is told ok,
\* which no property reads, and the entry is missing as after an eviction.)
Fail(r) ==
    /\ "fail" \in Faults /\ InFlight(r)
    /\ Answer(r, "500", <<>>)
    /\ unsettled' = IF Running(r, "setByKey", "setex") THEN unsettled \cup {body[r].key} ELSE unsettled
    /\ UNCHANGED <<db, cache, written>>

\* Mutant of Evict: entries written with SET instead of SETEX.
EvictNever(n) == FALSE /\ UNCHANGED vars
\* Every entry was written with a time to live.
Evict(n) ==
    /\ cache[n] # None
    /\ cache' = [cache EXCEPT ![n] = None]
    /\ answer' = NoAnswer
    /\ UNCHANGED <<db, body, pc, local, existed, history>>

Handler(r) ==
    \/ CacheGet(r) \/ DbGet(r) \/ Upsert(r) \/ MGet(r) \/ DbFind(r)
    \/ Setex(r) \/ SetexDone(r) \/ Scan(r) \/ Del(r) \/ DelDone(r)

Next ==
    \/ \E r \in Requests : Client(r) \/ Handler(r) \/ Fail(r)
    \/ \E n \in Names : Evict(n)

Spec == Init /\ [][Next]_vars

\* Redis and MongoDB answer what they are asked, and Redis drops what has expired.
FairSpec == Spec /\ (\A r \in Requests : WF_vars(Handler(r))) /\ (\A n \in Names : WF_vars(Evict(n)))

-----------------------------------------------------------------------------
\* The collection: key is unique.
Configs == [Keys -> Values \cup {None}]

Filling(r, n) == \E e \in local[r].fill : e.name = n

CallType == [op: AllOps \cup {"none"}, key: Keys \cup {None}, value: Values \cup {None},
             query: Queries \cup {<<>>}, tag: Tags \cup {None}, prefix: Prefixes \cup {{}}]
LocalType == [fill: SUBSET [name: Names, value: Values], drop: SUBSET Names, results: Seq(Values \cup {None})]

\* The collection, the cache and the calls have their types.
TypeOK ==
    /\ db \in Configs /\ cache \in [Names -> Values \cup {None}]
    /\ body \in [Requests -> CallType] /\ local \in [Requests -> LocalType]
    /\ pc \in [Requests -> {"done", "cacheGet", "dbGet", "setex", "upsert", "mget", "dbFind", "scan", "del"}]
    /\ written \in [Keys -> SUBSET Values] /\ unsettled \subseteq Keys /\ existed \in [Requests -> SUBSET Keys]

\* Each value answered, at whatever position of whatever read, was written for the key
\* asked for there: misses, fills and evictions never mix up two keys.
AnswersTheKeyAsked ==
    /\ answer.call.op = "getByKey" => \A i \in DOMAIN answer.results :
        answer.results[i] \in written[answer.call.key] \cup {None}
    /\ answer.call.op = "getByMultiKeys" => \A i \in DOMAIN answer.results :
        answer.results[i] \in written[answer.call.query[i]] \cup {None}

\* A key's own entry is stale at rest only if a cache write of it was overtaken by a
\* newer setByKey, or the cache write of a setByKey failed.
StaleOnlyAfterRace ==
    \A k \in Keys : k \notin unsettled /\ (\A r \in Requests : ~Filling(r, Plain(k)))
        => cache[Plain(k)] \in {None, db[k]}

\* Where each call stands, with what it was asked.
Positions ==
    {"getByKey"} \X {"cacheGet", "dbGet", "setex"} \cup {"setByKey"} \X {"upsert", "setex"}
        \cup {"getByMultiKeys"} \X {"mget", "dbFind", "setex"} \cup {"expireConfigs"} \X {"scan", "del"}
        \cup {<<"keys", "scan">>, <<"none", "done">>}
CallsPlaced ==
    \A r \in Requests :
        /\ <<body[r].op, pc[r]>> \in Positions
        /\ body[r].op \in {"getByKey", "setByKey"} => body[r].key \in Keys
        /\ body[r].op = "setByKey" => body[r].value \in Values
        /\ body[r].op = "getByMultiKeys" => body[r].query \in Queries /\ body[r].tag \in Tags
        /\ pc[r] # "setex" => local[r].fill = {}

\* Whatever a table, a cache entry or a call holds for a key was written for that key.
TablesWritten ==
    /\ \A k \in Keys : db[k] \in written[k] \cup {None}
    /\ \A n \in Names : cache[n] \in written[n[2]] \cup {None}
FillsWritten == \A r \in Requests : \A e \in local[r].fill : e.value \in written[e.name[2]]
ResultsWritten ==
    \A r \in Requests :
        /\ body[r].op = "getByKey" /\ pc[r] # "cacheGet" =>
            local[r].results[1] \in written[body[r].key] \cup {None}
        /\ body[r].op = "getByMultiKeys" /\ pc[r] # "mget" =>
            /\ DOMAIN local[r].results = DOMAIN body[r].query
            /\ \A i \in DOMAIN body[r].query : local[r].results[i] \in written[body[r].query[i]] \cup {None}

\* Unless a cache write of the key was overtaken or lost, every call about to write its entry
\* writes what the collection holds, and an entry that says otherwise has a setByKey under
\* way that will correct it.
Sets(r, k) == body[r].op = "setByKey" /\ Filling(r, Plain(k))
FillsFresh ==
    \A r \in Requests : \A e \in local[r].fill :
        /\ body[r].op = "setByKey" => e.name = Plain(body[r].key)
        /\ \A k \in Keys \ unsettled : e.name = Plain(k) => e.value = db[k]
StaleOnlyBeforeSet ==
    \A k \in Keys \ unsettled : (\A r \in Requests : ~Sets(r, k)) => cache[Plain(k)] \in {None, db[k]}

\* A key that had a document keeps one, so a multi-key read comes back from the collection
\* with a value for it, where the key is asked for last.
AskedLast(q, i) == \A j \in DOMAIN q : q[j] = q[i] => j <= i
DocumentsStay ==
    \A r \in Requests :
        /\ \A k \in existed[r] : db[k] # None
        /\ body[r].op = "getByMultiKeys" /\ pc[r] = "setex" =>
            \A i \in DOMAIN body[r].query :
                body[r].query[i] \in existed[r] /\ AskedLast(body[r].query, i) => local[r].results[i] # None

\* The inductive invariant.
IInv ==
    /\ TypeOK /\ CallsPlaced
    /\ TablesWritten /\ FillsWritten /\ ResultsWritten /\ AnswersTheKeyAsked
    /\ FillsFresh /\ StaleOnlyBeforeSet /\ DocumentsStay

\* getByMultiKeys answers every position whose key had a document when it was asked, except
\* that of a key which the list names again further on: "To return the correctly indexed array
\* of values" holds for the last position of each key only, because the hashmap of missing
\* keys keeps one index per key (ConfigService.getByMultiKeys, keysNotFound).
MultiGetComplete ==
    [][answer'.call.op = "getByMultiKeys" /\ answer'.code = "ok" =>
        \A i \in DOMAIN answer'.results :
            answer'.call.query[i] \in existed[answer'.slot] /\ AskedLast(answer'.call.query, i) =>
                answer'.results[i] # None]_vars

\* Once a key is written no more, all its entries, those of multi-key reads too, agree
\* with the collection for good: races and failed cache writes heal.
CacheHeals ==
    \A n \in Names, v \in Values : <>[](db[n[2]] = v) => <>[](cache[n] \in {None, v})
=============================================================================
