------------------------- MODULE ConfigCacheProofs -------------------------
(***************************************************************************)
(* Proofs about ConfigCache, for every set of calls, keys, values, tags    *)
(* and faults.                                                             *)
(***************************************************************************)
EXTENDS ConfigCache, TLAPS

(***************************************************************************)
(* Types.                                                                  *)
(***************************************************************************)

\* The calls clients make, and what an idle slot has, have their types.
LEMMA ConstantsTyped ==
    NoCall \in CallType /\ NoCall.op = "none" /\ NoLocals \in LocalType /\ NoLocals.fill = {}
BY DEF NoCall, Call, CallType, NoLocals, Locals, LocalType

\* A key's own entry is an entry, of that key.
LEMMA PlainNames == \A k \in Keys : Plain(k) \in Names /\ Plain(k)[2] = k
BY DEF Plain, Names

\* Queries name keys.
LEMMA QueryKeys == \A q \in Queries : q \in Seq(Keys) /\ \A i \in DOMAIN q : q[i] \in Keys
BY QueriesAssumption

\* No two keys share an entry of their own.
LEMMA PlainInjective == \A j, k \in Keys : Plain(j) = Plain(k) => j = k
BY DEF Plain

\* The locals a handler goes on with have their type.
LEMMA LocalsTyped ==
    ASSUME NEW fill \in SUBSET [name: Names, value: Values], NEW drop \in SUBSET Names,
           NEW results \in Seq(Values \cup {None})
    PROVE  /\ Locals(fill, drop, results) \in LocalType
           /\ Locals(fill, drop, results).fill = fill
           /\ Locals(fill, drop, results).results = results
BY DEF LocalType, Locals

\* The invariant holds when nothing has been written or asked.
LEMMA InitInv == Init => IInv
<1>. SUFFICES ASSUME Init PROVE IInv
  OBVIOUS
<1>1. TypeOK
  BY ConstantsTyped DEF Init, TypeOK, Configs
<1>2. CallsPlaced
  BY ConstantsTyped DEF Init, CallsPlaced, Positions
<1>3. TablesWritten
  BY DEF Init, TablesWritten, Names
<1>4. FillsWritten /\ FillsFresh
  BY ConstantsTyped DEF Init, FillsWritten, FillsFresh
<1>5. ResultsWritten
  BY ConstantsTyped DEF Init, ResultsWritten
<1>6. AnswersTheKeyAsked
  BY ConstantsTyped DEF Init, AnswersTheKeyAsked, NoAnswer
<1>7. StaleOnlyBeforeSet
  BY PlainNames DEF Init, StaleOnlyBeforeSet
<1>8. DocumentsStay
  BY ConstantsTyped DEF Init, DocumentsStay
<1>. QED  BY <1>1, <1>2, <1>3, <1>4, <1>5, <1>6, <1>7, <1>8 DEF IInv

(***************************************************************************)
(* The three shapes of a step of a call.                                   *)
(***************************************************************************)

\* A step that only begins a call, ends one or moves it to its next await changes no table.
Quiet == UNCHANGED <<db, cache, written>>

\* A slot that becomes free, with an answer that carries what was written for the keys asked
\* for, keeps the invariant; a setByKey that still had its entry to write leaves its key
\* unsettled.
LEMMA AnswerInv ==
    ASSUME IInv, NEW r \in Requests, NEW code, NEW results, Answer(r, code, results), Quiet,
           unsettled' \subseteq Keys, unsettled \subseteq unsettled',
           \A k \in Keys : Sets(r, k) => k \in unsettled',
           body[r].op = "getByKey" =>
               \A i \in DOMAIN results : results[i] \in written[body[r].key] \cup {None},
           body[r].op = "getByMultiKeys" =>
               \A i \in DOMAIN results : results[i] \in written[body[r].query[i]] \cup {None}
    PROVE  IInv'
<1>1. /\ TypeOK /\ CallsPlaced /\ TablesWritten /\ FillsWritten /\ ResultsWritten
      /\ FillsFresh /\ StaleOnlyBeforeSet /\ DocumentsStay
  BY DEF IInv
<1>2. db' = db /\ cache' = cache /\ written' = written
  BY DEF Quiet
<1>3. /\ pc' = [pc EXCEPT ![r] = "done"] /\ body' = [body EXCEPT ![r] = NoCall]
      /\ local' = [local EXCEPT ![r] = NoLocals] /\ existed' = [existed EXCEPT ![r] = {}]
  BY DEF Answer
<1>4. TypeOK'
  BY <1>1, <1>2, <1>3, ConstantsTyped DEF TypeOK
<1>5. \A s \in Requests :
        IF s = r THEN pc'[s] = "done" /\ body'[s] = NoCall /\ local'[s] = NoLocals /\ existed'[s] = {}
        ELSE pc'[s] = pc[s] /\ body'[s] = body[s] /\ local'[s] = local[s] /\ existed'[s] = existed[s]
  BY <1>1, <1>3 DEF TypeOK
<1>6. NoLocals.fill = {}
  BY ConstantsTyped
<1>7. CallsPlaced'
  BY <1>1, <1>5, <1>6, ConstantsTyped DEF CallsPlaced, Positions
<1>8. TablesWritten'
  BY <1>1, <1>2 DEF TablesWritten
<1>9. FillsWritten'
  BY <1>1, <1>2, <1>5, <1>6 DEF FillsWritten
<1>10. ResultsWritten'
  BY <1>1, <1>2, <1>5, ConstantsTyped DEF ResultsWritten
<1>11. AnswersTheKeyAsked'
  BY <1>2 DEF Answer, AnswersTheKeyAsked
<1>12. FillsFresh'
  BY <1>1, <1>2, <1>5, <1>6 DEF FillsFresh
<1>13. StaleOnlyBeforeSet'
  <2>. SUFFICES ASSUME NEW k \in Keys \ unsettled', \A s \in Requests : ~Sets(s, k)'
                PROVE  cache'[Plain(k)] \in {None, db'[k]}
    BY DEF StaleOnlyBeforeSet
  <2>1. \A s \in Requests \ {r} : Sets(s, k)' <=> Sets(s, k)
    BY <1>5 DEF Sets, Filling
  <2>. QED  BY <1>1, <1>2, <2>1 DEF StaleOnlyBeforeSet
<1>14. DocumentsStay'
  BY <1>1, <1>2, <1>5, ConstantsTyped DEF DocumentsStay
<1>. QED  BY <1>4, <1>7, <1>8, <1>9, <1>10, <1>11, <1>12, <1>13, <1>14 DEF IInv

\* A call that goes on to its next await keeps the invariant, when what it is about to write
\* is what the collection holds now.
LEMMA GotoInv ==
    ASSUME IInv, NEW r \in Requests, NEW at, NEW locals \in LocalType, Goto(r, at, locals), Quiet,
           unsettled' = unsettled,
           <<body[r].op, at>> \in Positions, body[r].op # "setByKey",
           at # "setex" => locals.fill = {},
           \A e \in locals.fill : e.value \in written[e.name[2]],
           \A e \in locals.fill, k \in Keys : e.name = Plain(k) => e.value = db[k],
           body[r].op = "getByKey" => locals.results[1] \in written[body[r].key] \cup {None},
           body[r].op = "getByMultiKeys" =>
               /\ DOMAIN locals.results = DOMAIN body[r].query
               /\ \A i \in DOMAIN body[r].query : locals.results[i] \in written[body[r].query[i]] \cup {None},
           body[r].op = "getByMultiKeys" /\ at = "setex" =>
               \A i \in DOMAIN body[r].query :
                   body[r].query[i] \in existed[r] /\ AskedLast(body[r].query, i) => locals.results[i] # None
    PROVE  IInv'
<1>1. /\ TypeOK /\ CallsPlaced /\ TablesWritten /\ FillsWritten /\ ResultsWritten
      /\ FillsFresh /\ StaleOnlyBeforeSet /\ DocumentsStay
  BY DEF IInv
<1>2. db' = db /\ cache' = cache /\ written' = written
  BY DEF Quiet
<1>3. /\ pc' = [pc EXCEPT ![r] = at] /\ local' = [local EXCEPT ![r] = locals]
      /\ body' = body /\ existed' = existed /\ answer' = NoAnswer
  BY DEF Goto
<1>4. TypeOK'
  <2>1. at \in {"done", "cacheGet", "dbGet", "setex", "upsert", "mget", "dbFind", "scan", "del"}
    BY DEF Positions
  <2>. QED  BY <1>1, <1>2, <1>3, <2>1 DEF TypeOK
<1>5. \A s \in Requests :
        IF s = r THEN pc'[s] = at /\ local'[s] = locals ELSE pc'[s] = pc[s] /\ local'[s] = local[s]
  BY <1>1, <1>3 DEF TypeOK
<1>6. CallsPlaced'
  BY <1>1, <1>3, <1>5 DEF CallsPlaced
<1>7. TablesWritten'
  BY <1>1, <1>2 DEF TablesWritten
<1>8. FillsWritten'
  BY <1>1, <1>2, <1>5 DEF FillsWritten
<1>9. ResultsWritten'
  BY <1>1, <1>2, <1>3, <1>5 DEF ResultsWritten
<1>10. AnswersTheKeyAsked'
  BY <1>3, ConstantsTyped DEF NoAnswer, AnswersTheKeyAsked
<1>11. FillsFresh'
  BY <1>1, <1>2, <1>3, <1>5 DEF FillsFresh
<1>12. StaleOnlyBeforeSet'
  <2>. SUFFICES ASSUME NEW k \in Keys \ unsettled, \A s \in Requests : ~Sets(s, k)'
                PROVE  cache'[Plain(k)] \in {None, db'[k]}
    BY DEF StaleOnlyBeforeSet
  <2>1. \A s \in Requests \ {r} : Sets(s, k)' <=> Sets(s, k)
    BY <1>3, <1>5 DEF Sets, Filling
  <2>2. ~Sets(r, k)
    BY DEF Sets
  <2>. QED  BY <1>1, <1>2, <2>1, <2>2 DEF StaleOnlyBeforeSet
<1>13. DocumentsStay'
  BY <1>1, <1>2, <1>3, <1>5 DEF DocumentsStay
<1>. QED  BY <1>4, <1>6, <1>7, <1>8, <1>9, <1>10, <1>11, <1>12, <1>13 DEF IInv

\* A call that begins in a free slot keeps the invariant.
LEMMA BeginInv ==
    ASSUME IInv, NEW r \in Requests, NEW call \in CallType, NEW at, Begin(r, call, at),
           <<call.op, at>> \in Positions, at \in {"cacheGet", "upsert", "mget", "scan"},
           call.op \in {"getByKey", "setByKey"} => call.key \in Keys,
           call.op = "setByKey" => call.value \in Values,
           call.op = "getByMultiKeys" => call.query \in Queries /\ call.tag \in Tags
    PROVE  IInv'
<1>1. /\ TypeOK /\ CallsPlaced /\ TablesWritten /\ FillsWritten /\ ResultsWritten
      /\ FillsFresh /\ StaleOnlyBeforeSet /\ DocumentsStay
  BY DEF IInv
<1>. DEFINE there == {k \in Keys : db[k] # None /\ \E i \in DOMAIN call.query : call.query[i] = k}
<1>2. /\ body' = [body EXCEPT ![r] = call] /\ pc' = [pc EXCEPT ![r] = at]
      /\ existed' = [existed EXCEPT ![r] = there]
      /\ answer' = NoAnswer /\ UNCHANGED <<db, cache, local, written, unsettled>>
      /\ pc[r] = "done"
  BY DEF Begin, InFlight
<1>3. there \subseteq Keys /\ \A k \in there : db[k] # None
  OBVIOUS
<1>. HIDE DEF there
<1>4. TypeOK'
  BY <1>1, <1>2, <1>3 DEF TypeOK
<1>5. \A s \in Requests :
        IF s = r THEN pc'[s] = at /\ body'[s] = call /\ existed'[s] = there
        ELSE pc'[s] = pc[s] /\ body'[s] = body[s] /\ existed'[s] = existed[s]
  BY <1>1, <1>2 DEF TypeOK
<1>6. local[r].fill = {}
  BY <1>1, <1>2 DEF CallsPlaced
<1>7. CallsPlaced'
  BY <1>1, <1>2, <1>5, <1>6 DEF CallsPlaced
<1>8. TablesWritten'
  BY <1>1, <1>2 DEF TablesWritten
<1>9. FillsWritten'
  BY <1>1, <1>2 DEF FillsWritten
<1>10. ResultsWritten'
  <2>1. /\ call.op = "getByKey" => at = "cacheGet"
        /\ call.op = "getByMultiKeys" => at = "mget"
    BY DEF Positions
  <2>. QED  BY <1>1, <1>2, <1>5, <2>1 DEF ResultsWritten
<1>11. AnswersTheKeyAsked'
  BY <1>2, ConstantsTyped DEF NoAnswer, AnswersTheKeyAsked
<1>12. FillsFresh'
  BY <1>1, <1>2, <1>5, <1>6 DEF FillsFresh
<1>13. StaleOnlyBeforeSet'
  <2>. SUFFICES ASSUME NEW k \in Keys \ unsettled, \A s \in Requests : ~Sets(s, k)'
                PROVE  cache'[Plain(k)] \in {None, db'[k]}
    BY <1>2 DEF StaleOnlyBeforeSet
  <2>1. \A s \in Requests \ {r} : Sets(s, k)' <=> Sets(s, k)
    BY <1>2, <1>5 DEF Sets, Filling
  <2>2. ~Sets(r, k)
    BY <1>6 DEF Sets, Filling
  <2>. QED  BY <1>1, <1>2, <2>1, <2>2 DEF StaleOnlyBeforeSet
<1>14. DocumentsStay'
  BY <1>1, <1>2, <1>3, <1>5 DEF DocumentsStay
<1>. QED  BY <1>4, <1>7, <1>8, <1>9, <1>10, <1>11, <1>12, <1>13, <1>14 DEF IInv

(***************************************************************************)
(* The steps of the calls.                                                 *)
(***************************************************************************)

\* Whatever a client asks for begins where its handler begins.
LEMMA ClientInv == ASSUME IInv, NEW r \in Requests, Client(r) PROVE IInv'
<1>. USE DEF CallType, Call, AllOps, Positions
<1>1. ASSUME NEW k \in Keys, Begin(r, Call("getByKey", k, None, <<>>, None, {}), "cacheGet") PROVE IInv'
  BY <1>1, BeginInv
<1>2. ASSUME NEW k \in Keys, NEW v \in Values, Begin(r, Call("setByKey", k, v, <<>>, None, {}), "upsert")
      PROVE  IInv'
  BY <1>2, BeginInv
<1>3. ASSUME NEW q \in Queries, NEW t \in Tags, Begin(r, Call("getByMultiKeys", None, None, q, t, {}), "mget")
      PROVE  IInv'
  BY <1>3, BeginInv
<1>4. ASSUME NEW op \in {"expireConfigs", "keys"}, NEW p \in Prefixes,
             Begin(r, Call(op, None, None, <<>>, None, p), "scan")
      PROVE  IInv'
  BY <1>4, BeginInv
<1>. QED  BY <1>1, <1>2, <1>3, <1>4 DEF Client

\* getByKey answers what Redis had for its key, or goes on to the collection.
LEMMA CacheGetInv == ASSUME IInv, NEW r \in Requests, CacheGet(r) PROVE IInv'
<1>. DEFINE k == body[r].key
            v == cache[Plain(k)]
<1>1. TypeOK /\ CallsPlaced /\ TablesWritten
  BY DEF IInv
<1>2. body[r].op = "getByKey" /\ pc[r] = "cacheGet" /\ Quiet /\ unsettled' = unsettled
  BY DEF CacheGet, Running, history, Quiet
<1>3. k \in Keys /\ v \in written[k] \cup {None} /\ v \in Values \cup {None}
  BY <1>1, <1>2, PlainNames DEF CallsPlaced, TablesWritten, TypeOK
<1>4. unsettled' \subseteq Keys /\ \A j \in Keys : ~Sets(r, j)
  BY <1>1, <1>2 DEF TypeOK, Sets
<1>5. ASSUME NEW code, Answer(r, code, <<v>>) PROVE IInv'
  BY <1>2, <1>3, <1>4, <1>5, AnswerInv
<1>6. ASSUME Answer(r, "500", <<>>) PROVE IInv'
  BY <1>2, <1>4, <1>6, AnswerInv
<1>7. ASSUME Goto(r, "dbGet", Locals({}, {}, <<v>>)) PROVE IInv'
  <2>. DEFINE locals == Locals({}, {}, <<v>>)
  <2>0. <<v>> \in Seq(Values \cup {None})
    BY <1>3
  <2>. HIDE DEF v
  <2>1. Goto(r, "dbGet", locals) /\ locals \in LocalType
    BY <1>7, <2>0, LocalsTyped
  <2>2. locals.fill = {} /\ locals.results[1] = v
    BY DEF Locals
  <2>3. <<body[r].op, "dbGet">> \in Positions
    BY <1>2 DEF Positions
  <2>. HIDE DEF locals
  <2>. QED  BY <1>2, <1>3, <2>1, <2>2, <2>3, GotoInv
<1>. QED  BY <1>5, <1>6, <1>7 DEF CacheGet, Return

\* getByKey answers that there is no document, or goes on to cache the one it found.
LEMMA DbGetInv == ASSUME IInv, NEW r \in Requests, DbGet(r) PROVE IInv'
<1>. DEFINE k == body[r].key
            v == db[k]
            old == local[r].results[1]
<1>1. TypeOK /\ CallsPlaced /\ TablesWritten /\ ResultsWritten
  BY DEF IInv
<1>2. body[r].op = "getByKey" /\ pc[r] = "dbGet" /\ Quiet /\ unsettled' = unsettled
  BY DEF DbGet, Running, history, Quiet
<1>3. k \in Keys /\ v \in written[k] \cup {None} /\ v \in Values \cup {None} /\ old \in written[k] \cup {None}
  BY <1>1, <1>2 DEF CallsPlaced, TablesWritten, TypeOK, ResultsWritten, Configs
<1>4. unsettled' \subseteq Keys /\ \A j \in Keys : ~Sets(r, j)
  BY <1>1, <1>2 DEF TypeOK, Sets
<1>5. ASSUME NEW code, Answer(r, code, <<old>>) PROVE IInv'
  BY <1>2, <1>3, <1>4, <1>5, AnswerInv
<1>6. ASSUME Answer(r, "500", <<>>) PROVE IInv'
  BY <1>2, <1>4, <1>6, AnswerInv
<1>7. ASSUME v # None, Goto(r, "setex", Locals({Entry(Plain(k), v)}, {}, <<v>>))
      PROVE  IInv'
  <2>. DEFINE fill == {Entry(Plain(k), v)}
              locals == Locals(fill, {}, <<v>>)
  <2>0. <<v>> \in Seq(Values \cup {None}) /\ fill \subseteq [name: Names, value: Values]
    BY <1>3, <1>7, PlainNames DEF Entry
  <2>1. Goto(r, "setex", locals) /\ locals \in LocalType
    BY <1>7, <2>0, LocalsTyped
  <2>2. locals.results[1] = v /\ \A e \in locals.fill : e.name = Plain(k) /\ e.value = v
    BY DEF Locals, Entry
  <2>. HIDE DEF locals
  <2>3. \A e \in locals.fill : e.value \in written[e.name[2]]
    BY <1>3, <1>7, <2>2, PlainNames
  <2>4. \A e \in locals.fill, j \in Keys : e.name = Plain(j) => e.value = db[j]
    BY <1>3, <2>2, PlainInjective
  <2>5. <<body[r].op, "setex">> \in Positions
    BY <1>2 DEF Positions
  <2>. QED  BY <1>2, <1>3, <2>1, <2>2, <2>3, <2>4, <2>5, GotoInv
<1>. QED  BY <1>5, <1>6, <1>7 DEF DbGet, Return

\* setByKey writes the collection: whoever still holds another value for the entry makes the
\* key unsettled, and the call itself holds the new one.
LEMMA UpsertInv == ASSUME IInv, NEW r \in Requests, Upsert(r) PROVE IInv'
<1>. DEFINE k == body[r].key
            v == body[r].value
            locals == Locals({Entry(Plain(k), v)}, {}, <<>>)
<1>1. /\ TypeOK /\ CallsPlaced /\ TablesWritten /\ FillsWritten /\ ResultsWritten
      /\ FillsFresh /\ StaleOnlyBeforeSet /\ DocumentsStay
  BY DEF IInv
<1>2. /\ body[r].op = "setByKey" /\ pc[r] = "upsert"
      /\ db' = [db EXCEPT ![k] = v] /\ cache' = cache /\ written' = [written EXCEPT ![k] = @ \cup {v}]
      /\ unsettled' = IF Overtakes(r, k, v) THEN unsettled \cup {k} ELSE unsettled
      /\ Goto(r, "setex", locals)
  BY DEF Upsert, Running
<1>3. k \in Keys /\ v \in Values /\ v # None
  BY <1>1, <1>2, DistinctAssumption DEF CallsPlaced
<1>4. locals \in LocalType /\ \A e \in locals.fill : e.name = Plain(k) /\ e.value = v
  <2>1. {Entry(Plain(k), v)} \in SUBSET [name: Names, value: Values]
    BY <1>3, PlainNames DEF Entry
  <2>2. <<>> \in Seq(Values \cup {None}) /\ {} \in SUBSET Names
    OBVIOUS
  <2>3. locals \in LocalType /\ locals.fill = {Entry(Plain(k), v)}
    BY <2>1, <2>2 DEF Locals, LocalType
  <2>. HIDE DEF locals
  <2>. QED  BY <2>3 DEF Entry
<1>5. Entry(Plain(k), v) \in locals.fill /\ Entry(Plain(k), v).name = Plain(k)
  BY DEF Locals, Entry
<1>. HIDE DEF k, v, locals
<1>6. /\ pc' = [pc EXCEPT ![r] = "setex"] /\ local' = [local EXCEPT ![r] = locals]
      /\ body' = body /\ existed' = existed /\ answer' = NoAnswer
  BY <1>2 DEF Goto
<1>7. \A s \in Requests :
        IF s = r THEN pc'[s] = "setex" /\ local'[s] = locals ELSE pc'[s] = pc[s] /\ local'[s] = local[s]
  BY <1>1, <1>6 DEF TypeOK
<1>8. \A j \in Keys : IF j = k THEN db'[j] = v /\ written'[j] = written[j] \cup {v}
                      ELSE db'[j] = db[j] /\ written'[j] = written[j]
  BY <1>1, <1>2 DEF TypeOK, Configs
<1>9. unsettled \subseteq unsettled' /\ unsettled' \subseteq Keys
  BY <1>1, <1>2, <1>3 DEF TypeOK
<1>10. TypeOK'
  BY <1>1, <1>2, <1>3, <1>4, <1>6, <1>9 DEF TypeOK, Configs
<1>11. CallsPlaced'
  <2>1. <<"setByKey", "setex">> \in Positions
    BY DEF Positions
  <2>. QED  BY <1>1, <1>2, <1>6, <1>7, <2>1 DEF CallsPlaced
<1>12. TablesWritten'
  BY <1>1, <1>2, <1>8 DEF TablesWritten, Names
<1>13. FillsWritten'
  <2>. SUFFICES ASSUME NEW s \in Requests, NEW e \in local'[s].fill PROVE e.value \in written'[e.name[2]]
    BY DEF FillsWritten
  <2>1. CASE s = r
    BY <1>3, <1>4, <1>7, <1>8, <2>1, PlainNames
  <2>2. CASE s # r
    <3>1. e \in local[s].fill /\ e.value \in written[e.name[2]] /\ e.name[2] \in Keys
      BY <1>1, <1>7, <2>2 DEF FillsWritten, TypeOK, LocalType, Names
    <3>. QED  BY <1>8, <3>1
  <2>. QED  BY <2>1, <2>2
<1>14. ResultsWritten'
  <2>. SUFFICES ASSUME NEW s \in Requests, s # r PROVE
         /\ body[s].op = "getByKey" /\ pc[s] # "cacheGet" =>
             local[s].results[1] \in written'[body[s].key] \cup {None}
         /\ body[s].op = "getByMultiKeys" /\ pc[s] # "mget" =>
             /\ DOMAIN local[s].results = DOMAIN body[s].query
             /\ \A i \in DOMAIN body[s].query : local[s].results[i] \in written'[body[s].query[i]] \cup {None}
    BY <1>2, <1>6, <1>7 DEF ResultsWritten
  <2>1. body[s].op = "getByKey" => body[s].key \in Keys
    BY <1>1 DEF CallsPlaced
  <2>2. body[s].op = "getByMultiKeys" => \A i \in DOMAIN body[s].query : body[s].query[i] \in Keys
    BY <1>1, QueryKeys DEF CallsPlaced
  <2>. QED  BY <1>1, <1>8, <2>1, <2>2 DEF ResultsWritten
<1>15. AnswersTheKeyAsked'
  BY <1>6, ConstantsTyped DEF NoAnswer, AnswersTheKeyAsked
<1>16. FillsFresh'
  <2>. SUFFICES ASSUME NEW s \in Requests, NEW e \in local'[s].fill
                PROVE  /\ body[s].op = "setByKey" => e.name = Plain(body[s].key)
                       /\ \A j \in Keys \ unsettled' : e.name = Plain(j) => e.value = db'[j]
    BY <1>6 DEF FillsFresh
  <2>1. CASE s = r
    BY <1>3, <1>4, <1>7, <1>8, <2>1, PlainInjective DEF k
  <2>2. CASE s # r
    <3>1. e \in local[s].fill
      BY <1>7, <2>2
    <3>2. ASSUME k \notin unsettled', e.name = Plain(k) PROVE e.value = v
      BY <1>2, <2>2, <3>1, <3>2 DEF Overtakes
    <3>. QED  BY <1>1, <1>8, <1>9, <3>1, <3>2 DEF FillsFresh
  <2>. QED  BY <2>1, <2>2
<1>17. StaleOnlyBeforeSet'
  <2>. SUFFICES ASSUME NEW j \in Keys \ unsettled', \A s \in Requests : ~Sets(s, j)'
                PROVE  cache'[Plain(j)] \in {None, db'[j]}
    BY DEF StaleOnlyBeforeSet
  <2>1. \A s \in Requests \ {r} : Sets(s, j)' <=> Sets(s, j)
    BY <1>6, <1>7 DEF Sets, Filling
  <2>2. ~Sets(r, j)
    BY <1>1, <1>2 DEF CallsPlaced, Sets, Filling
  <2>3. j # k
    BY <1>2, <1>5, <1>6, <1>7 DEF Sets, Filling
  <2>. QED  BY <1>1, <1>2, <1>8, <1>9, <2>1, <2>2, <2>3 DEF StaleOnlyBeforeSet
<1>18. DocumentsStay'
  BY <1>1, <1>2, <1>3, <1>6, <1>7, <1>8 DEF DocumentsStay, TypeOK
<1>. QED  BY <1>10, <1>11, <1>12, <1>13, <1>14, <1>15, <1>16, <1>17, <1>18 DEF IInv

\* A cache entry becomes what a call held for it, or is dropped.
LEMMA EntryInv ==
    ASSUME IInv, NEW n \in Names, NEW v \in Values \cup {None}, cache' = [cache EXCEPT ![n] = v],
           v \in written[n[2]] \cup {None},
           \A k \in Keys \ unsettled : n = Plain(k) => v \in {None, db[k]},
           answer' = NoAnswer, UNCHANGED <<db, body, pc, written, unsettled, existed>>,
           local' \in [Requests -> LocalType],
           \A s \in Requests : /\ local'[s].fill \subseteq local[s].fill
                               /\ \A e \in local[s].fill : e \in local'[s].fill \/ e.name = n
                               /\ local'[s].results = local[s].results \/ body[s].op = "expireConfigs"
    PROVE  IInv'
<1>1. /\ TypeOK /\ CallsPlaced /\ TablesWritten /\ FillsWritten /\ ResultsWritten
      /\ FillsFresh /\ StaleOnlyBeforeSet /\ DocumentsStay
  BY DEF IInv
<1>2. TypeOK'
  BY <1>1 DEF TypeOK
<1>3. \A m \in Names : cache'[m] = IF m = n THEN v ELSE cache[m]
  BY <1>1 DEF TypeOK
<1>4. CallsPlaced'
  BY <1>1 DEF CallsPlaced
<1>5. TablesWritten'
  BY <1>1, <1>3 DEF TablesWritten
<1>6. FillsWritten'
  BY <1>1 DEF FillsWritten
<1>7. ResultsWritten'
  BY <1>1 DEF ResultsWritten
<1>8. AnswersTheKeyAsked'
  BY ConstantsTyped DEF NoAnswer, AnswersTheKeyAsked
<1>9. FillsFresh'
  BY <1>1 DEF FillsFresh
<1>10. StaleOnlyBeforeSet'
  <2>. SUFFICES ASSUME NEW k \in Keys \ unsettled, \A s \in Requests : ~Sets(s, k)'
                PROVE  cache'[Plain(k)] \in {None, db[k]}
    BY DEF StaleOnlyBeforeSet
  <2>1. CASE n = Plain(k)
    BY <1>3, <2>1
  <2>2. CASE n # Plain(k)
    <3>1. \A s \in Requests : ~Sets(s, k)
      BY <2>2 DEF Sets, Filling
    <3>. QED  BY <1>1, <1>3, <2>2, <3>1, PlainNames DEF StaleOnlyBeforeSet
  <2>. QED  BY <2>1, <2>2
<1>11. DocumentsStay'
  BY <1>1 DEF DocumentsStay
<1>. QED  BY <1>2, <1>4, <1>5, <1>6, <1>7, <1>8, <1>9, <1>10, <1>11 DEF IInv

\* SETEX writes one of the entries the call holds.
LEMMA SetexInv == ASSUME IInv, NEW r \in Requests, Setex(r) PROVE IInv'
<1>1. TypeOK /\ CallsPlaced /\ FillsWritten /\ FillsFresh
  BY DEF IInv
<1>2. PICK e \in local[r].fill :
        /\ cache' = [cache EXCEPT ![e.name] = e.value]
        /\ Sends(r, Locals(local[r].fill \ {e}, {}, local[r].results))
  BY DEF Setex
<1>. DEFINE locals == Locals(local[r].fill \ {e}, {}, local[r].results)
<1>3. /\ e.name \in Names /\ e.value \in Values /\ e.value \in written[e.name[2]]
      /\ \A k \in Keys \ unsettled : e.name = Plain(k) => e.value = db[k]
  BY <1>1 DEF TypeOK, LocalType, FillsWritten, FillsFresh
<1>4. locals \in LocalType /\ locals.fill = local[r].fill \ {e} /\ locals.results = local[r].results
  <2>1. /\ local[r].fill \ {e} \in SUBSET [name: Names, value: Values] /\ {} \in SUBSET Names
        /\ local[r].results \in Seq(Values \cup {None})
    BY <1>1 DEF TypeOK, LocalType
  <2>. QED  BY <2>1, LocalsTyped
<1>5. local' = [local EXCEPT ![r] = locals] /\ answer' = NoAnswer /\ UNCHANGED <<db, body, pc, written, unsettled, existed>>
  BY <1>2 DEF Setex, Sends, history
<1>. HIDE DEF locals
<1>6. local' \in [Requests -> LocalType]
  BY <1>1, <1>4, <1>5 DEF TypeOK
<1>7. \A s \in Requests : local'[s] = IF s = r THEN locals ELSE local[s]
  BY <1>1, <1>5 DEF TypeOK
<1>8. \A s \in Requests : /\ local'[s].fill \subseteq local[s].fill
                          /\ \A d \in local[s].fill : d \in local'[s].fill \/ d.name = e.name
                          /\ local'[s].results = local[s].results
  BY <1>4, <1>7
<1>. DEFINE n == e.name
            v == e.value
<1>9. /\ n \in Names /\ v \in Values \cup {None} /\ v \in written[n[2]] \cup {None}
      /\ cache' = [cache EXCEPT ![n] = v]
      /\ \A k \in Keys \ unsettled : n = Plain(k) => v \in {None, db[k]}
  BY <1>2, <1>3
<1>10. \A s \in Requests : /\ local'[s].fill \subseteq local[s].fill
                           /\ \A d \in local[s].fill : d \in local'[s].fill \/ d.name = n
                           /\ local'[s].results = local[s].results \/ body[s].op = "expireConfigs"
  BY <1>8
<1>. HIDE DEF n, v
<1>. QED  BY <1>5, <1>6, <1>9, <1>10, EntryInv

\* DEL drops one of the entries the scan found.
LEMMA DelInv == ASSUME IInv, NEW r \in Requests, Del(r) PROVE IInv'
<1>1. TypeOK /\ CallsPlaced
  BY DEF IInv
<1>2. PICK n \in local[r].drop :
        cache' = [cache EXCEPT ![n] = None] /\ Sends(r, Locals({}, local[r].drop \ {n}, <<>>))
  BY DEF Del
<1>. DEFINE locals == Locals({}, local[r].drop \ {n}, <<>>)
<1>3. body[r].op = "expireConfigs" /\ pc[r] = "del" /\ local[r].fill = {} /\ n \in Names
  BY <1>1 DEF Del, Running, CallsPlaced, TypeOK, LocalType
<1>4. locals \in LocalType /\ locals.fill = {}
  <2>1. <<>> \in Seq(Values \cup {None}) /\ {} \in SUBSET [name: Names, value: Values]
    OBVIOUS
  <2>. QED  BY <1>1, <2>1, LocalsTyped DEF TypeOK, LocalType
<1>5. local' = [local EXCEPT ![r] = locals] /\ answer' = NoAnswer /\ UNCHANGED <<db, body, pc, written, unsettled, existed>>
  BY <1>2 DEF Del, Sends, history
<1>. HIDE DEF locals
<1>6. local' \in [Requests -> LocalType]
  BY <1>1, <1>4, <1>5 DEF TypeOK
<1>7. \A s \in Requests : local'[s] = IF s = r THEN locals ELSE local[s]
  BY <1>1, <1>5 DEF TypeOK
<1>8. \A s \in Requests : /\ local'[s].fill \subseteq local[s].fill
                          /\ \A d \in local[s].fill : d \in local'[s].fill \/ d.name = n
                          /\ local'[s].results = local[s].results \/ body[s].op = "expireConfigs"
  BY <1>3, <1>4, <1>7
<1>. QED  BY <1>2, <1>3, <1>5, <1>6, <1>8, EntryInv

\* An entry expires.
LEMMA EvictInv == ASSUME IInv, NEW n \in Names, Evict(n) PROVE IInv'
<1>1. local \in [Requests -> LocalType]
  BY DEF IInv, TypeOK
<1>. QED  BY <1>1, EntryInv DEF Evict, history

\* The writes are done: getByKey returns what it found, the others what they had gathered.
LEMMA SetexDoneInv == ASSUME IInv, NEW r \in Requests, SetexDone(r) PROVE IInv'
<1>. DEFINE v == local[r].results[1]
<1>1. TypeOK /\ CallsPlaced /\ ResultsWritten
  BY DEF IInv
<1>2. pc[r] = "setex" /\ local[r].fill = {} /\ Quiet /\ unsettled' = unsettled
  BY DEF SetexDone, history, Quiet
<1>3. unsettled' \subseteq Keys /\ \A j \in Keys : ~Sets(r, j)
  BY <1>1, <1>2 DEF TypeOK, Sets, Filling
<1>4. CASE body[r].op = "getByKey"
  <2>1. v \in written[body[r].key] \cup {None}
    BY <1>1, <1>2, <1>4 DEF ResultsWritten
  <2>2. ASSUME Answer(r, "ok", <<v>>) PROVE IInv'
    BY <1>2, <1>3, <1>4, <2>1, <2>2, AnswerInv
  <2>3. ASSUME Answer(r, "500", <<>>) PROVE IInv'
    BY <1>2, <1>3, <2>3, AnswerInv
  <2>. QED  BY <1>4, <2>2, <2>3 DEF SetexDone, Return
<1>5. CASE body[r].op # "getByKey"
  <2>1. Answer(r, "ok", local[r].results)
    BY <1>5 DEF SetexDone
  <2>2. body[r].op = "getByMultiKeys" =>
          \A i \in DOMAIN local[r].results : local[r].results[i] \in written[body[r].query[i]] \cup {None}
    BY <1>1, <1>2 DEF ResultsWritten
  <2>. QED  BY <1>2, <1>3, <1>5, <2>1, <2>2, AnswerInv
<1>. QED  BY <1>4, <1>5

\* A multi-key read takes each position from the entry of its own key.
LEMMA MGetInv == ASSUME IInv, NEW r \in Requests, MGet(r) PROVE IInv'
<1>. DEFINE q == body[r].query
            cached(k) == cache[<<body[r].tag, k>>]
            results == [i \in DOMAIN q |-> IF Found(cached(q[i])) THEN cached(q[i]) ELSE None]
<1>1. TypeOK /\ CallsPlaced /\ TablesWritten
  BY DEF IInv
<1>2. body[r].op = "getByMultiKeys" /\ pc[r] = "mget" /\ Quiet /\ unsettled' = unsettled
  BY DEF MGet, Running, history, Quiet
<1>3. unsettled' \subseteq Keys /\ \A j \in Keys : ~Sets(r, j)
  BY <1>1, <1>2 DEF TypeOK, Sets
<1>4. q \in Seq(Keys) /\ (\A i \in DOMAIN q : q[i] \in Keys) /\ body[r].tag \in Tags
  BY <1>1, <1>2, QueryKeys DEF CallsPlaced
<1>5. \A k \in Keys : cached(k) \in written[k] \cup {None} /\ cached(k) \in Values \cup {None}
  BY <1>1, <1>4 DEF TablesWritten, TypeOK, Names
<1>. HIDE DEF q, cached
<1>6. /\ DOMAIN results = DOMAIN q /\ results \in Seq(Values \cup {None})
      /\ \A i \in DOMAIN q : results[i] \in written[q[i]] \cup {None}
  BY <1>4, <1>5
<1>7. MGet(r) => Answer(r, "ok", results) \/ Goto(r, "dbFind", Locals({}, {}, results))
  BY DEF MGet, q, cached
<1>. HIDE DEF results
<1>8. ASSUME Answer(r, "ok", results) PROVE IInv'
  BY <1>2, <1>3, <1>6, <1>8, AnswerInv DEF q
<1>9. ASSUME Goto(r, "dbFind", Locals({}, {}, results)) PROVE IInv'
  <2>. DEFINE locals == Locals({}, {}, results)
  <2>1. locals \in LocalType /\ locals.fill = {} /\ locals.results = results
    BY <1>6 DEF Locals, LocalType
  <2>2. <<body[r].op, "dbFind">> \in Positions
    BY <1>2 DEF Positions
  <2>. HIDE DEF locals
  <2>3. Goto(r, "dbFind", locals)
    BY <1>9 DEF locals
  <2>. QED  BY <1>2, <1>6, <2>1, <2>2, <2>3, GotoInv DEF q
<1>. QED  BY <1>7, <1>8, <1>9

\* What the collection has for the missing keys is put where each key was asked for last, and
\* is what the call will write.
LEMMA DbFindInv == ASSUME IInv, NEW r \in Requests, DbFind(r) PROVE IInv'
<1>. DEFINE q == body[r].query
            old == local[r].results
            found == {k \in Missing(q, old) : db[k] # None}
            keyAt(i) == {k \in found : IsLastIndex(q, k, i)}
            results == [i \in DOMAIN q |-> IF keyAt(i) = {} THEN old[i] ELSE db[CHOOSE k \in keyAt(i) : TRUE]]
            fill == {Entry(<<body[r].tag, k>>, db[k]) : k \in found}
            locals == Locals(fill, {}, results)
<1>1. TypeOK /\ CallsPlaced /\ TablesWritten /\ ResultsWritten
  BY DEF IInv
<1>2. body[r].op = "getByMultiKeys" /\ pc[r] = "dbFind" /\ Quiet /\ unsettled' = unsettled
  BY DEF DbFind, Running, history, Quiet
<1>3. unsettled' \subseteq Keys /\ \A j \in Keys : ~Sets(r, j)
  BY <1>1, <1>2 DEF TypeOK, Sets
<1>4. q \in Seq(Keys) /\ (\A i \in DOMAIN q : q[i] \in Keys) /\ body[r].tag \in Tags
  BY <1>1, <1>2, QueryKeys DEF CallsPlaced
<1>5. \A k \in Keys : db[k] \in written[k] \cup {None} /\ db[k] \in Values \cup {None}
  BY <1>1 DEF TablesWritten, TypeOK, Configs
<1>6. /\ DOMAIN old = DOMAIN q /\ old \in Seq(Values \cup {None})
      /\ \A i \in DOMAIN q : old[i] \in written[q[i]] \cup {None}
  BY <1>1, <1>2 DEF ResultsWritten, TypeOK, LocalType
<1>7. \A k \in found : k \in Keys /\ db[k] # None /\ \E i \in DOMAIN q : q[i] = k /\ old[i] = None
  BY <1>4 DEF Missing
<1>8. DbFind(r) => Answer(r, "500", <<>>) \/ Goto(r, "setex", locals)
  BY DEF DbFind
<1>9. \A i \in DOMAIN q : results[i] = old[i] \/ (results[i] = db[q[i]] /\ q[i] \in found)
  <2>. SUFFICES ASSUME NEW i \in DOMAIN q, keyAt(i) # {} PROVE results[i] = db[q[i]] /\ q[i] \in found
    OBVIOUS
  <2>1. \A k \in keyAt(i) : k = q[i] /\ k \in found
    BY DEF IsLastIndex
  <2>2. (CHOOSE k \in keyAt(i) : TRUE) = q[i]
    BY <2>1
  <2>. QED  BY <2>1, <2>2
<1>10. \A i \in DOMAIN q : db[q[i]] # None /\ AskedLast(q, i) => results[i] # None
  <2>. SUFFICES ASSUME NEW i \in DOMAIN q, db[q[i]] # None, AskedLast(q, i) PROVE results[i] # None
    OBVIOUS
  <2>1. CASE old[i] # None
    BY <1>7, <1>9, <2>1
  <2>2. CASE old[i] = None
    <3>1. q[i] \in found
      BY <1>6, <2>2 DEF Missing
    <3>2. IsLastIndex(q, q[i], i)
      BY DEF AskedLast, IsLastIndex
    <3>3. q[i] \in keyAt(i)
      BY <3>1, <3>2
    <3>4. results[i] = db[CHOOSE k \in keyAt(i) : TRUE] /\ (CHOOSE k \in keyAt(i) : TRUE) \in found
      BY <3>3
    <3>. QED  BY <1>7, <3>4
  <2>. QED  BY <2>1, <2>2
<1>11. DOMAIN results = DOMAIN q
  OBVIOUS
<1>12. \A e \in fill : \E k \in found : e = Entry(<<body[r].tag, k>>, db[k])
  OBVIOUS
<1>. HIDE DEF found
<1>13. results \in Seq(Values \cup {None})
  <2>1. \A i \in DOMAIN q : results[i] \in Values \cup {None}
    <3>1. \A i \in DOMAIN q : old[i] \in Values \cup {None} /\ db[q[i]] \in Values \cup {None}
      BY <1>4, <1>5, <1>6
    <3>. QED  BY <1>9, <3>1
  <2>2. results = [i \in DOMAIN q |-> results[i]]
    OBVIOUS
  <2>3. DOMAIN q = 1..Len(q) /\ Len(q) \in Nat
    BY <1>4
  <2>. HIDE DEF results, q
  <2>. QED  BY <2>1, <2>2, <2>3
<1>. HIDE DEF q, old, results, fill
<1>14. fill \in SUBSET [name: Names, value: Values]
  BY <1>4, <1>5, <1>7, <1>12 DEF Entry, Names
<1>15. \A e \in fill : /\ e.value \in written[e.name[2]]
                       /\ \A k \in Keys : e.name # Plain(k)
  BY <1>4, <1>5, <1>7, <1>12, DistinctAssumption DEF Entry, Plain
<1>16. locals \in LocalType /\ locals.fill = fill /\ locals.results = results
  BY <1>13, <1>14 DEF Locals, LocalType
<1>17. \A i \in DOMAIN q : results[i] \in written[q[i]] \cup {None}
  BY <1>4, <1>5, <1>6, <1>9
<1>. HIDE DEF locals
<1>18. ASSUME Answer(r, "500", <<>>) PROVE IInv'
  BY <1>2, <1>3, <1>18, AnswerInv
<1>19. ASSUME Goto(r, "setex", locals) PROVE IInv'
  <2>1. <<body[r].op, "setex">> \in Positions
    BY <1>2 DEF Positions
  <2>2. \A i \in DOMAIN q : q[i] \in existed[r] /\ AskedLast(q, i) => results[i] # None
    BY <1>10 DEF IInv, DocumentsStay
  <2>. QED  BY <1>2, <1>11, <1>15, <1>16, <1>17, <1>19, <2>1, <2>2, GotoInv DEF q
<1>. QED  BY <1>8, <1>18, <1>19

\* Looking for entries, and having dropped them all, change no table.
LEMMA ScanInv == ASSUME IInv, NEW r \in Requests, Scan(r) \/ DelDone(r) PROVE IInv'
<1>. DEFINE names == {n \in body[r].prefix : cache[n] # None}
<1>1. TypeOK /\ CallsPlaced
  BY DEF IInv
<1>2. body[r].op \in {"expireConfigs", "keys"} /\ Quiet /\ unsettled' = unsettled
  BY DEF Scan, DelDone, Running, history, Quiet
<1>3. unsettled' \subseteq Keys /\ \A j \in Keys : ~Sets(r, j)
  BY <1>1, <1>2 DEF TypeOK, Sets
<1>4. ASSUME Answer(r, "ok", <<>>) PROVE IInv'
  BY <1>2, <1>3, <1>4, AnswerInv
<1>5. ASSUME body[r].op = "expireConfigs", Goto(r, "del", Locals({}, names, <<>>)) PROVE IInv'
  <2>. DEFINE locals == Locals({}, names, <<>>)
  <2>1. names \in SUBSET Names
    BY <1>1, PrefixesAssumption DEF TypeOK, CallType
  <2>. HIDE DEF names
  <2>2. <<>> \in Seq(Values \cup {None})
    OBVIOUS
  <2>3. locals \in LocalType /\ locals.fill = {}
    BY <2>1, <2>2 DEF Locals, LocalType
  <2>4. <<body[r].op, "del">> \in Positions
    BY <1>5 DEF Positions
  <2>. HIDE DEF locals
  <2>5. Goto(r, "del", locals)
    BY <1>5 DEF locals
  <2>. QED  BY <1>2, <1>5, <2>3, <2>4, <2>5, GotoInv
<1>. QED  BY <1>4, <1>5 DEF Scan, DelDone

\* A call that fails before its entry is written leaves its key unsettled.
LEMMA FailInv == ASSUME IInv, NEW r \in Requests, Fail(r) PROVE IInv'
<1>1. TypeOK /\ CallsPlaced /\ FillsFresh
  BY DEF IInv
<1>2. /\ Answer(r, "500", <<>>) /\ Quiet
      /\ unsettled' = IF Running(r, "setByKey", "setex") THEN unsettled \cup {body[r].key} ELSE unsettled
  BY DEF Fail, Quiet
<1>3. unsettled' \subseteq Keys /\ unsettled \subseteq unsettled'
  BY <1>1, <1>2 DEF TypeOK, CallsPlaced, Running
<1>4. ASSUME NEW k \in Keys, Sets(r, k) PROVE k \in unsettled'
  <2>1. body[r].op = "setByKey" /\ body[r].key \in Keys /\ Plain(k) = Plain(body[r].key)
    BY <1>1, <1>4 DEF Sets, Filling, FillsFresh, CallsPlaced
  <2>2. pc[r] = "setex"
    BY <1>1, <1>4 DEF Sets, Filling, CallsPlaced
  <2>3. k = body[r].key
    BY <2>1, PlainInjective
  <2>. QED  BY <1>2, <2>1, <2>2, <2>3 DEF Running
<1>. QED  BY <1>2, <1>3, <1>4, AnswerInv

\* Every step keeps the invariant.
LEMMA StepInv == ASSUME IInv, [Next]_vars PROVE IInv'
<1>1. CASE UNCHANGED vars
  <2>. USE <1>1 DEF IInv, vars
  <2>1. TypeOK'
    BY DEF TypeOK
  <2>2. CallsPlaced'
    BY DEF CallsPlaced
  <2>3. TablesWritten' /\ FillsWritten' /\ ResultsWritten' /\ AnswersTheKeyAsked'
    BY DEF TablesWritten, FillsWritten, ResultsWritten, AnswersTheKeyAsked
  <2>4. FillsFresh' /\ StaleOnlyBeforeSet' /\ DocumentsStay'
    BY DEF FillsFresh, StaleOnlyBeforeSet, Sets, Filling, DocumentsStay
  <2>. QED  BY <2>1, <2>2, <2>3, <2>4
<1>2. ASSUME NEW r \in Requests, Handler(r) PROVE IInv'
  BY <1>2, CacheGetInv, DbGetInv, UpsertInv, MGetInv, DbFindInv, SetexInv, SetexDoneInv, ScanInv, DelInv
     DEF Handler
<1>. QED  BY <1>1, <1>2, ClientInv, FailInv, EvictInv DEF Next

\* Tables, cache and calls hold, for every key, only what was written for it; and whatever
\* would leave an entry stale is either still to be corrected or recorded as a race.
THEOREM Invariant == Spec => []IInv
<1>. QED  BY InitInv, StepInv, PTL DEF Spec

-----------------------------------------------------------------------------
\* No read, of one key or of many, answers with a value that was not written for the key
\* asked for at that position.
THEOREM OwnKeys == Spec => []AnswersTheKeyAsked
<1>1. IInv => AnswersTheKeyAsked
  BY DEF IInv
<1>. QED  BY <1>1, Invariant, PTL

\* An entry at rest is stale only after a lost or overtaken cache write.
THEOREM StaleEntries == Spec => []StaleOnlyAfterRace
<1>1. ASSUME IInv PROVE StaleOnlyAfterRace
  BY <1>1 DEF IInv, StaleOnlyBeforeSet, StaleOnlyAfterRace, Sets
<1>. QED  BY <1>1, Invariant, PTL

\* A multi-key read answers every position whose key had a document when it began, where the
\* list names the key for the last time; further up it may leave a hole.
THEOREM MultiGet == Spec => MultiGetComplete
<1>. DEFINE Complete ==
        answer'.call.op = "getByMultiKeys" /\ answer'.code = "ok" =>
            \A i \in DOMAIN answer'.results :
                answer'.call.query[i] \in existed[answer'.slot] /\ AskedLast(answer'.call.query, i) =>
                    answer'.results[i] # None
<1>1. ASSUME NEW r \in Requests, NEW code, NEW results, Answer(r, code, results),
             body[r].op = "getByMultiKeys" /\ code = "ok" =>
                 \A i \in DOMAIN results :
                     body[r].query[i] \in existed[r] /\ AskedLast(body[r].query, i) => results[i] # None
      PROVE  Complete
  BY <1>1 DEF Answer
<1>2. ASSUME answer' = NoAnswer PROVE Complete
  BY <1>2, ConstantsTyped DEF NoAnswer
<1>3. ASSUME IInv, Next PROVE Complete
  <2>1. ASSUME NEW r \in Requests, Client(r) PROVE answer' = NoAnswer
    BY <2>1 DEF Client, Begin
  <2>2. ASSUME NEW r \in Requests, MGet(r) PROVE Complete
    <3>. DEFINE q == body[r].query
                cached(k) == cache[<<body[r].tag, k>>]
                results == [i \in DOMAIN q |-> IF Found(cached(q[i])) THEN cached(q[i]) ELSE None]
    <3>1. (Missing(q, results) = {} /\ Answer(r, "ok", results)) \/ answer' = NoAnswer
      BY <2>2 DEF MGet, Goto
    <3>2. DOMAIN results = DOMAIN q
      OBVIOUS
    <3>. HIDE DEF results
    <3>3. Missing(q, results) = {} => \A i \in DOMAIN q : results[i] # None
      BY DEF Missing
    <3>. HIDE DEF Complete, q
    <3>. QED  BY <1>1, <1>2, <3>1, <3>2, <3>3
  <2>3. ASSUME NEW r \in Requests, SetexDone(r), body[r].op = "getByMultiKeys" PROVE Complete
    <3>1. Answer(r, "ok", local[r].results) /\ pc[r] = "setex"
      BY <2>3 DEF SetexDone
    <3>2. DOMAIN local[r].results = DOMAIN body[r].query
      BY <1>3, <2>3, <3>1 DEF IInv, ResultsWritten, CallsPlaced
    <3>3. \A i \in DOMAIN body[r].query :
             body[r].query[i] \in existed[r] /\ AskedLast(body[r].query, i) => local[r].results[i] # None
      BY <1>3, <2>3, <3>1, <3>2 DEF IInv, DocumentsStay
    <3>. HIDE DEF Complete
    <3>. QED  BY <1>1, <3>1, <3>2, <3>3
  <2>4. ASSUME NEW r \in Requests, DbFind(r) PROVE Complete
    <3>1. Answer(r, "500", <<>>) \/ answer' = NoAnswer
      BY <2>4 DEF DbFind, Goto
    <3>. HIDE DEF Complete
    <3>. QED  BY <1>1, <1>2, <3>1
  <2>5. ASSUME NEW r \in Requests,
               CacheGet(r) \/ DbGet(r) \/ Scan(r) \/ DelDone(r) \/ (SetexDone(r) /\ body[r].op # "getByMultiKeys")
        PROVE  Complete
    <3>1. \/ body[r].op # "getByMultiKeys" /\ \E code, results : Answer(r, code, results)
          \/ answer' = NoAnswer
      BY <2>5 DEF CacheGet, DbGet, Scan, DelDone, SetexDone, Return, Goto, Running
    <3>. HIDE DEF Complete
    <3>. QED  BY <1>1, <1>2, <3>1
  <2>6. ASSUME NEW r \in Requests, Fail(r) PROVE Complete
    <3>1. Answer(r, "500", <<>>)
      BY <2>6 DEF Fail
    <3>. HIDE DEF Complete
    <3>. QED  BY <1>1, <3>1
  <2>7. ASSUME NEW r \in Requests, Upsert(r) \/ Setex(r) \/ Del(r) PROVE answer' = NoAnswer
    BY <2>7 DEF Upsert, Setex, Del, Goto, Sends
  <2>8. ASSUME NEW n \in Names, Evict(n) PROVE answer' = NoAnswer
    BY <2>8 DEF Evict
  <2>. HIDE DEF Complete
  <2>. QED  BY <1>2, <1>3, <2>1, <2>2, <2>3, <2>4, <2>5, <2>6, <2>7, <2>8 DEF Next, Handler
<1>. QED  BY <1>3, Invariant, PTL DEF Spec, MultiGetComplete
=============================================================================
