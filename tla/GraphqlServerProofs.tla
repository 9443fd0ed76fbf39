------------------------ MODULE GraphqlServerProofs ------------------------
(***************************************************************************)
(* Proofs about GraphqlServer, for every number of requests, keys and      *)
(* batches, and for every way sessions and items change.                   *)
(***************************************************************************)
EXTENDS GraphqlServer, FiniteSetTheorems, TLAPS

(***************************************************************************)
(* What a batch says.                                                      *)
(***************************************************************************)

\* A sequence has finitely many elements.
LEMMA KeysFinite == \A s \in Seq(Keys) : IsFiniteSet(ToSet(s))
<1>. SUFFICES ASSUME NEW s \in Seq(Keys) PROVE IsFiniteSet(ToSet(s))
  OBVIOUS
<1>1. s \in [1..Len(s) -> ToSet(s)] /\ Len(s) \in Nat /\ \A k \in ToSet(s) : \E i \in 1..Len(s) : s[i] = k
  BY DEF ToSet
<1>2. s \in Surjection(1..Len(s), ToSet(s))
  BY <1>1 DEF Surjection
<1>. QED  BY <1>1, <1>2, FS_NatSurjection DEF ExistsSurjection

\* Appending a key to a sequence adds it to those asked for.
LEMMA AppendKeys ==
    ASSUME NEW s \in Seq(Keys), NEW k \in Keys
    PROVE  Append(s, k) \in Seq(Keys) /\ ToSet(Append(s, k)) = ToSet(s) \cup {k}
<1>1. /\ Append(s, k) \in Seq(Keys) /\ DOMAIN Append(s, k) = 1..(Len(s) + 1) /\ DOMAIN s = 1..Len(s) /\ Len(s) \in Nat
      /\ Append(s, k)[Len(s) + 1] = k /\ \A i \in 1..Len(s) : Append(s, k)[i] = s[i]
  OBVIOUS
<1>. QED  BY <1>1 DEF ToSet

\* Whatever the order the service answers in, each key is matched with its own item, and a
\* key without an item with nothing.
LEMMA OrderMatches ==
    ASSUME NEW ks \in Seq(Keys), NEW now \in [Keys -> Values \cup {None}],
           NEW order \in SetToSeqs({k \in ToSet(ks) : now[k] # None})
    PROVE  LET items == [i \in DOMAIN order |-> [key |-> order[i], value |-> now[order[i]]]]
           IN  /\ ItemsOK(items)
               /\ \A k \in ToSet(ks) : Match(ks, items, k) = now[k]
<1>. DEFINE there == {k \in ToSet(ks) : now[k] # None}
            n == Cardinality(there)
            items == [i \in DOMAIN order |-> [key |-> order[i], value |-> now[order[i]]]]
<1>1. there \in SUBSET ToSet(ks) /\ IsFiniteSet(ToSet(ks)) /\ ToSet(ks) \subseteq Keys
  BY KeysFinite DEF ToSet
<1>2. IsFiniteSet(there)
  BY <1>1, FS_Subset
<1>3. \A k \in there : k \in Keys /\ now[k] \in Values
  BY <1>1
<1>4. order \in [1..n -> there] /\ \A i, j \in 1..n : i # j => order[i] # order[j]
  BY DEF SetToSeqs
<1>. HIDE DEF there
<1>5. n \in Nat /\ IsFiniteSet(1..n) /\ Cardinality(1..n) = n
  BY <1>2, FS_CardinalityType, FS_Interval
<1>6. order \in Injection(1..n, there)
  BY <1>4 DEF Injection, IsInjective
<1>7. order \in Surjection(1..n, there)
  BY <1>2, <1>5, <1>6, FS_Injection
<1>8. \A k \in there : \E i \in 1..n : order[i] = k
  BY <1>7 DEF Surjection
<1>. HIDE DEF n
<1>9. /\ DOMAIN items = 1..n
      /\ \A i \in 1..n : items[i] = [key |-> order[i], value |-> now[order[i]]]
      /\ items = [i \in 1..n |-> items[i]]
  BY <1>4
<1>10. \A i \in 1..n : items[i] \in [key: Keys, value: Values]
  BY <1>3, <1>4, <1>9
<1>. HIDE DEF items
<1>11. items \in Seq([key: Keys, value: Values])
  <2>1. items \in [1..n -> [key: Keys, value: Values]]
    BY <1>9, <1>10
  <2>. DEFINE Found == [key: Keys, value: Values]
  <2>2. items \in [1..n -> Found] /\ n \in Nat
    BY <1>5, <2>1
  <2>. HIDE DEF Found
  <2>3. items \in Seq(Found)
    BY <2>2
  <2>. QED  BY <2>3 DEF Found
<1>12. ASSUME NEW k \in ToSet(ks) PROVE Match(ks, items, k) = now[k]
  <2>. DEFINE own == {i \in DOMAIN items : items[i].key = k}
              first == CHOOSE i \in own : \A j \in own : i <= j
  <2>0. Match(ks, items, k) = IF own = {} THEN None ELSE items[first].value
    BY DEF Match
  <2>1. CASE k \in there
    <3>1. PICK i \in 1..n : order[i] = k
      BY <1>8, <2>1
    <3>2. own = {i}
      BY <1>4, <1>9, <3>1
    <3>. HIDE DEF own
    <3>3. first = i
      BY <1>5, <3>2
    <3>. HIDE DEF first
    <3>. QED  BY <1>9, <2>0, <3>1, <3>2, <3>3
  <2>2. CASE k \notin there
    <3>1. own = {}
      BY <1>4, <1>9, <2>2
    <3>2. now[k] = None
      BY <2>2 DEF there
    <3>. HIDE DEF own
    <3>. QED  BY <2>0, <3>1, <3>2
  <2>. QED  BY <2>1, <2>2
<1>13. ItemsOK(items)
  BY <1>4, <1>9, <1>11 DEF ItemsOK
<1>. QED  BY <1>12, <1>13 DEF items

\* Where no items were found, no key is matched.
LEMMA MatchNothing == ItemsOK(<<>>) /\ \A ks, k : Match(ks, <<>>, k) = None
BY DEF Match, ItemsOK

\* Matching gives what an item says, or nothing.
LEMMA MatchTyped ==
    ASSUME NEW ks, NEW items, ItemsOK(items), NEW k
    PROVE  Match(ks, items, k) \in Values \cup {None}
<1>. DEFINE own == {i \in DOMAIN items : items[i].key = k}
            first == CHOOSE i \in own : \A j \in own : i <= j
<1>1. Match(ks, items, k) = IF own = {} THEN None ELSE items[first].value
  BY DEF Match
<1>2. \A i \in DOMAIN items : i \in Nat /\ items[i].value \in Values
  <2>. DEFINE Found == [key: Keys, value: Values]
  <2>1. items \in Seq(Found) /\ \A found \in Found : found.value \in Values
    BY DEF ItemsOK
  <2>. HIDE DEF Found
  <2>2. Len(items) \in Nat /\ DOMAIN items = 1..Len(items) /\ \A i \in 1..Len(items) : items[i] \in Found
    BY <2>1
  <2>. QED  BY <2>1, <2>2
<1>3. CASE own # {}
  <2>1. PICK i \in DOMAIN items : own = {i}
    BY <1>3 DEF ItemsOK
  <2>. HIDE DEF own
  <2>2. first = i
    BY <1>2, <2>1
  <2>. HIDE DEF first
  <2>. QED  BY <1>1, <1>2, <1>3, <2>1, <2>2
<1>. HIDE DEF own, first
<1>. QED  BY <1>1, <1>3

\* A promise may say more when more may be told.
LEMMA MaySayMore ==
    ASSUME NEW p, NEW k, NEW told, NEW now, MaySay(p, k, told, now),
           NEW more, told \subseteq more, NEW then \in more
    PROVE  MaySay(p, k, more, then)
BY DEF MaySay

(***************************************************************************)
(* The shapes of a step.                                                   *)
(***************************************************************************)

\* The invariant holds before the first request.
LEMMA InitInv == Init => IInv
<1>. SUFFICES ASSUME Init PROVE IInv
  OBVIOUS
<1>1. NoBatch = Batch(NoBatch.state, NoBatch.keys, NoBatch.found) /\ NoBatch.state = "none" /\ NoBatch.found = <<>>
  BY DEF NoBatch, Batch
<1>2. BatchOK(NoBatch)
  BY MatchNothing DEF BatchOK, NoBatch, Batch
<1>3. NoRequest \in RequestType /\ Anonymous \in LocalType /\ Anonymous.credentials = None
  BY DEF NoRequest, Request, RequestType, Anonymous, Locals, LocalType
<1>4. batch = [b \in Batches |-> Batch(batch[b].state, batch[b].keys, batch[b].found)] /\ \A b \in Batches : batch[b] = NoBatch
  BY <1>1 DEF Init
<1>5. TypeOK
  BY <1>2, <1>3, <1>4 DEF Init, TypeOK
<1>6. BatchesEmpty
  BY <1>1, <1>4 DEF BatchesEmpty
<1>7. WaitersTold /\ EntriesTold
  BY DEF Init, WaitersTold, EntriesTold
<1>8. SessionsFound
  BY <1>3 DEF Init, SessionsFound
<1>. QED  BY <1>5, <1>6, <1>7, <1>8 DEF IInv

\* A step of one batch keeps the invariant, when whoever has a promise of it may be told
\* what the batch says after the step.
LEMMA BatchInv ==
    ASSUME IInv, NEW b \in Batches, NEW p, batch' = [batch EXCEPT ![b] = p],
           p = Batch(p.state, p.keys, p.found), BatchOK(p),
           p.state \in {"none", "open", "sent"} => p.found = <<>>,
           UNCHANGED <<session, item, entry, body, pc, local, matched>>,
           may' \in [Requests -> SUBSET (Values \cup {None})],
           mayCached' \in [Keys -> SUBSET (Values \cup {None})],
           \A r \in Requests : may[r] \subseteq may'[r],
           \A k \in Keys : mayCached[k] \subseteq mayCached'[k],
           \A r \in Requests :
               local[r].batch = b /\ body[r].key \in Keys
                   /\ MaySay(batch[b], body[r].key, may[r], item[body[r].key])
               => MaySay(p, body[r].key, may'[r], item[body[r].key]),
           \A k \in Keys : entry[k] = b /\ MaySay(batch[b], k, mayCached[k], item[k]) => MaySay(p, k, mayCached'[k], item[k])
    PROVE  IInv'
<1>1. TypeOK /\ BatchesEmpty /\ WaitersTold /\ EntriesTold /\ SessionsFound
  BY DEF IInv
<1>2. \A c \in Batches : batch'[c] = IF c = b THEN p ELSE batch[c]
  BY <1>1 DEF TypeOK
<1>3. TypeOK'
  <2>1. batch' = [c \in Batches |-> Batch(batch'[c].state, batch'[c].keys, batch'[c].found)]
    <3>1. batch' = [c \in Batches |-> IF c = b THEN p ELSE batch[c]]
      BY <1>1 DEF TypeOK
    <3>2. \A c \in Batches : batch[c] = Batch(batch[c].state, batch[c].keys, batch[c].found)
      BY <1>1 DEF TypeOK
    <3>. QED  BY <1>2, <3>1, <3>2
  <2>2. \A c \in Batches : BatchOK(batch'[c])
    BY <1>1, <1>2 DEF TypeOK
  <2>. QED  BY <1>1, <2>1, <2>2 DEF TypeOK
<1>4. BatchesEmpty'
  BY <1>1, <1>2 DEF BatchesEmpty
<1>5. WaitersTold'
  <2>. SUFFICES ASSUME NEW r \in Requests, pc[r] = "load"
                PROVE  /\ local[r].batch \in Batches /\ body[r].key \in Keys
                       /\ MaySay(batch'[local[r].batch], body[r].key, may'[r], item[body[r].key])
    BY DEF WaitersTold
  <2>1. /\ local[r].batch \in Batches /\ body[r].key \in Keys
        /\ MaySay(batch[local[r].batch], body[r].key, may[r], item[body[r].key])
    BY <1>1 DEF WaitersTold
  <2>2. CASE local[r].batch = b
    BY <1>2, <2>1, <2>2
  <2>3. CASE local[r].batch # b
    <3>1. item[body[r].key] \in may'[r]
      BY <2>1 DEF MaySay
    <3>. QED  BY <1>2, <2>1, <2>3, <3>1, MaySayMore
  <2>. QED  BY <2>2, <2>3
<1>6. EntriesTold'
  <2>. SUFFICES ASSUME NEW k \in Keys, entry[k] # None
                PROVE  entry[k] \in Batches /\ MaySay(batch'[entry[k]], k, mayCached'[k], item[k])
    BY DEF EntriesTold
  <2>1. entry[k] \in Batches /\ MaySay(batch[entry[k]], k, mayCached[k], item[k])
    BY <1>1 DEF EntriesTold
  <2>2. CASE entry[k] = b
    BY <1>2, <2>1, <2>2
  <2>3. CASE entry[k] # b
    <3>1. item[k] \in mayCached'[k]
      BY <2>1 DEF MaySay
    <3>. QED  BY <1>2, <2>1, <2>3, <3>1, MaySayMore
  <2>. QED  BY <2>2, <2>3
<1>7. SessionsFound'
  BY <1>1 DEF SessionsFound, Matches
<1>. QED  BY <1>3, <1>4, <1>5, <1>6, <1>7 DEF IInv

\* Collecting promises nobody holds takes none from a slot or an entry that has one.
LEMMA CollectInv ==
    ASSUME IInv, Collect(batch), UNCHANGED <<session, item>>,
           entry' \in [Keys -> Batches \cup {None}],
           \A k \in Keys : entry'[k] \in {entry[k], None},
           mayCached' \in [Keys -> SUBSET (Values \cup {None})],
           \A k \in Keys : entry'[k] # None => mayCached'[k] = mayCached[k],
           body' \in [Requests -> RequestType], local' \in [Requests -> LocalType],
           pc' \in [Requests -> {"session", "context", "load", "done"}],
           may' \in [Requests -> SUBSET (Values \cup {None})], matched' \subseteq Requests,
           \A r \in Requests :
               \/ pc'[r] = "done" /\ local'[r].credentials = None
               \/ /\ pc'[r] = pc[r] /\ local'[r] = local[r] /\ body'[r] = body[r] /\ may'[r] = may[r]
                  /\ r \in matched => r \in matched'
    PROVE  IInv'
<1>1. TypeOK /\ BatchesEmpty /\ WaitersTold /\ EntriesTold /\ SessionsFound
  BY DEF IInv
<1>2. batch' = [b \in Batches |-> IF Held(b, entry', local') THEN batch[b] ELSE NoBatch]
  BY DEF Collect
<1>3. NoBatch = Batch(NoBatch.state, NoBatch.keys, NoBatch.found) /\ BatchOK(NoBatch) /\ NoBatch.found = <<>>
  BY MatchNothing DEF BatchOK, NoBatch, Batch
<1>4. \A b \in Batches : batch'[b] \in {batch[b], NoBatch}
  BY <1>2
<1>5. \A b \in Batches : (\E k \in Keys : entry'[k] = b) \/ (\E r \in Requests : local'[r].batch = b) => batch'[b] = batch[b]
  BY <1>2 DEF Held
<1>6. TypeOK'
  <2>1. batch' = [b \in Batches |-> Batch(batch'[b].state, batch'[b].keys, batch'[b].found)]
    <3>1. \A b \in Batches : batch[b] = Batch(batch[b].state, batch[b].keys, batch[b].found)
      BY <1>1 DEF TypeOK
    <3>2. \A b \in Batches : batch'[b] = Batch(batch'[b].state, batch'[b].keys, batch'[b].found)
      BY <1>3, <1>4, <3>1
    <3>3. batch' = [b \in Batches |-> batch'[b]]
      BY <1>2
    <3>. QED  BY <3>2, <3>3
  <2>2. \A b \in Batches : BatchOK(batch'[b])
    BY <1>1, <1>3, <1>4 DEF TypeOK
  <2>. QED  BY <1>1, <2>1, <2>2 DEF TypeOK
<1>7. BatchesEmpty'
  BY <1>1, <1>3, <1>4 DEF BatchesEmpty
<1>8. WaitersTold'
  <2>. SUFFICES ASSUME NEW r \in Requests, pc'[r] = "load"
                PROVE  /\ local'[r].batch \in Batches /\ body'[r].key \in Keys
                       /\ MaySay(batch'[local'[r].batch], body'[r].key, may'[r], item'[body'[r].key])
    BY DEF WaitersTold
  <2>1. /\ pc[r] = "load" /\ local'[r] = local[r] /\ body'[r] = body[r] /\ may'[r] = may[r]
    OBVIOUS
  <2>. QED  BY <1>1, <1>5, <2>1 DEF WaitersTold
<1>9. EntriesTold'
  BY <1>1, <1>5 DEF EntriesTold
<1>10. SessionsFound'
  BY <1>1 DEF SessionsFound, Matches
<1>. QED  BY <1>6, <1>7, <1>8, <1>9, <1>10 DEF IInv

\* A step of one slot that leaves the loader alone.
LEMMA SlotInv ==
    ASSUME IInv, NEW r \in Requests, UNCHANGED <<session, item, entry, batch, mayCached>>,
           body' \in [Requests -> RequestType], local' \in [Requests -> LocalType],
           pc' \in [Requests -> {"session", "context", "load", "done"}],
           may' \in [Requests -> SUBSET (Values \cup {None})], matched' \subseteq Requests,
           \A s \in Requests \ {r} :
               /\ pc'[s] = pc[s] /\ local'[s] = local[s] /\ body'[s] = body[s] /\ may'[s] = may[s]
               /\ s \in matched => s \in matched',
           pc'[r] = "load" =>
               /\ local'[r].batch \in Batches /\ body'[r].key \in Keys
               /\ MaySay(batch[local'[r].batch], body'[r].key, may'[r], item[body'[r].key]),
           pc'[r] \in {"session", "context"} => body'[r].key \in Keys,
           pc'[r] \in {"session", "context"} /\ Matches(body'[r].token, session) => r \in matched',
           pc'[r] = "session" => body'[r].token \in Tokens,
           pc'[r] \in {"done", "session"} => local'[r].credentials = None,
           pc'[r] = "context" /\ local'[r].credentials # None => r \in matched' /\ local'[r].credentials = body'[r].token
    PROVE  IInv'
<1>1. TypeOK /\ BatchesEmpty /\ WaitersTold /\ EntriesTold /\ SessionsFound
  BY DEF IInv
<1>2. TypeOK'
  BY <1>1 DEF TypeOK
<1>3. BatchesEmpty'
  BY <1>1 DEF BatchesEmpty
<1>4. WaitersTold'
  BY <1>1 DEF WaitersTold
<1>5. EntriesTold'
  BY <1>1 DEF EntriesTold
<1>6. SessionsFound'
  BY <1>1 DEF SessionsFound, Matches
<1>. QED  BY <1>2, <1>3, <1>4, <1>5, <1>6 DEF IInv

(***************************************************************************)
(* The steps of a request.                                                 *)
(***************************************************************************)

\* What slots are filled with has its type.
LEMMA ConstantsTyped ==
    /\ NoRequest \in RequestType /\ Anonymous \in LocalType /\ Anonymous.credentials = None
    /\ \A b \in Batches : Locals(None, b) \in LocalType /\ Locals(None, b).batch = b
    /\ \A t \in Tokens : Locals(t, None) \in LocalType /\ Locals(t, None).credentials = t
    /\ \A k \in Keys : Request(None, "open", k) \in RequestType /\ Request(None, "open", k).key = k
BY DEF NoRequest, Request, RequestType, Anonymous, Locals, LocalType

\* A request arrives, and is noted if its session is alive already.
LEMMA ArriveInv ==
    ASSUME IInv, NEW r \in Requests, NEW q \in Sent, NEW k \in Keys, Arrive(r, Request(q.token, q.guard, k))
    PROVE  IInv'
<1>. DEFINE request == Request(q.token, q.guard, k)
<1>1. TypeOK /\ SessionsFound
  BY DEF IInv
<1>2. request \in RequestType /\ request.key = k
  BY SentAssumption DEF Request, RequestType
<1>. HIDE DEF request
<1>3. /\ pc[r] = "done" /\ body' = [body EXCEPT ![r] = request]
      /\ pc' = [pc EXCEPT ![r] = IF request.token \in Tokens THEN "session" ELSE "context"]
      /\ matched' = IF Matches(request.token, session) THEN matched \cup {r} ELSE matched \ {r}
      /\ may' = [may EXCEPT ![r] = {}]
      /\ UNCHANGED <<session, item, entry, batch, local, mayCached>>
  BY DEF Arrive, request, world, loader
<1>4. /\ body' \in [Requests -> RequestType] /\ pc' \in [Requests -> {"session", "context", "load", "done"}]
      /\ may' \in [Requests -> SUBSET (Values \cup {None})] /\ local' \in [Requests -> LocalType]
      /\ matched' \subseteq Requests
  BY <1>1, <1>2, <1>3 DEF TypeOK
<1>5. \A s \in Requests \ {r} :
        /\ pc'[s] = pc[s] /\ local'[s] = local[s] /\ body'[s] = body[s] /\ may'[s] = may[s]
        /\ s \in matched => s \in matched'
  BY <1>1, <1>3 DEF TypeOK
<1>6. /\ pc'[r] = IF request.token \in Tokens THEN "session" ELSE "context"
      /\ body'[r] = request /\ local'[r].credentials = None
  BY <1>1, <1>3 DEF TypeOK, SessionsFound
<1>7. Matches(body'[r].token, session) => r \in matched'
  BY <1>3, <1>6
<1>. QED  BY <1>2, <1>3, <1>4, <1>5, <1>6, <1>7, SlotInv

\* Credentials come from a session that is alive and of the token's type.
LEMMA AuthenticateInv == ASSUME IInv, NEW r \in Requests, Authenticate(r) PROVE IInv'
<1>. DEFINE t == body[r].token
<1>1. TypeOK /\ SessionsFound
  BY DEF IInv
<1>2. pc[r] = "session" /\ UNCHANGED <<session, item, entry, batch, body, matched, may, mayCached>>
  BY DEF Authenticate, Running, world, loader, history, Goto
<1>3. t \in Tokens /\ body[r].key \in Keys /\ (Matches(t, session) => r \in matched)
  BY <1>1, <1>2 DEF SessionsFound
<1>4. PICK l \in LocalType :
        /\ pc' = [pc EXCEPT ![r] = "context"] /\ local' = [local EXCEPT ![r] = l]
        /\ l.credentials # None => r \in matched /\ l.credentials = t
  <2>1. CASE session[t.sub] = t.tokenType /\ Goto(r, "context", Locals(t, None))
    BY <1>3, <2>1, ConstantsTyped DEF Goto, Matches
  <2>2. CASE Goto(r, "context", Anonymous)
    BY <2>2, ConstantsTyped DEF Goto
  <2>. QED  BY <2>1, <2>2 DEF Authenticate
<1>5. local' \in [Requests -> LocalType] /\ pc' \in [Requests -> {"session", "context", "load", "done"}]
  BY <1>1, <1>4 DEF TypeOK
<1>6. /\ pc'[r] = "context" /\ local'[r] = l
      /\ \A s \in Requests \ {r} : pc'[s] = pc[s] /\ local'[s] = local[s]
  BY <1>1, <1>4 DEF TypeOK
<1>. QED  BY <1>1, <1>2, <1>3, <1>4, <1>5, <1>6, SlotInv DEF TypeOK

\* What a slot that is answered looks like.
LEMMA Answered ==
    ASSUME TypeOK, NEW r \in Requests, Answer(r)
    PROVE  /\ body' \in [Requests -> RequestType] /\ local' \in [Requests -> LocalType]
           /\ pc' \in [Requests -> {"session", "context", "load", "done"}]
           /\ may' \in [Requests -> SUBSET (Values \cup {None})] /\ matched' \subseteq Requests
           /\ \A s \in Requests \ {r} :
               /\ pc'[s] = pc[s] /\ local'[s] = local[s] /\ body'[s] = body[s] /\ may'[s] = may[s]
               /\ s \in matched => s \in matched'
           /\ pc'[r] = "done" /\ local'[r].credentials = None
BY ConstantsTyped DEF TypeOK, Answer

\* A request that is refused is gone.
LEMMA RefuseInv == ASSUME IInv, NEW r \in Requests, Refuse(r) PROVE IInv'
<1>1. TypeOK /\ Answer(r) /\ UNCHANGED <<session, item, entry, batch, mayCached>>
  BY DEF IInv, Refuse, world, loader
<1>. QED  BY <1>1, Answered, SlotInv

\* What a slot that waits for a promise of batch b looks like, when it may be told what is in set told.
LEMMA Waiting ==
    ASSUME TypeOK, SessionsFound, NEW r \in Requests, pc[r] = "context", NEW b \in Batches, Wait(r, b),
           NEW told \in SUBSET (Values \cup {None}), may' = [may EXCEPT ![r] = told]
    PROVE  /\ body' \in [Requests -> RequestType] /\ local' \in [Requests -> LocalType]
           /\ pc' \in [Requests -> {"session", "context", "load", "done"}]
           /\ may' \in [Requests -> SUBSET (Values \cup {None})] /\ matched' \subseteq Requests
           /\ \A s \in Requests \ {r} :
               /\ pc'[s] = pc[s] /\ local'[s] = local[s] /\ body'[s] = body[s] /\ may'[s] = may[s]
               /\ s \in matched => s \in matched'
           /\ pc'[r] = "load" /\ local'[r].batch = b /\ may'[r] = told
           /\ body[r].key \in Keys /\ body'[r].key = body[r].key
<1>1. body[r].key \in Keys
  BY DEF SessionsFound
<1>2. /\ pc' = [pc EXCEPT ![r] = "load"] /\ local' = [local EXCEPT ![r] = Locals(None, b)]
      /\ body' = [body EXCEPT ![r] = Request(None, "open", body[r].key)] /\ matched' = matched \ {r}
  BY DEF Wait
<1>. QED  BY <1>1, <1>2, ConstantsTyped DEF TypeOK

\* A request that finds a promise in the cache may be told what the entry may say.
LEMMA LoadCachedInv == ASSUME IInv, NEW r \in Requests, LoadCached(r) PROVE IInv'
<1>. DEFINE k == body[r].key
<1>1. TypeOK /\ SessionsFound /\ EntriesTold
  BY DEF IInv
<1>2. /\ pc[r] = "context" /\ entry[k] # None /\ Wait(r, entry[k]) /\ may' = [may EXCEPT ![r] = mayCached[k]]
      /\ UNCHANGED <<session, item, entry, batch, mayCached>>
  BY DEF LoadCached, Running, world, loader
<1>3. k \in Keys
  BY <1>1, <1>2 DEF SessionsFound
<1>4. entry[k] \in Batches /\ MaySay(batch[entry[k]], k, mayCached[k], item[k]) /\ mayCached[k] \in SUBSET (Values \cup {None})
  BY <1>1, <1>2, <1>3 DEF EntriesTold, TypeOK
<1>. HIDE DEF k
<1>5. /\ body' \in [Requests -> RequestType] /\ local' \in [Requests -> LocalType]
      /\ pc' \in [Requests -> {"session", "context", "load", "done"}]
      /\ may' \in [Requests -> SUBSET (Values \cup {None})] /\ matched' \subseteq Requests
      /\ \A s \in Requests \ {r} :
          /\ pc'[s] = pc[s] /\ local'[s] = local[s] /\ body'[s] = body[s] /\ may'[s] = may[s]
          /\ s \in matched => s \in matched'
      /\ pc'[r] = "load" /\ local'[r].batch = entry[k] /\ may'[r] = mayCached[k] /\ body'[r].key = k
  <2>1. PICK b \in Batches, told \in SUBSET (Values \cup {None}) : b = entry[k] /\ told = mayCached[k]
    BY <1>4
  <2>2. Wait(r, b) /\ may' = [may EXCEPT ![r] = told] /\ pc[r] = "context"
    BY <1>2, <2>1
  <2>. QED  BY <1>1, <2>1, <2>2, Waiting DEF k
<1>. QED  BY <1>2, <1>3, <1>4, <1>5, SlotInv

\* A request that finds none joins the open batch, or starts one: the promise is kept for its
\* key, and both may be told what the item says now.
LEMMA LoadMissingInv == ASSUME IInv, NEW r \in Requests, LoadMissing(r) PROVE IInv'
<1>. DEFINE k == body[r].key
<1>1. TypeOK /\ BatchesEmpty /\ WaitersTold /\ EntriesTold /\ SessionsFound
  BY DEF IInv
<1>2. PICK b \in Batches :
        /\ Is(b, "open") \/ Is(b, "none")
        /\ batch' = [batch EXCEPT ![b] = Batch("open", Append(@.keys, k), <<>>)]
        /\ entry' = [entry EXCEPT ![k] = b]
        /\ Wait(r, b)
  BY DEF LoadMissing, Open
<1>. DEFINE p == Batch("open", Append(batch[b].keys, k), <<>>)
            told == {item[k]}
<1>3. /\ pc[r] = "context" /\ may' = [may EXCEPT ![r] = told] /\ mayCached' = [mayCached EXCEPT ![k] = told]
      /\ UNCHANGED <<session, item>>
  BY DEF LoadMissing, Running, world
<1>4. k \in Keys
  BY <1>1, <1>3 DEF SessionsFound
<1>5. told \in SUBSET (Values \cup {None}) /\ item[k] \in told
  BY <1>1, <1>4 DEF TypeOK
<1>. HIDE DEF told
<1>6. /\ p.state = "open" /\ p.found = <<>> /\ p = Batch(p.state, p.keys, p.found) /\ BatchOK(p)
      /\ p.keys \in Seq(Keys) /\ ToSet(p.keys) = ToSet(batch[b].keys) \cup {k}
  <2>1. Append(batch[b].keys, k) \in Seq(Keys) /\ ToSet(Append(batch[b].keys, k)) = ToSet(batch[b].keys) \cup {k}
    BY <1>1, <1>4, AppendKeys DEF TypeOK, BatchOK
  <2>2. ItemsOK(<<>>)
    BY MatchNothing
  <2>3. p.state = "open" /\ p.found = <<>> /\ p.keys = Append(batch[b].keys, k) /\ p = Batch(p.state, p.keys, p.found)
    BY DEF Batch
  <2>. HIDE DEF p
  <2>. QED  BY <2>1, <2>2, <2>3 DEF BatchOK
<1>7. batch' = [batch EXCEPT ![b] = p]
  BY <1>2
<1>. HIDE DEF p, k
<1>8. /\ body' \in [Requests -> RequestType] /\ local' \in [Requests -> LocalType]
      /\ pc' \in [Requests -> {"session", "context", "load", "done"}]
      /\ may' \in [Requests -> SUBSET (Values \cup {None})] /\ matched' \subseteq Requests
      /\ \A s \in Requests \ {r} :
          /\ pc'[s] = pc[s] /\ local'[s] = local[s] /\ body'[s] = body[s] /\ may'[s] = may[s]
          /\ s \in matched => s \in matched'
      /\ pc'[r] = "load" /\ local'[r].batch = b /\ may'[r] = told /\ body'[r].key = k
  BY <1>1, <1>2, <1>3, <1>5, Waiting DEF k
<1>9. \A c \in Batches : batch'[c] = IF c = b THEN p ELSE batch[c]
  BY <1>1, <1>7 DEF TypeOK
<1>10. \A j \in Keys : IF j = k THEN entry'[j] = b /\ mayCached'[j] = told
                       ELSE entry'[j] = entry[j] /\ mayCached'[j] = mayCached[j]
  BY <1>1, <1>2, <1>3 DEF TypeOK
<1>11. ASSUME NEW c \in Batches, NEW j, NEW t, MaySay(batch[c], j, t, item[j]) PROVE MaySay(batch'[c], j, t, item[j])
  BY <1>2, <1>6, <1>9, <1>11 DEF MaySay, Is
<1>12. MaySay(p, k, told, item[k])
  BY <1>5, <1>6 DEF MaySay
<1>13. TypeOK'
  <2>1. batch' = [c \in Batches |-> Batch(batch'[c].state, batch'[c].keys, batch'[c].found)]
    <3>1. batch' = [c \in Batches |-> IF c = b THEN p ELSE batch[c]]
      BY <1>1, <1>7 DEF TypeOK
    <3>2. \A c \in Batches : batch[c] = Batch(batch[c].state, batch[c].keys, batch[c].found)
      BY <1>1 DEF TypeOK
    <3>. QED  BY <1>6, <1>9, <3>1, <3>2
  <2>2. \A c \in Batches : BatchOK(batch'[c])
    BY <1>1, <1>6, <1>9 DEF TypeOK
  <2>3. entry' \in [Keys -> Batches \cup {None}] /\ mayCached' \in [Keys -> SUBSET (Values \cup {None})]
    BY <1>1, <1>2, <1>3, <1>5 DEF TypeOK
  <2>. QED  BY <1>1, <1>3, <1>8, <2>1, <2>2, <2>3 DEF TypeOK
<1>14. BatchesEmpty'
  BY <1>1, <1>6, <1>9 DEF BatchesEmpty
<1>15. WaitersTold'
  <2>. SUFFICES ASSUME NEW s \in Requests, pc'[s] = "load"
                PROVE  /\ local'[s].batch \in Batches /\ body'[s].key \in Keys
                       /\ MaySay(batch'[local'[s].batch], body'[s].key, may'[s], item[body'[s].key])
    BY <1>3 DEF WaitersTold
  <2>1. CASE s = r
    BY <1>4, <1>8, <1>9, <1>12, <2>1
  <2>2. CASE s # r
    <3>1. /\ local[s].batch \in Batches /\ body[s].key \in Keys
          /\ MaySay(batch[local[s].batch], body[s].key, may[s], item[body[s].key])
      BY <1>1, <1>8, <2>2 DEF WaitersTold
    <3>. QED  BY <1>8, <1>11, <2>2, <3>1
  <2>. QED  BY <2>1, <2>2
<1>16. EntriesTold'
  <2>. SUFFICES ASSUME NEW j \in Keys, entry'[j] # None
                PROVE  entry'[j] \in Batches /\ MaySay(batch'[entry'[j]], j, mayCached'[j], item[j])
    BY <1>3 DEF EntriesTold
  <2>1. CASE j = k
    BY <1>9, <1>10, <1>12, <2>1
  <2>2. CASE j # k
    BY <1>1, <1>10, <1>11, <2>2 DEF EntriesTold
  <2>. QED  BY <2>1, <2>2
<1>17. SessionsFound'
  BY <1>1, <1>3, <1>8 DEF SessionsFound, Matches
<1>. QED  BY <1>13, <1>14, <1>15, <1>16, <1>17 DEF IInv

\* A request whose promise has settled is answered; an entry is dropped.
LEMMA ResolveInv == ASSUME IInv, NEW r \in Requests, Resolve(r) PROVE IInv'
<1>1. TypeOK /\ Answer(r) /\ UNCHANGED <<session, item, entry, mayCached>> /\ Collect(batch)
  BY DEF IInv, Resolve, world
<1>2. entry' \in [Keys -> Batches \cup {None}] /\ mayCached' \in [Keys -> SUBSET (Values \cup {None})]
  BY <1>1 DEF TypeOK
<1>. QED  BY <1>1, <1>2, Answered, CollectInv

\* An entry that is dropped takes no promise from a slot that holds one.
LEMMA EvictInv == ASSUME IInv, NEW k \in Keys, Evict(k) PROVE IInv'
<1>1. TypeOK /\ SessionsFound
  BY DEF IInv
<1>2. /\ entry' = [entry EXCEPT ![k] = None] /\ mayCached' = [mayCached EXCEPT ![k] = {}] /\ Collect(batch)
      /\ UNCHANGED <<session, item, body, pc, local, matched, may>>
  BY DEF Evict, world, slots
<1>3. /\ entry' \in [Keys -> Batches \cup {None}] /\ mayCached' \in [Keys -> SUBSET (Values \cup {None})]
      /\ \A j \in Keys : entry'[j] \in {entry[j], None} /\ (entry'[j] # None => mayCached'[j] = mayCached[j])
  BY <1>1, <1>2 DEF TypeOK
<1>4. /\ body' \in [Requests -> RequestType] /\ local' \in [Requests -> LocalType]
      /\ pc' \in [Requests -> {"session", "context", "load", "done"}]
      /\ may' \in [Requests -> SUBSET (Values \cup {None})] /\ matched' \subseteq Requests
  BY <1>1, <1>2 DEF TypeOK
<1>. QED  BY <1>2, <1>3, <1>4, CollectInv

(***************************************************************************)
(* The steps of a batch, and of the world.                                 *)
(***************************************************************************)

\* A batch that is sent says no less than before; nothing has been found yet.
LEMMA DispatchInv == ASSUME IInv, NEW b \in Batches, Dispatch(b) PROVE IInv'
<1>. DEFINE p == Batch("sent", batch[b].keys, <<>>)
<1>1. TypeOK
  BY DEF IInv
<1>2. /\ batch[b].state = "open" /\ batch' = [batch EXCEPT ![b] = p]
      /\ UNCHANGED <<session, item, entry, body, pc, local, matched, may, mayCached>>
  BY DEF Dispatch, Open, Is, world, slots, history
<1>3. p.state = "sent" /\ p.keys = batch[b].keys /\ p.found = <<>> /\ p = Batch(p.state, p.keys, p.found)
  BY DEF Batch
<1>. HIDE DEF p
<1>4. BatchOK(p)
  BY <1>1, <1>3, MatchNothing DEF TypeOK, BatchOK
<1>5. ASSUME NEW k, NEW told, NEW now, MaySay(batch[b], k, told, now) PROVE MaySay(p, k, told, now)
  BY <1>3, <1>5 DEF MaySay
<1>6. may' \in [Requests -> SUBSET (Values \cup {None})] /\ mayCached' \in [Keys -> SUBSET (Values \cup {None})]
  BY <1>1, <1>2 DEF TypeOK
<1>7. /\ \A r \in Requests : MaySay(batch[b], body[r].key, may[r], item[body[r].key])
                             => MaySay(p, body[r].key, may'[r], item[body[r].key])
      /\ \A k \in Keys : MaySay(batch[b], k, mayCached[k], item[k]) => MaySay(p, k, mayCached'[k], item[k])
  BY <1>2, <1>5
<1>. QED  BY <1>2, <1>3, <1>4, <1>6, <1>7, BatchInv

\* The items found are those there are now, and each key is matched with its own.
LEMMA ServiceFindsInv == ASSUME IInv, NEW b \in Batches, ServiceFinds(b) PROVE IInv'
<1>1. TypeOK
  BY DEF IInv
<1>2. /\ batch[b].state = "sent"
      /\ UNCHANGED <<session, item, entry, body, pc, local, matched, may, mayCached>>
  BY DEF ServiceFinds, Is, world, slots, history
<1>3. PICK order \in SetToSeqs({k \in ToSet(batch[b].keys) : item[k] # None}) :
        batch' = [batch EXCEPT ![b] =
            Batch("found", @.keys, [i \in DOMAIN order |-> [key |-> order[i], value |-> item[order[i]]]])]
  BY DEF ServiceFinds
<1>. DEFINE items == [i \in DOMAIN order |-> [key |-> order[i], value |-> item[order[i]]]]
            p == Batch("found", batch[b].keys, items)
<1>4. batch[b].keys \in Seq(Keys) /\ item \in [Keys -> Values \cup {None}]
  BY <1>1 DEF TypeOK, BatchOK
<1>5. ItemsOK(items) /\ \A k \in ToSet(batch[b].keys) : Match(batch[b].keys, items, k) = item[k]
  BY <1>4, OrderMatches
<1>6. batch' = [batch EXCEPT ![b] = p]
  BY <1>3
<1>. HIDE DEF items
<1>7. p.state = "found" /\ p.keys = batch[b].keys /\ p.found = items /\ p = Batch(p.state, p.keys, p.found)
  BY DEF Batch
<1>. HIDE DEF p
<1>8. BatchOK(p)
  BY <1>4, <1>5, <1>7 DEF BatchOK
<1>9. ASSUME NEW k, NEW told, MaySay(batch[b], k, told, item[k]) PROVE MaySay(p, k, told, item[k])
  BY <1>5, <1>7, <1>9 DEF MaySay
<1>10. may' \in [Requests -> SUBSET (Values \cup {None})] /\ mayCached' \in [Keys -> SUBSET (Values \cup {None})]
  BY <1>1, <1>2 DEF TypeOK
<1>. QED  BY <1>2, <1>6, <1>7, <1>8, <1>9, <1>10, BatchInv

\* A service that throws leaves every key of the batch with nothing, which history allows.
LEMMA ServiceFailsInv == ASSUME IInv, NEW b \in Batches, ServiceFails(b) PROVE IInv'
<1>. DEFINE p == Batch("found", batch[b].keys, <<>>)
<1>1. TypeOK
  BY DEF IInv
<1>2. /\ batch[b].state = "sent" /\ batch' = [batch EXCEPT ![b] = p] /\ MayTell(b, Keys, None)
      /\ UNCHANGED <<session, item, entry, body, pc, local, matched>>
  BY DEF ServiceFails, Is, world, slots
<1>3. p.state = "found" /\ p.keys = batch[b].keys /\ p.found = <<>> /\ p = Batch(p.state, p.keys, p.found)
  BY DEF Batch
<1>. HIDE DEF p
<1>4. BatchOK(p)
  BY <1>1, <1>3, MatchNothing DEF TypeOK, BatchOK
<1>5. ASSUME NEW k, NEW told, NEW now, MaySay(batch[b], k, told, now) PROVE MaySay(p, k, told \cup {None}, now)
  BY <1>3, <1>5, MatchNothing DEF MaySay
<1>6. may' \in [Requests -> SUBSET (Values \cup {None})] /\ mayCached' \in [Keys -> SUBSET (Values \cup {None})]
  BY <1>1, <1>2 DEF TypeOK, MayTell
<1>7. \A r \in Requests : /\ may[r] \subseteq may'[r]
                          /\ local[r].batch = b /\ body[r].key \in Keys => may'[r] = may[r] \cup {None}
  BY <1>2 DEF MayTell
<1>8. \A k \in Keys : /\ mayCached[k] \subseteq mayCached'[k]
                      /\ entry[k] = b => mayCached'[k] = mayCached[k] \cup {None}
  BY <1>2 DEF MayTell
<1>9. \A r \in Requests :
        local[r].batch = b /\ body[r].key \in Keys /\ MaySay(batch[b], body[r].key, may[r], item[body[r].key])
        => MaySay(p, body[r].key, may'[r], item[body[r].key])
  BY <1>5, <1>7
<1>10. \A k \in Keys : entry[k] = b /\ MaySay(batch[b], k, mayCached[k], item[k]) => MaySay(p, k, mayCached'[k], item[k])
  BY <1>5, <1>8
<1>. QED  BY <1>2, <1>3, <1>4, <1>6, <1>7, <1>8, <1>9, <1>10, BatchInv

\* Settling hands each key what was matched with it.
LEMMA SettleInv == ASSUME IInv, NEW b \in Batches, Settle(b) PROVE IInv'
<1>. DEFINE told == [k \in ToSet(batch[b].keys) |-> Match(batch[b].keys, batch[b].found, k)]
            p == Batch("done", batch[b].keys, told)
<1>1. TypeOK
  BY DEF IInv
<1>2. /\ batch[b].state = "found" /\ batch' = [batch EXCEPT ![b] = p]
      /\ UNCHANGED <<session, item, entry, body, pc, local, matched, may, mayCached>>
  BY DEF Settle, Is, world, slots, history
<1>3. batch[b].keys \in Seq(Keys) /\ ItemsOK(batch[b].found)
  BY <1>1, <1>2 DEF TypeOK, BatchOK
<1>4. \A k \in ToSet(batch[b].keys) : told[k] = Match(batch[b].keys, batch[b].found, k)
  OBVIOUS
<1>5. told \in [ToSet(batch[b].keys) -> Values \cup {None}]
  BY <1>3, MatchTyped
<1>. HIDE DEF told
<1>6. p.state = "done" /\ p.keys = batch[b].keys /\ p.found = told /\ p = Batch(p.state, p.keys, p.found)
  BY DEF Batch
<1>. HIDE DEF p
<1>7. BatchOK(p)
  BY <1>3, <1>5, <1>6 DEF BatchOK
<1>8. ASSUME NEW k, NEW t, NEW now, MaySay(batch[b], k, t, now) PROVE MaySay(p, k, t, now)
  BY <1>2, <1>4, <1>6, <1>8 DEF MaySay
<1>9. may' \in [Requests -> SUBSET (Values \cup {None})] /\ mayCached' \in [Keys -> SUBSET (Values \cup {None})]
  BY <1>1, <1>2 DEF TypeOK
<1>10. /\ \A r \in Requests : MaySay(batch[b], body[r].key, may[r], item[body[r].key])
                              => MaySay(p, body[r].key, may'[r], item[body[r].key])
       /\ \A k \in Keys : MaySay(batch[b], k, mayCached[k], item[k]) => MaySay(p, k, mayCached'[k], item[k])
  BY <1>2, <1>8
<1>. QED  BY <1>2, <1>6, <1>7, <1>9, <1>10, BatchInv

\* An item that changes may be told to whoever waits for it from then on.
LEMMA ChangeItemInv == ASSUME IInv, NEW k \in Keys, NEW v \in Values \cup {None}, ChangeItem(k, v) PROVE IInv'
<1>1. TypeOK /\ BatchesEmpty /\ WaitersTold /\ EntriesTold /\ SessionsFound
  BY DEF IInv
<1>2. /\ item' = [item EXCEPT ![k] = v]
      /\ UNCHANGED <<session, entry, batch, body, pc, local, matched>>
  BY DEF ChangeItem, loader, slots
<1>3. /\ may' = [r \in Requests |-> IF pc[r] = "load" /\ body[r].key = k THEN may[r] \cup {v} ELSE may[r]]
      /\ mayCached' = [mayCached EXCEPT ![k] = IF entry[k] = None THEN @ ELSE @ \cup {v}]
  BY DEF ChangeItem
<1>4. /\ item' \in [Keys -> Values \cup {None}] /\ may' \in [Requests -> SUBSET (Values \cup {None})]
      /\ mayCached' \in [Keys -> SUBSET (Values \cup {None})]
  BY <1>1, <1>2, <1>3 DEF TypeOK
<1>5. TypeOK'
  BY <1>1, <1>2, <1>4 DEF TypeOK
<1>6. BatchesEmpty'
  BY <1>1, <1>2 DEF BatchesEmpty
<1>7. WaitersTold'
  <2>. SUFFICES ASSUME NEW r \in Requests, pc[r] = "load"
                PROVE  /\ local[r].batch \in Batches /\ body[r].key \in Keys
                       /\ MaySay(batch[local[r].batch], body[r].key, may'[r], item'[body[r].key])
    BY <1>2 DEF WaitersTold
  <2>1. /\ local[r].batch \in Batches /\ body[r].key \in Keys
        /\ MaySay(batch[local[r].batch], body[r].key, may[r], item[body[r].key])
    BY <1>1 DEF WaitersTold
  <2>2. may[r] \subseteq may'[r] /\ item'[body[r].key] \in may'[r]
    BY <1>1, <1>2, <1>3, <2>1 DEF MaySay, TypeOK
  <2>. QED  BY <2>1, <2>2, MaySayMore
<1>8. EntriesTold'
  <2>. SUFFICES ASSUME NEW j \in Keys, entry[j] # None
                PROVE  entry[j] \in Batches /\ MaySay(batch[entry[j]], j, mayCached'[j], item'[j])
    BY <1>2 DEF EntriesTold
  <2>1. entry[j] \in Batches /\ MaySay(batch[entry[j]], j, mayCached[j], item[j])
    BY <1>1 DEF EntriesTold
  <2>2. mayCached[j] \subseteq mayCached'[j] /\ item'[j] \in mayCached'[j]
    BY <1>1, <1>2, <1>3, <2>1 DEF MaySay, TypeOK
  <2>. QED  BY <2>1, <2>2, MaySayMore
<1>9. SessionsFound'
  BY <1>1, <1>2 DEF SessionsFound, Matches
<1>. QED  BY <1>5, <1>6, <1>7, <1>8, <1>9 DEF IInv

\* A session that comes alive is noted for every request whose token it is.
LEMMA ChangeSessionInv ==
    ASSUME IInv, NEW s \in Subs, NEW tokenType \in TokenTypes \cup {None}, ChangeSession(s, tokenType)
    PROVE  IInv'
<1>1. TypeOK /\ BatchesEmpty /\ WaitersTold /\ EntriesTold /\ SessionsFound
  BY DEF IInv
<1>2. /\ session' = [session EXCEPT ![s] = tokenType]
      /\ matched' = matched \cup {r \in Requests : pc[r] # "done" /\ Matches(body[r].token, session')}
      /\ UNCHANGED <<item, entry, batch, body, pc, local, may, mayCached>>
  BY DEF ChangeSession, loader, slots
<1>3. TypeOK'
  BY <1>1, <1>2 DEF TypeOK
<1>4. BatchesEmpty'
  BY <1>1, <1>2 DEF BatchesEmpty
<1>5. WaitersTold'
  BY <1>1, <1>2 DEF WaitersTold
<1>6. EntriesTold'
  BY <1>1, <1>2 DEF EntriesTold
<1>7. SessionsFound'
  BY <1>1, <1>2 DEF SessionsFound
<1>. QED  BY <1>3, <1>4, <1>5, <1>6, <1>7 DEF IInv

\* Every step keeps the invariant.
LEMMA StepInv == ASSUME IInv, [Next]_vars PROVE IInv'
<1>1. CASE UNCHANGED vars
  <2>. USE <1>1 DEF IInv, vars, world, loader, slots, history
  <2>1. TypeOK'
    BY DEF TypeOK
  <2>2. BatchesEmpty' /\ WaitersTold' /\ EntriesTold'
    BY DEF BatchesEmpty, WaitersTold, EntriesTold
  <2>3. SessionsFound'
    BY DEF SessionsFound, Matches
  <2>. QED  BY <2>1, <2>2, <2>3
<1>. QED  BY <1>1, ArriveInv, AuthenticateInv, RefuseInv, LoadCachedInv, LoadMissingInv, ResolveInv,
             DispatchInv, ServiceFindsInv, ServiceFailsInv, SettleInv, EvictInv, ChangeItemInv, ChangeSessionInv
          DEF Next

\* Promises say only what their key said since they were made, and credentials were alive.
THEOREM Invariant == Spec => []IInv
<1>. QED  BY InitInv, StepInv, PTL DEF Spec

-----------------------------------------------------------------------------
\* However requests share batches and promises, and whatever order the service answers in, a
\* load is answered with what its own key said.
THEOREM OwnKeys == Spec => []LoadsAnswerTheirKey
<1>1. ASSUME IInv PROVE LoadsAnswerTheirKey
  BY <1>1 DEF IInv, WaitersTold, MaySay, LoadsAnswerTheirKey, Settled, Told, Is
<1>. QED  BY <1>1, Invariant, PTL

\* A guarded field is reached only by a token that carries its role and whose session was alive
\* since the request began, or by a text that begins with "query Introspection".
THEOREM Guarded == Spec => []GuardedNeedsSession
<1>1. ASSUME IInv PROVE GuardedNeedsSession
  <2>. SUFFICES ASSUME NEW r \in Requests, pc[r] = "context", Allowed(r),
                       body[r].guard # "open", body[r].token # Introspection
                PROVE  r \in matched /\ (body[r].guard = "signedIn" \/ body[r].guard \in body[r].token.roles)
    BY DEF GuardedNeedsSession, Running
  <2>1. /\ local[r].credentials # None
        /\ body[r].guard = "signedIn" \/ body[r].guard \in local[r].credentials.roles
    BY DEF Allowed
  <2>2. r \in matched /\ local[r].credentials = body[r].token
    BY <1>1, <2>1 DEF IInv, SessionsFound
  <2>. QED  BY <2>1, <2>2
<1>. QED  BY <1>1, Invariant, PTL
=============================================================================
