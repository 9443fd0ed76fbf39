---------------------------- MODULE GraphqlServer ----------------------------
(***************************************************************************)
(* A GraphQL request from its headers to its answer: authenticate looks    *)
(* the session of a token up in Redis, authChecker compares what it found  *)
(* with what the field asks for, and the resolver loads a key through the  *)
(* one DataLoader that all requests share.  The loader batches the keys    *)
(* asked for within a tick and keeps every promise in a TTL cache, pending *)
(* or settled, so a promise is the batch it was loaded in.  Sessions and   *)
(* the data behind the service belong to others and change at any time.    *)
(***************************************************************************)
EXTENDS Naturals, Sequences, SequencesExt

CONSTANTS
    Requests,   \* slots for HTTP requests in flight; a slot is reused
    Keys,       \* what the loader is asked for
    Values,     \* what an item says
    Batches,    \* names for the batches whose promises somebody still holds
    Tokens,     \* tokens that are signed for graphqlJwt: their payloads [sub, tokenType, roles]
    Introspection,   \* in the place of a token: the query begins with "query Introspection"
    Roles,      \* roles a field may ask for
    Sent,       \* what clients send: a token, or Introspection, for a field with some guard
    None        \* nothing: no token that verifies, no session, no item, no batch

Subs == {t.sub : t \in Tokens}
TokenTypes == {t.tokenType : t \in Tokens}

VARIABLES
    session,   \* Redis: what the key of each sub holds
    item,      \* the item of each key, as the service would find it now
    entry,     \* cacheMap: the batch whose promise it keeps for a key, or None
    batch,     \* each batch: its keys in order, how far it is, and what it found
    body,      \* what the latest request of each slot carries
    pc,        \* the await it stands at: "session", "context" or "load", or "done"
    local,     \* its credentials, and the batch it waits for
    \* History, read by the properties only:
    matched,   \* slots whose token had its session at some moment since the request began
    may,       \* what a request could be told, from its start on
    mayCached  \* what an entry could say, from its load on

world   == <<session, item>>
loader  == <<entry, batch>>
slots   == <<body, pc, local>>
history == <<matched, may, mayCached>>
vars    == <<world, loader, slots, history>>

Locals(credentials, b) == [credentials |-> credentials, batch |-> b]
Anonymous == Locals(None, None)
Request(token, guard, key) == [token |-> token, guard |-> guard, key |-> key]
NoRequest == Request(None, "open", None)
Batch(state, keys, found) == [state |-> state, keys |-> keys, found |-> found]
NoBatch == Batch("none", <<>>, <<>>)

Init ==
    /\ session \in [Subs -> TokenTypes \cup {None}]
    /\ item \in [Keys -> Values \cup {None}]
    /\ entry = [k \in Keys |-> None] /\ batch = [b \in Batches |-> NoBatch]
    /\ body = [r \in Requests |-> NoRequest] /\ pc = [r \in Requests |-> "done"]
    /\ local = [r \in Requests |-> Anonymous]
    /\ matched = {} /\ may = [r \in Requests |-> {}] /\ mayCached = [k \in Keys |-> {}]

-----------------------------------------------------------------------------
Running(r, at) == pc[r] = at

Goto(r, at, locals) ==
    /\ pc' = [pc EXCEPT ![r] = at]
    /\ local' = [local EXCEPT ![r] = locals]
    /\ UNCHANGED body

\* Promises nobody holds any more are collected.
Held(b, entries, locals) == (\E k \in Keys : entries[k] = b) \/ (\E r \in Requests : locals[r].batch = b)
Collect(batches) ==
    batch' = [b \in Batches |-> IF Held(b, entry', local') THEN batches[b] ELSE NoBatch]

\* The request is answered, with data or an error; nothing of it is left.
Answer(r) ==
    /\ pc' = [pc EXCEPT ![r] = "done"]
    /\ local' = [local EXCEPT ![r] = Anonymous] /\ body' = [body EXCEPT ![r] = NoRequest]
    /\ matched' = matched \ {r} /\ may' = [may EXCEPT ![r] = {}]

\* History: the request's session matches now.
Matches(token, sessions) == token \in Tokens /\ sessions[token.sub] = token.tokenType

\* authenticate, up to the Redis call: an introspection query, a missing token and one that
\* does not verify go on without credentials.
Arrive(r, request) ==
    /\ pc[r] = "done"
    /\ body' = [body EXCEPT ![r] = request]
    /\ pc' = [pc EXCEPT ![r] = IF request.token \in Tokens THEN "session" ELSE "context"]
    /\ matched' = IF Matches(request.token, session) THEN matched \cup {r} ELSE matched \ {r}
    /\ may' = [may EXCEPT ![r] = {}]
    /\ UNCHANGED <<world, loader, local, mayCached>>

\* Mutant of Authenticate: the token type is not compared.
AuthenticateAny(r) ==
    /\ Running(r, "session")
    /\ LET t == body[r].token
       IN Goto(r, "context", Locals(IF session[t.sub] # None THEN t ELSE None, None))
    /\ UNCHANGED <<world, loader, history>>

\* The session is there and of the token's type, or the request goes on anonymously; so it
\* does when Redis fails.
Authenticate(r) ==
    /\ Running(r, "session")
    /\ LET t == body[r].token
       IN \/ session[t.sub] = t.tokenType /\ Goto(r, "context", Locals(t, None))
          \/ Goto(r, "context", Anonymous)
    /\ UNCHANGED <<world, loader, history>>

\* authChecker, called for the fields that are @Authorized, with or without roles.
Allowed(r) ==
    \/ body[r].guard = "open" \/ body[r].token = Introspection
    \/ /\ local[r].credentials # None
       /\ body[r].guard = "signedIn" \/ body[r].guard \in local[r].credentials.roles

Refuse(r) ==
    /\ Running(r, "context") /\ ~Allowed(r)
    /\ Answer(r)
    /\ UNCHANGED <<world, loader, mayCached>>

-----------------------------------------------------------------------------
(* load, and the batch function of createDataLoader *)
Is(b, state) == batch[b].state = state
Open(b) == Is(b, "open")

\* From here on, nobody reads more of the request than its key.
Wait(r, b) ==
    /\ pc' = [pc EXCEPT ![r] = "load"]
    /\ local' = [local EXCEPT ![r] = Locals(None, b)]
    /\ body' = [body EXCEPT ![r] = Request(None, "open", body[r].key)]
    /\ matched' = matched \ {r}

\* The cache has a promise for the key, of a batch still under way or long settled.
LoadCached(r) ==
    LET k == body[r].key
    IN /\ Running(r, "context") /\ Allowed(r) /\ entry[k] # None
       /\ Wait(r, entry[k])
       /\ may' = [may EXCEPT ![r] = mayCached[k]]
       /\ UNCHANGED <<world, loader, mayCached>>

\* It has none: the key joins the batch of this tick, or starts one, and its promise is kept
\* before it has settled.
LoadMissing(r) ==
    LET k == body[r].key
    IN /\ Running(r, "context") /\ Allowed(r) /\ entry[k] = None
       /\ \E b \in Batches :
            /\ Open(b) \/ (Is(b, "none") /\ \A c \in Batches : ~Open(c))
            /\ batch' = [batch EXCEPT ![b] = Batch("open", Append(@.keys, k), <<>>)]
            /\ entry' = [entry EXCEPT ![k] = b]
            /\ Wait(r, b)
       /\ may' = [may EXCEPT ![r] = {item[k]}]
       /\ mayCached' = [mayCached EXCEPT ![k] = {item[k]}]
       /\ UNCHANGED world

\* The tick is over: the loader calls the service with the keys of the batch.
Dispatch(b) ==
    /\ Open(b)
    /\ batch' = [batch EXCEPT ![b] = Batch("sent", @.keys, <<>>)]
    /\ UNCHANGED <<world, entry, slots, history>>

\* The service finds the items there are, in an order of its own.
ServiceFinds(b) ==
    /\ Is(b, "sent")
    /\ LET there == {k \in ToSet(batch[b].keys) : item[k] # None}
       IN \E order \in SetToSeqs(there) :
            batch' = [batch EXCEPT ![b] =
                Batch("found", @.keys, [i \in DOMAIN order |-> [key |-> order[i], value |-> item[order[i]]]])]
    /\ UNCHANGED <<world, entry, slots, history>>

\* History: whoever waits for the batch, or finds it in the cache, may be told v for key k.
MayTell(b, ks, v) ==
    /\ may' = [r \in Requests |-> IF local[r].batch = b /\ body[r].key \in ks THEN may[r] \cup {v} ELSE may[r]]
    /\ mayCached' = [k \in Keys |-> IF entry[k] = b /\ k \in ks THEN mayCached[k] \cup {v} ELSE mayCached[k]]

\* It throws: createDataLoader goes on with no items, so the promises do not reject.
ServiceFails(b) ==
    /\ Is(b, "sent")
    /\ batch' = [batch EXCEPT ![b] = Batch("found", @.keys, <<>>)]
    /\ MayTell(b, Keys, None)
    /\ UNCHANGED <<world, entry, slots, matched>>

\* Mutant of Match: the n-th item is taken for the n-th key.
MatchByPlace(keys, items, k) ==
    LET n == CHOOSE i \in DOMAIN keys : keys[i] = k
    IN IF n \in DOMAIN items THEN items[n].value ELSE None
\* handleBatch: the first of the items that have the key.
Match(keys, items, k) ==
    LET own == {i \in DOMAIN items : items[i].key = k}
    IN IF own = {} THEN None ELSE items[CHOOSE i \in own : \A j \in own : i <= j].value

\* Mutant of Settle: the items are handed out as they came, not key by key.
SettleUnmatched(b) ==
    /\ Is(b, "found")
    /\ batch' = [batch EXCEPT ![b] = Batch("done", @.keys, @.found)]
    /\ UNCHANGED <<world, entry, slots, history>>
\* The batch function returns: every promise of the batch settles, and with it, in its turn,
\* each request that waits for one.
Settle(b) ==
    /\ Is(b, "found")
    /\ batch' = [batch EXCEPT ![b] =
                    Batch("done", @.keys, [k \in ToSet(@.keys) |-> Match(batch[b].keys, batch[b].found, k)])]
    /\ UNCHANGED <<world, entry, slots, history>>

\* What a request whose promise has settled is about to be told.
Settled(r) == pc[r] = "load" /\ Is(local[r].batch, "done")
Told(r) == batch[local[r].batch].found[body[r].key]

Resolve(r) ==
    /\ Settled(r)
    /\ Answer(r)
    /\ UNCHANGED <<world, entry, mayCached>>
    /\ Collect(batch)

\* The entry is older than its time to live, or the oldest of too many.
Evict(k) ==
    /\ entry[k] # None
    /\ entry' = [entry EXCEPT ![k] = None]
    /\ mayCached' = [mayCached EXCEPT ![k] = {}]
    /\ UNCHANGED <<world, slots, matched, may>>
    /\ Collect(batch)

-----------------------------------------------------------------------------
(* Others: whoever signs users in and out, and whoever writes the items. *)
ChangeSession(s, tokenType) ==
    /\ session' = [session EXCEPT ![s] = tokenType]
    /\ matched' = matched \cup {r \in Requests : pc[r] # "done" /\ Matches(body[r].token, session')}
    /\ UNCHANGED <<item, loader, slots, may, mayCached>>

ChangeItem(k, v) ==
    /\ item[k] # v
    /\ item' = [item EXCEPT ![k] = v]
    /\ may' = [r \in Requests |-> IF pc[r] = "load" /\ body[r].key = k THEN may[r] \cup {v} ELSE may[r]]
    /\ mayCached' = [mayCached EXCEPT ![k] = IF entry[k] = None THEN @ ELSE @ \cup {v}]
    /\ UNCHANGED <<session, loader, slots, matched>>

ASSUME SentAssumption ==
    Sent \subseteq [token: Tokens \cup {Introspection, None}, guard: {"open", "signedIn"} \cup Roles]

Next ==
    \/ \E r \in Requests, q \in Sent, k \in Keys : Arrive(r, Request(q.token, q.guard, k))
    \/ \E r \in Requests : Authenticate(r) \/ Refuse(r) \/ LoadCached(r) \/ LoadMissing(r) \/ Resolve(r)
    \/ \E b \in Batches : Dispatch(b) \/ ServiceFinds(b) \/ ServiceFails(b) \/ Settle(b)
    \/ \E k \in Keys : Evict(k) \/ \E v \in Values \cup {None} : ChangeItem(k, v)
    \/ \E s \in Subs, t \in TokenTypes \cup {None} : ChangeSession(s, t)

Spec == Init /\ [][Next]_vars

-----------------------------------------------------------------------------
RequestType == [token: Tokens \cup {Introspection, None}, guard: {"open", "signedIn"} \cup Roles, key: Keys \cup {None}]
LocalType == [credentials: Tokens \cup {None}, batch: Batches \cup {None}]
\* The items found are one per key.
ItemsOK(items) ==
    items \in Seq([key: Keys, value: Values]) /\ \A i, j \in DOMAIN items : items[i].key = items[j].key => i = j
BatchOK(p) ==
    /\ p.state \in {"none", "open", "sent", "found", "done"} /\ p.keys \in Seq(Keys)
    /\ IF p.state = "done" THEN p.found \in [ToSet(p.keys) -> Values \cup {None}] ELSE ItemsOK(p.found)

\* Everything has its type.
TypeOK ==
    /\ session \in [Subs -> TokenTypes \cup {None}] /\ item \in [Keys -> Values \cup {None}]
    /\ entry \in [Keys -> Batches \cup {None}]
    /\ batch = [b \in Batches |-> Batch(batch[b].state, batch[b].keys, batch[b].found)]
    /\ \A b \in Batches : BatchOK(batch[b])
    /\ body \in [Requests -> RequestType] /\ local \in [Requests -> LocalType]
    /\ pc \in [Requests -> {"session", "context", "load", "done"}]
    /\ matched \subseteq Requests
    /\ may \in [Requests -> SUBSET (Values \cup {None})] /\ mayCached \in [Keys -> SUBSET (Values \cup {None})]

\* A load is answered with what its own key said at some moment since the promise it got was
\* made, whichever requests shared its batch and whatever the service left out; and with
\* nothing for an item that was there all the time only if the service failed in that time
\* (createDataLoader, handleBatch, the shared cacheMap).
LoadsAnswerTheirKey ==
    \A r \in Requests : Settled(r) => Told(r) \in may[r]

\* With one exception, a guarded field is reached only by a token whose session was alive,
\* with its own token type, at some moment since the request began, and which carries the
\* role the field asks for: no credentials of another request, and none of an earlier one in
\* the same slot, are taken for its own. The exception is a request whose text begins with
\* "query Introspection": authenticate looks at no token of it, authChecker answers it
\* everything, whichever fields the text goes on to name (authenticate, authChecker).
GuardedNeedsSession ==
    \A r \in Requests :
        Running(r, "context") /\ Allowed(r) /\ body[r].guard # "open" /\ body[r].token # Introspection =>
            r \in matched /\ (body[r].guard = "signedIn" \/ body[r].guard \in body[r].token.roles)

\* A promise for key k of batch p that may only be told what is in set told, when the item
\* says now: the batch is there and has the key, and however far it is, it will say nothing else.
MaySay(p, k, told, now) ==
    /\ p.state # "none" /\ k \in ToSet(p.keys)
    /\ now \in told
    /\ p.state = "found" => Match(p.keys, p.found, k) \in told
    /\ p.state = "done" => p.found[k] \in told
BatchesEmpty == \A b \in Batches : batch[b].state \in {"none", "open", "sent"} => batch[b].found = <<>>
WaitersTold ==
    \A r \in Requests : pc[r] = "load" =>
        /\ local[r].batch \in Batches /\ body[r].key \in Keys
        /\ MaySay(batch[local[r].batch], body[r].key, may[r], item[body[r].key])
EntriesTold ==
    \A k \in Keys : entry[k] # None => entry[k] \in Batches /\ MaySay(batch[entry[k]], k, mayCached[k], item[k])

\* Credentials are those of the request's own token, found alive since it began.
SessionsFound ==
    \A r \in Requests :
        /\ pc[r] \in {"session", "context"} => body[r].key \in Keys
        /\ pc[r] \in {"session", "context"} /\ Matches(body[r].token, session) => r \in matched
        /\ pc[r] = "session" => body[r].token \in Tokens
        /\ pc[r] \in {"done", "session"} => local[r].credentials = None
        /\ pc[r] = "context" /\ local[r].credentials # None =>
               r \in matched /\ local[r].credentials = body[r].token

\* The inductive invariant.
IInv == TypeOK /\ BatchesEmpty /\ WaitersTold /\ EntriesTold /\ SessionsFound
=============================================================================
