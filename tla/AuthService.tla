----------------------------- MODULE AuthService -----------------------------
(***************************************************************************)
(* Accounts and refresh tokens: AuthService, the password half of          *)
(* UserService, and the two tables they work on (UserRepository,           *)
(* RefreshTokenRepository).  Requests are served by one Node event loop:   *)
(* the code between two awaits is one action, every SQL statement is one   *)
(* action, and anything else may run in between.  issueTokenPair sends the *)
(* INSERT of the new refresh token without awaiting it, so signed tokens   *)
(* sit in `pending` until the database has them (or never gets them).      *)
(***************************************************************************)
EXTENDS Naturals, FiniteSets

CONSTANTS
    Requests,     \* slots for HTTP requests in flight; a slot is reused
    UserIds,      \* values of user.id
    Emails, Usernames, Passwords,
    Tokens,       \* refresh JWTs: each signature carries a fresh uuid (jti)
    None,         \* no row, no value
    Accounts0,    \* the user table when the process starts
    Ops,          \* the endpoints the clients of this instance use
    Registrations, \* the bodies they send to POST /auth/register
    Faults        \* what may go wrong: a subset of {"db", "crash", "expiry"}

Minting == {"register", "login", "refresh"}      \* the endpoints that answer with a pair
AllOps  == Minting \cup {"logout", "updateMe"}

Account == [email: Emails, username: Usernames, password: Passwords]
Payload == [sub: UserIds, email: Emails]
Row     == [userId: UserIds, revoked: BOOLEAN]

ASSUME NoneAssumption ==
    None \notin Emails \cup Usernames \cup Passwords \cup UserIds \cup Tokens \cup Account \cup Payload \cup Row

\* The tables declare email and username UNIQUE.
UniqueKeys(table) ==
    \A a, b \in UserIds : a # b /\ table[a] # None /\ table[b] # None
        => table[a].email # table[b].email /\ table[a].username # table[b].username

ASSUME Accounts0Assumption ==
    Accounts0 \in [UserIds -> Account \cup {None}] /\ UniqueKeys(Accounts0)

ASSUME OpsAssumption == Ops \subseteq AllOps

ASSUME RegistrationsAssumption == Registrations \subseteq Account

VARIABLES
    users,        \* table user: account by id, or None
    rows,         \* table refresh_token, by token, or None
    pending,      \* INSERTs into refresh_token sent and not awaited
    jwt,          \* what each signed refresh token says, or None if never signed
    jwtExpired,   \* tokens whose exp claim has passed for this process's clock
    rowExpired,   \* tokens whose expiresAt has passed for the database's NOW()
    body,         \* what the latest request of each slot carries
    pc,           \* the await its handler stands at, or "done"
    local,        \* the handler's locals
    reply,        \* its answer
    \* History, read by the properties only:
    ended,        \* tokens whose revocation was acknowledged with a 200
    late,         \* slots whose refresh began after its token had ended
    held          \* passwords the account named by a login had since it began

tables == <<users, rows, pending, jwt>>
clocks == <<jwtExpired, rowExpired>>
slots == <<body, pc, local, reply>>
history == <<ended, late, held>>
vars == <<users, rows, pending, jwt, jwtExpired, rowExpired, body, pc, local, reply, ended, late, held>>

Request(op, e, n, p, t, u) ==
    [email |-> e, username |-> n, password |-> p, token |-> t, op |-> op, user |-> u]
Locals(u, e, h) == [email |-> e, user |-> u, hash |-> h, seen |-> {}]
NoRequest == Request("none", None, None, None, None, None)
NoLocals == Locals(None, None, None)
NoReply == [code |-> "none", pair |-> None]

Signed == {t \in Tokens : jwt[t] # None}
InFlight(r) == pc[r] # "done"
Running(r, op, at) == body[r].op = op /\ pc[r] = at

Goto(r, at, locals) ==
    /\ pc' = [pc EXCEPT ![r] = at]
    /\ local' = [local EXCEPT ![r] = locals]
    /\ UNCHANGED <<body, reply>>

Answer(r, code, pair) ==
    /\ pc' = [pc EXCEPT ![r] = "done"]
    /\ local' = [local EXCEPT ![r] = NoLocals]
    /\ reply' = [reply EXCEPT ![r] = [code |-> code, pair |-> pair]]
    /\ UNCHANGED body

Init ==
    /\ users = Accounts0
    /\ rows = [t \in Tokens |-> None]
    /\ jwt = [t \in Tokens |-> None]
    /\ pending = {} /\ jwtExpired = {} /\ rowExpired = {} /\ ended = {}
    /\ body = [r \in Requests |-> NoRequest]
    /\ pc = [r \in Requests |-> "done"]
    /\ local = [r \in Requests |-> NoLocals]
    /\ reply = [r \in Requests |-> NoReply]
    /\ late = [r \in Requests |-> FALSE]
    /\ held = [r \in Requests |-> {}]

-----------------------------------------------------------------------------
(* Bound of the model: a request that will sign a token only starts while an *)
(* unsigned one is left for it; in the code uuids do not run out.            *)
TokenLeft ==
    Cardinality(Signed) + Cardinality({r \in Requests : InFlight(r) /\ body[r].op \in Minting})
        < Cardinality(Tokens)

\* A request arrives in a free slot.
Begin(r, request, at, isLate, heldNow) ==
    /\ request.op \in Ops /\ ~InFlight(r)
    /\ request.op \in Minting => TokenLeft
    /\ body' = [body EXCEPT ![r] = request]
    /\ pc' = [pc EXCEPT ![r] = at]
    /\ reply' = [reply EXCEPT ![r] = NoReply]
    /\ late' = [late EXCEPT ![r] = isLate]
    /\ held' = [held EXCEPT ![r] = heldNow]
    /\ UNCHANGED <<tables, clocks, local, ended>>

StartRegister(r, e, n, p) == Begin(r, Request("register", e, n, p, None, None), "find", FALSE, {})

PasswordsOf(n) == {users[u].password : u \in {v \in UserIds : users[v] # None /\ users[v].username = n}}
StartLogin(r, n, p) == Begin(r, Request("login", None, n, p, None, None), "find", FALSE, PasswordsOf(n))

StartRefresh(r, t) ==
    /\ t \in Signed
    /\ Begin(r, Request("refresh", None, None, None, t, None), "find",
             t \in ended \cup jwtExpired \cup rowExpired, {})

StartLogout(r, t) ==
    /\ t \in Signed
    /\ Begin(r, Request("logout", None, None, None, t, None), "revoke", FALSE, {})

\* @CurrentUser comes from a verified access token, so u has an account.
StartUpdateMe(r, u, p) ==
    /\ users[u] # None
    /\ Begin(r, Request("updateMe", None, None, p, None, u), "update", FALSE, {})

\* History: the account named n now has password p.
Holds(n, p) ==
    held' = [s \in Requests |-> IF body[s].op = "login" /\ InFlight(s) /\ body[s].username = n
                                THEN held[s] \cup {p} ELSE held[s]]

-----------------------------------------------------------------------------
\* Mutants of IssueTokenPair: sub and email swapped; no INSERT.
IssueSwapped(r, u, e) ==
    \E t \in Tokens :
        /\ jwt[t] = None
        /\ jwt' = [jwt EXCEPT ![t] = [sub |-> e, email |-> u]]
        /\ pending' = pending \cup {[token |-> t, userId |-> u]}
        /\ Answer(r, "200", t)
IssueUnstored(r, u, e) ==
    \E t \in Tokens :
        /\ jwt[t] = None
        /\ jwt' = [jwt EXCEPT ![t] = [sub |-> u, email |-> e]]
        /\ Answer(r, "200", t) /\ UNCHANGED pending

\* issueTokenPair: sign both JWTs, send the INSERT, answer without awaiting it.
\* The access token carries the same sub and email as jwt[t].
IssueTokenPair(r, u, e) ==
    \E t \in Tokens :
        /\ jwt[t] = None
        /\ jwt' = [jwt EXCEPT ![t] = [sub |-> u, email |-> e]]
        /\ pending' = pending \cup {[token |-> t, userId |-> u]}
        /\ Answer(r, "200", t)

\* The INSERT of an earlier issueTokenPair commits, or is rejected and only logged.
StoreToken(w) ==
    /\ w \in pending
    /\ pending' = pending \ {w}
    /\ rows' = [rows EXCEPT ![w.token] = [userId |-> w.userId, revoked |-> FALSE]]
    /\ UNCHANGED <<users, jwt, clocks, slots, history>>

StoreFails(w) ==
    /\ "db" \in Faults /\ w \in pending
    /\ pending' = pending \ {w}
    /\ UNCHANGED <<users, rows, jwt, clocks, slots, history>>

\* Mutant of Revoke: the row is deleted instead of marked.
RevokeByDeleting(t) == rows' = [rows EXCEPT ![t] = None]

\* revokeByToken: an UPDATE by token; it matches no row while the INSERT is pending.
Revoke(t) ==
    rows' = IF rows[t] = None THEN rows ELSE [rows EXCEPT ![t].revoked = TRUE]

-----------------------------------------------------------------------------
(* register: two concurrent SELECTs, the checks, bcrypt, INSERT, issue.      *)
RegisterFindEmail(r) ==
    /\ Running(r, "register", "find") /\ \A x \in local[r].seen : x.column # "email"
    /\ LET exists == \E u \in UserIds : users[u] # None /\ users[u].email = body[r].email
       IN local' = [local EXCEPT ![r].seen = @ \cup {[column |-> "email", exists |-> exists]}]
    /\ UNCHANGED <<tables, clocks, body, pc, reply, history>>

RegisterFindUsername(r) ==
    /\ Running(r, "register", "find") /\ \A x \in local[r].seen : x.column # "username"
    /\ LET exists == \E u \in UserIds : users[u] # None /\ users[u].username = body[r].username
       IN local' = [local EXCEPT ![r].seen = @ \cup {[column |-> "username", exists |-> exists]}]
    /\ UNCHANGED <<tables, clocks, body, pc, reply, history>>

RegisterDecide(r) ==
    /\ Running(r, "register", "find")
    /\ {x.column : x \in local[r].seen} = {"email", "username"}
    /\ \/ (\E x \in local[r].seen : x.exists) /\ Answer(r, "409", None)
       \/ (\A x \in local[r].seen : ~x.exists) /\ Goto(r, "insert", NoLocals)
    /\ UNCHANGED <<tables, clocks, history>>

\* Mutant of RegisterInsert: columns without UNIQUE.
RegisterInsertUnchecked(r) ==
    /\ Running(r, "register", "insert")
    /\ LET b == body[r]
       IN /\ \E u \in UserIds :
               /\ users[u] = None
               /\ users' = [users EXCEPT ![u] =
                              [email |-> b.email, username |-> b.username, password |-> b.password]]
               /\ Goto(r, "issue", Locals(u, b.email, None))
          /\ Holds(b.username, b.password)
    /\ UNCHANGED <<rows, pending, jwt, clocks, ended, late>>

\* userRepo.create: the unique columns reject the loser of a race (answered 500).
RegisterInsert(r) ==
    /\ Running(r, "register", "insert")
    /\ LET b == body[r]
           taken == \E u \in UserIds :
                       users[u] # None /\ (users[u].email = b.email \/ users[u].username = b.username)
       IN \/ /\ taken
             /\ Answer(r, "500", None)
             /\ UNCHANGED <<users, held>>
          \/ /\ ~taken
             /\ \E u \in UserIds :
                   /\ users[u] = None
                   /\ users' = [users EXCEPT ![u] =
                                  [email |-> b.email, username |-> b.username, password |-> b.password]]
                   /\ Goto(r, "issue", Locals(u, b.email, None))
             /\ Holds(b.username, b.password)
    /\ UNCHANGED <<rows, pending, jwt, clocks, ended, late>>

RegisterIssue(r) ==
    /\ Running(r, "register", "issue")
    /\ IssueTokenPair(r, local[r].user, local[r].email)
    /\ UNCHANGED <<users, rows, clocks, history>>

\* Mutant of LoginFind: no WHERE username.
LoginFindAnyone(r) ==
    /\ Running(r, "login", "find")
    /\ \E u \in UserIds : users[u] # None /\ Goto(r, "compare", Locals(u, users[u].email, users[u].password))
    /\ UNCHANGED <<tables, clocks, history>>
\* Mutants of LoginCompare: a wrong password gets no answer; the result of bcrypt.compare is
\* not awaited, so it is truthy.
LoginCompareSilent(r) ==
    /\ Running(r, "login", "compare") /\ body[r].password = local[r].hash
    /\ IssueTokenPair(r, local[r].user, local[r].email)
    /\ UNCHANGED <<users, rows, clocks, history>>
LoginCompareAlways(r) ==
    /\ Running(r, "login", "compare")
    /\ IssueTokenPair(r, local[r].user, local[r].email)
    /\ UNCHANGED <<users, rows, clocks, history>>

(* login: SELECT with the hash, then bcrypt.compare against what was read.   *)
LoginFind(r) ==
    /\ Running(r, "login", "find")
    /\ \/ \E u \in UserIds :
            /\ users[u] # None /\ users[u].username = body[r].username
            /\ Goto(r, "compare", Locals(u, users[u].email, users[u].password))
       \/ /\ \A u \in UserIds : users[u] # None => users[u].username # body[r].username
          /\ Answer(r, "401", None)
    /\ UNCHANGED <<tables, clocks, history>>

LoginCompare(r) ==
    /\ Running(r, "login", "compare")
    /\ \/ body[r].password = local[r].hash /\ IssueTokenPair(r, local[r].user, local[r].email)
       \/ body[r].password # local[r].hash /\ Answer(r, "401", None) /\ UNCHANGED <<pending, jwt>>
    /\ UNCHANGED <<users, rows, clocks, history>>

(* refresh: findValid, jwt.verify, revokeByToken, issue.                     *)
\* Mutant of FindValid: revoked rows are found too.
FindUnexpired(t) == rows[t] # None /\ t \notin rowExpired
FindValid(t) == rows[t] # None /\ ~rows[t].revoked /\ t \notin rowExpired

RefreshFind(r) ==
    /\ Running(r, "refresh", "find")
    /\ LET t == body[r].token
       IN \/ FindValid(t) /\ Goto(r, "verify", Locals(rows[t].userId, None, None))
          \/ ~FindValid(t) /\ Answer(r, "401", None)
    /\ UNCHANGED <<tables, clocks, history>>

RefreshVerify(r) ==
    /\ Running(r, "refresh", "verify")
    /\ LET t == body[r].token
       IN \/ t \notin jwtExpired /\ Goto(r, "revoke", Locals(local[r].user, jwt[t].email, None))
          \/ t \in jwtExpired /\ Answer(r, "401", None)
    /\ UNCHANGED <<tables, clocks, history>>

\* Mutant of RefreshRevoke: the presented token is not revoked.
RefreshKeep(r) ==
    /\ Running(r, "refresh", "revoke")
    /\ Goto(r, "issue", local[r])
    /\ UNCHANGED <<tables, clocks, history>>

RefreshRevoke(r) ==
    /\ Running(r, "refresh", "revoke")
    /\ Revoke(body[r].token)
    /\ Goto(r, "issue", local[r])
    /\ UNCHANGED <<users, pending, jwt, clocks, history>>

RefreshIssue(r) ==
    /\ Running(r, "refresh", "issue")
    /\ IssueTokenPair(r, local[r].user, local[r].email)
    /\ ended' = ended \cup {body[r].token}
    /\ UNCHANGED <<users, rows, clocks, late, held>>

(* logout: one UPDATE, whose row count nobody looks at.                      *)
LogoutRevoke(r) ==
    /\ Running(r, "logout", "revoke")
    /\ Revoke(body[r].token)
    /\ Answer(r, "200", None)
    /\ ended' = IF rows[body[r].token] = None THEN ended ELSE ended \cup {body[r].token}
    /\ UNCHANGED <<users, pending, jwt, clocks, late, held>>

(* updateMe with a password: bcrypt.hash, UPDATE, SELECT.                    *)
UpdateMeWrite(r) ==
    /\ Running(r, "updateMe", "update")
    /\ users' = [users EXCEPT ![body[r].user].password = body[r].password]
    /\ Holds(users[body[r].user].username, body[r].password)
    /\ Goto(r, "reread", NoLocals)
    /\ UNCHANGED <<rows, pending, jwt, clocks, ended, late>>

UpdateMeReread(r) ==
    /\ Running(r, "updateMe", "reread")
    /\ Answer(r, IF users[body[r].user] = None THEN "404" ELSE "200", None)
    /\ UNCHANGED <<tables, clocks, history>>

-----------------------------------------------------------------------------
(* The environment: a failed statement rejects the awaited promise and the   *)
(* error handler answers 500; when the UPDATE had already committed the      *)
(* handler stands at the statement's continuation.                           *)
DbError(r) ==
    /\ "db" \in Faults /\ InFlight(r)
    /\ Answer(r, "500", None)
    /\ UNCHANGED <<tables, clocks, history>>

\* The process dies and is restarted: every handler is gone, and of the
\* pending INSERTs only those already sent to the database survive.
Crash ==
    /\ "crash" \in Faults
    /\ pc' = [r \in Requests |-> "done"]
    /\ local' = [r \in Requests |-> NoLocals]
    /\ body' = [r \in Requests |-> IF InFlight(r) THEN NoRequest ELSE body[r]]
    /\ pending' \in SUBSET pending
    /\ UNCHANGED <<users, rows, jwt, clocks, reply, history>>

ExpireJwt(t) ==
    /\ "expiry" \in Faults /\ t \in Signed
    /\ jwtExpired' = jwtExpired \cup {t}
    /\ UNCHANGED <<tables, rowExpired, slots, history>>

ExpireRow(t) ==
    /\ "expiry" \in Faults /\ t \in Signed
    /\ rowExpired' = rowExpired \cup {t}
    /\ UNCHANGED <<tables, jwtExpired, slots, history>>

-----------------------------------------------------------------------------
Client(r) ==
    \/ \E b \in Registrations : StartRegister(r, b.email, b.username, b.password)
    \/ \E n \in Usernames, p \in Passwords : StartLogin(r, n, p)
    \/ \E t \in Tokens : StartRefresh(r, t) \/ StartLogout(r, t)
    \/ \E u \in UserIds, p \in Passwords : StartUpdateMe(r, u, p)

Handler(r) ==
    \/ RegisterFindEmail(r) \/ RegisterFindUsername(r) \/ RegisterDecide(r)
    \/ RegisterInsert(r) \/ RegisterIssue(r)
    \/ LoginFind(r) \/ LoginCompare(r)
    \/ RefreshFind(r) \/ RefreshVerify(r) \/ RefreshRevoke(r) \/ RefreshIssue(r)
    \/ LogoutRevoke(r)
    \/ UpdateMeWrite(r) \/ UpdateMeReread(r)

Next ==
    \/ \E r \in Requests : Client(r) \/ Handler(r) \/ DbError(r)
    \/ \E w \in pending : StoreToken(w) \/ StoreFails(w)
    \/ \E t \in Tokens : ExpireJwt(t) \/ ExpireRow(t)
    \/ Crash

Spec == Init /\ [][Next]_vars

\* The event loop runs every ready continuation and the database answers every
\* statement it was sent; clients, faults and clocks owe nothing.
Fairness ==
    /\ \A r \in Requests : WF_vars(Handler(r))
    /\ \A t \in Tokens, u \in UserIds : WF_vars(StoreToken([token |-> t, userId |-> u]))

FairSpec == Spec /\ Fairness

-----------------------------------------------------------------------------
RequestType ==
    [op: AllOps \cup {"none"}, email: Emails \cup {None}, username: Usernames \cup {None},
     password: Passwords \cup {None}, token: Tokens \cup {None}, user: UserIds \cup {None}]
LocalType ==
    [user: UserIds \cup {None}, email: Emails \cup {None}, hash: Passwords \cup {None},
     seen: SUBSET [column: {"email", "username"}, exists: BOOLEAN]]
ReplyType ==
    [code: {"none", "200", "401", "404", "409", "500"}, pair: Tokens \cup {None}]

\* The tables, the in-flight INSERTs and every handler's locals have their types.
TypeOK ==
    /\ users \in [UserIds -> Account \cup {None}]
    /\ rows \in [Tokens -> Row \cup {None}]
    /\ jwt \in [Tokens -> Payload \cup {None}]
    /\ pending \in SUBSET [token: Tokens, userId: UserIds]
    /\ jwtExpired \subseteq Tokens /\ rowExpired \subseteq Tokens
    /\ body \in [Requests -> RequestType]
    /\ pc \in [Requests -> {"done", "find", "insert", "issue", "compare", "verify",
                            "revoke", "update", "reread"}]
    /\ local \in [Requests -> LocalType]
    /\ reply \in [Requests -> ReplyType]
    /\ ended \subseteq Tokens
    /\ late \in [Requests -> BOOLEAN]
    /\ held \in [Requests -> SUBSET Passwords]

\* Two registrations that both passed the "already registered" checks never
\* leave two accounts with one email or one username (register, User entity).
AccountsUnique == UniqueKeys(users)

\* Along every chain of logins, registrations and refreshes, what a signed
\* token says, the row stored for it, the INSERT still on its way and the
\* account table name one and the same account; and the pair answered to a
\* login belongs to the username that logged in (issueTokenPair's arguments
\* come from the row on one side and from the JWT on the other).
PairsBelongToOneAccount ==
    /\ \A t \in Signed :
        /\ users[jwt[t].sub] # None /\ users[jwt[t].sub].email = jwt[t].email
        /\ rows[t] # None => rows[t].userId = jwt[t].sub
    /\ \A w \in pending : w.token \in Signed /\ w.userId = jwt[w.token].sub
    /\ \A r \in Requests : body[r].op \in {"login", "register"} /\ reply[r].code = "200"
        => users[jwt[reply[r].pair].sub].username = body[r].username

\* A refresh that begins after its token ended, by an acknowledged refresh, by an
\* acknowledged logout that found the row, or by either clock, is never answered
\* with a new pair, whatever runs between findValid, jwt.verify and revokeByToken.
RefreshAfterEndFails ==
    \A r \in Requests : body[r].op = "refresh" /\ reply[r].code = "200" => ~late[r]

\* A pair handed out by refresh has cost its token: the presented row is revoked
\* by then and stays so, even if its INSERT, other refreshes or a crash interleave.
RefreshConsumesToken ==
    \A r \in Requests : body[r].op = "refresh" /\ reply[r].code = "200"
        => rows[body[r].token] # None /\ rows[body[r].token].revoked

\* A login that succeeds presented a password the account had at some moment
\* between the request's start and its answer, although bcrypt.compare works on
\* a hash read earlier and updateMe may have replaced it meanwhile.
LoginUsesHeldPassword ==
    \A r \in Requests : body[r].op = "login" /\ reply[r].code = "200" => body[r].password \in held[r]

-----------------------------------------------------------------------------
(* The inductive invariant behind the properties above: what each handler's  *)
(* locals still say about the tables while others run, and what an answer    *)
(* still says once it has been sent.                                         *)
TokensAgree ==
    /\ \A t \in Signed :
        /\ users[jwt[t].sub] # None /\ users[jwt[t].sub].email = jwt[t].email
        /\ rows[t] # None => rows[t].userId = jwt[t].sub
    /\ \A w \in pending : w.token \in Signed /\ w.userId = jwt[w.token].sub /\ rows[w.token] = None
    /\ \A t \in Tokens : rows[t] # None => t \in Signed
    /\ \A t \in ended : rows[t] # None /\ rows[t].revoked

\* The account a handler is about to sign for: its row carries the email it will sign.
NamesAccount(r) ==
    local[r].user \in UserIds /\ users[local[r].user] # None /\ users[local[r].user].email = local[r].email

RegisterLocals(r) ==
    /\ body[r].email \in Emails /\ body[r].username \in Usernames /\ body[r].password \in Passwords
    /\ pc[r] = "issue" => NamesAccount(r) /\ users[local[r].user].username = body[r].username

LoginLocals(r) ==
    /\ \A u \in UserIds : users[u] # None /\ users[u].username = body[r].username
        => users[u].password \in held[r]
    /\ pc[r] = "compare" =>
        NamesAccount(r) /\ users[local[r].user].username = body[r].username /\ local[r].hash \in held[r]

RefreshLocals(r) ==
    /\ body[r].token \in Signed
    /\ late[r] => body[r].token \in ended \cup jwtExpired \cup rowExpired
    /\ pc[r] # "find" =>
        /\ rows[body[r].token] # None /\ local[r].user = rows[body[r].token].userId
        /\ late[r] => pc[r] = "verify" /\ body[r].token \in jwtExpired
    /\ pc[r] \in {"revoke", "issue"} => local[r].email = jwt[body[r].token].email
    /\ pc[r] = "issue" => rows[body[r].token].revoked

HandlerInv(r) == InFlight(r) =>
    /\ reply[r].code = "none"
    /\ body[r].op = "register" => RegisterLocals(r)
    /\ body[r].op = "login" => LoginLocals(r)
    /\ body[r].op = "refresh" => RefreshLocals(r)
    /\ body[r].op = "logout" => body[r].token \in Signed
    /\ body[r].op = "updateMe" => /\ body[r].user \in UserIds /\ users[body[r].user] # None
                                  /\ body[r].password \in Passwords

AnswerInv(r) == reply[r].code = "200" =>
    /\ body[r].op \in {"register", "login"} =>
        reply[r].pair \in Signed /\ users[jwt[reply[r].pair].sub].username = body[r].username
    /\ body[r].op = "login" => body[r].password \in held[r]
    /\ body[r].op = "refresh" =>
        ~late[r] /\ body[r].token \in Signed /\ rows[body[r].token] # None /\ rows[body[r].token].revoked

IInv ==
    /\ TypeOK
    /\ AccountsUnique
    /\ TokensAgree
    /\ \A r \in Requests : HandlerInv(r) /\ AnswerInv(r)

-----------------------------------------------------------------------------
\* Every request that was started is answered, or dies with its process: no
\* handler waits on another one for ever.
RequestsAnswered == \A r \in Requests : InFlight(r) ~> ~InFlight(r)

\* Without database errors and crashes the token a client was handed reaches the
\* table although nobody awaits its INSERT (issueTokenPair).
SignedTokensStored == \A t \in Tokens : t \in Signed ~> rows[t] # None

=============================================================================
