-------------------------- MODULE AuthServiceProofs --------------------------
(***************************************************************************)
(* Proofs about AuthService, for every number of requests, tokens, users   *)
(* and for every set of faults.                                            *)
(***************************************************************************)
EXTENDS AuthService, TLAPS

(***************************************************************************)
(* Types.                                                                  *)
(***************************************************************************)

\* What a request is started with, and the locals of a handler, have their types.
LEMMA RequestTyped ==
    ASSUME NEW op \in AllOps \cup {"none"}, NEW e \in Emails \cup {None}, NEW n \in Usernames \cup {None},
           NEW p \in Passwords \cup {None}, NEW t \in Tokens \cup {None}, NEW u \in UserIds \cup {None}
    PROVE  Request(op, e, n, p, t, u) \in RequestType
BY DEF Request, RequestType

\* Typed values make typed locals.
LEMMA LocalsTyped ==
    ASSUME NEW u \in UserIds \cup {None}, NEW e \in Emails \cup {None}, NEW h \in Passwords \cup {None}
    PROVE  Locals(u, e, h) \in LocalType
BY DEF Locals, LocalType

\* What an idle slot has is typed.
LEMMA NoValuesTyped == NoRequest \in RequestType /\ NoLocals \in LocalType /\ NoReply \in ReplyType
BY RequestTyped, LocalsTyped DEF NoRequest, NoLocals, NoReply, ReplyType

\* Beginning a request preserves the type invariant.
LEMMA TypeBegin ==
    ASSUME TypeOK, NEW r \in Requests, NEW request \in RequestType, NEW at \in {"find", "revoke", "update"},
           NEW isLate \in BOOLEAN, NEW heldNow \in SUBSET Passwords, Begin(r, request, at, isLate, heldNow)
    PROVE  TypeOK'
BY NoValuesTyped DEF TypeOK, Begin, tables, clocks

\* A request that begins keeps the types.
LEMMA TypeStart ==
    ASSUME TypeOK, NEW r \in Requests, Client(r)
    PROVE  TypeOK'
<1>. USE DEF AllOps, Minting
<1>0. {} \in SUBSET Passwords
  OBVIOUS
<1>1. ASSUME NEW e \in Emails, NEW n \in Usernames, NEW p \in Passwords, StartRegister(r, e, n, p)
      PROVE  TypeOK'
  BY <1>0, <1>1, TypeBegin, RequestTyped DEF StartRegister
<1>2. ASSUME NEW n \in Usernames, NEW p \in Passwords, StartLogin(r, n, p)
      PROVE  TypeOK'
  <2>1. PasswordsOf(n) \in SUBSET Passwords
    BY NoneAssumption DEF TypeOK, Account, PasswordsOf
  <2>. QED  BY <1>2, <2>1, TypeBegin, RequestTyped DEF StartLogin
<1>3. ASSUME NEW t \in Tokens, StartRefresh(r, t)
      PROVE  TypeOK'
  <2>. DEFINE isLate == t \in ended \cup jwtExpired \cup rowExpired
  <2>1. isLate \in BOOLEAN
    OBVIOUS
  <2>2. Begin(r, Request("refresh", None, None, None, t, None), "find", isLate, {})
    BY <1>3 DEF StartRefresh
  <2>. HIDE DEF isLate
  <2>. QED  BY <1>0, <2>1, <2>2, TypeBegin, RequestTyped
<1>4. ASSUME NEW t \in Tokens, StartLogout(r, t)
      PROVE  TypeOK'
  BY <1>0, <1>4, TypeBegin, RequestTyped DEF StartLogout
<1>5. ASSUME NEW u \in UserIds, NEW p \in Passwords, StartUpdateMe(r, u, p)
      PROVE  TypeOK'
  BY <1>0, <1>5, TypeBegin, RequestTyped DEF StartUpdateMe
<1>6. \A b \in Registrations : b.email \in Emails /\ b.username \in Usernames /\ b.password \in Passwords
  BY RegistrationsAssumption DEF Account
<1>. QED  BY <1>1, <1>2, <1>3, <1>4, <1>5, <1>6 DEF Client

\* Answering, and moving to the next await, keep a slot typed.
LEMMA TypeAnswer ==
    ASSUME TypeOK, NEW r \in Requests, NEW code \in {"200", "401", "404", "409", "500"},
           NEW pair \in Tokens \cup {None}, Answer(r, code, pair)
    PROVE  /\ body' \in [Requests -> RequestType] /\ local' \in [Requests -> LocalType]
           /\ reply' \in [Requests -> ReplyType]
           /\ pc' \in [Requests -> {"done", "find", "insert", "issue", "compare", "verify",
                                    "revoke", "update", "reread"}]
<1>1. [code |-> code, pair |-> pair] \in ReplyType
  BY DEF ReplyType
<1>. QED  BY <1>1, NoValuesTyped DEF TypeOK, Answer

\* A handler that goes on to its next await keeps the types.
LEMMA TypeGoto ==
    ASSUME TypeOK, NEW r \in Requests, NEW at \in {"insert", "issue", "compare", "verify", "revoke", "reread"},
           NEW locals \in LocalType, Goto(r, at, locals)
    PROVE  /\ body' \in [Requests -> RequestType] /\ local' \in [Requests -> LocalType]
           /\ reply' \in [Requests -> ReplyType]
           /\ pc' \in [Requests -> {"done", "find", "insert", "issue", "compare", "verify",
                                    "revoke", "update", "reread"}]
BY DEF TypeOK, Goto

\* A handler about to issue a pair names an existing account, by its own email.
LEMMA IssueArgs ==
    ASSUME IInv, NEW r \in Requests,
           Running(r, "register", "issue") \/ Running(r, "login", "compare") \/ Running(r, "refresh", "issue")
    PROVE  NamesAccount(r) /\ local[r].email \in Emails
<1>1. CASE Running(r, "refresh", "issue")
  <2>1. RefreshLocals(r)
    BY <1>1 DEF IInv, HandlerInv, Running, InFlight
  <2>2. NamesAccount(r)
    BY <1>1, <2>1, NoneAssumption DEF IInv, TypeOK, TokensAgree, RefreshLocals, NamesAccount, Running, Signed, Payload
  <2>. QED  BY <2>2, NoneAssumption DEF IInv, TypeOK, NamesAccount, Account
<1>2. CASE Running(r, "register", "issue") \/ Running(r, "login", "compare")
  <2>1. NamesAccount(r)
    BY <1>2 DEF IInv, HandlerInv, Running, InFlight, RegisterLocals, LoginLocals
  <2>. QED  BY <2>1, NoneAssumption DEF IInv, TypeOK, NamesAccount, Account
<1>. QED  BY <1>1, <1>2

\* Signing a pair keeps the types.
LEMMA TypeIssue ==
    ASSUME TypeOK, NEW r \in Requests, NEW u \in UserIds, NEW e \in Emails, IssueTokenPair(r, u, e),
           UNCHANGED <<users, rows, jwtExpired, rowExpired, late, held>>, ended' \subseteq Tokens
    PROVE  TypeOK'
<1>1. PICK t \in Tokens : /\ jwt' = [jwt EXCEPT ![t] = [sub |-> u, email |-> e]]
                          /\ pending' = pending \cup {[token |-> t, userId |-> u]}
                          /\ Answer(r, "200", t)
  BY DEF IssueTokenPair
<1>2. jwt' \in [Tokens -> Payload \cup {None}] /\ pending' \in SUBSET [token: Tokens, userId: UserIds]
  BY <1>1 DEF TypeOK, Payload
<1>. QED  BY <1>1, <1>2, TypeAnswer DEF TypeOK

\* revokeByToken keeps the table typed.
LEMMA TypeRevoke ==
    ASSUME TypeOK, NEW t \in Tokens, Revoke(t)
    PROVE  rows' \in [Tokens -> Row \cup {None}]
BY NoneAssumption DEF TypeOK, Revoke, Row

\* The handlers' steps preserve the type invariant.
LEMMA TypeHandler ==
    ASSUME IInv, NEW r \in Requests, Handler(r)
    PROVE  TypeOK'
<1>. USE DEF tables, clocks, slots, history
<1>0. TypeOK /\ HandlerInv(r)
  BY DEF IInv
<1>1. CASE RegisterFindEmail(r) \/ RegisterFindUsername(r)
  <2>1. ASSUME NEW column \in {"email", "username"}, NEW exists \in BOOLEAN
        PROVE  [local EXCEPT ![r].seen = @ \cup {[column |-> column, exists |-> exists]}]
                   \in [Requests -> LocalType]
    <3>1. local[r] \in LocalType /\ local[r].seen \in SUBSET [column: {"email", "username"}, exists: BOOLEAN]
      BY <1>0 DEF TypeOK, LocalType
    <3>2. [local[r] EXCEPT !.seen = @ \cup {[column |-> column, exists |-> exists]}] \in LocalType
      BY <3>1 DEF LocalType
    <3>. QED  BY <1>0, <3>2 DEF TypeOK
  <2>2. local' \in [Requests -> LocalType]
    BY <1>1, <2>1 DEF RegisterFindEmail, RegisterFindUsername
  <2>. QED  BY <1>0, <1>1, <2>2 DEF TypeOK, RegisterFindEmail, RegisterFindUsername
<1>2. CASE RegisterDecide(r)
  BY <1>0, <1>2, TypeAnswer, TypeGoto, NoValuesTyped DEF RegisterDecide, TypeOK
<1>3. CASE RegisterInsert(r)
  <2>1. /\ body[r].email \in Emails /\ body[r].username \in Usernames /\ body[r].password \in Passwords
    BY <1>0, <1>3 DEF RegisterInsert, HandlerInv, Running, InFlight, RegisterLocals
  <2>2. CASE Answer(r, "500", None) /\ UNCHANGED <<users, held>>
    BY <1>0, <1>3, <2>2, TypeAnswer DEF RegisterInsert, TypeOK
  <2>3. ASSUME NEW u \in UserIds,
               users' = [users EXCEPT ![u] = [email |-> body[r].email, username |-> body[r].username,
                                              password |-> body[r].password]],
               Goto(r, "issue", Locals(u, body[r].email, None)), Holds(body[r].username, body[r].password)
        PROVE  TypeOK'
    <3>1. users' \in [UserIds -> Account \cup {None}]
      BY <1>0, <2>1, <2>3 DEF TypeOK, Account
    <3>2. held' \in [Requests -> SUBSET Passwords]
      BY <1>0, <2>1, <2>3 DEF TypeOK, Holds
    <3>. QED  BY <1>0, <1>3, <2>1, <2>3, <3>1, <3>2, TypeGoto, LocalsTyped DEF RegisterInsert, TypeOK
  <2>. QED  BY <1>3, <2>2, <2>3 DEF RegisterInsert
<1>4. CASE RegisterIssue(r)
  BY <1>0, <1>4, IssueArgs, TypeIssue DEF RegisterIssue, NamesAccount, TypeOK
<1>5. CASE LoginFind(r)
  <2>1. ASSUME NEW u \in UserIds, users[u] # None, Goto(r, "compare", Locals(u, users[u].email, users[u].password))
        PROVE  TypeOK'
    <3>1. users[u].email \in Emails /\ users[u].password \in Passwords
      BY <1>0, <2>1 DEF TypeOK, Account
    <3>. QED  BY <1>0, <1>5, <2>1, <3>1, TypeGoto, LocalsTyped DEF LoginFind, TypeOK
  <2>. QED  BY <1>0, <1>5, <2>1, TypeAnswer DEF LoginFind, TypeOK
<1>6. CASE LoginCompare(r)
  BY <1>0, <1>6, IssueArgs, TypeIssue, TypeAnswer DEF LoginCompare, NamesAccount, TypeOK
<1>7. CASE RefreshFind(r)
  <2>1. body[r].token \in Tokens
    BY <1>0, <1>7 DEF RefreshFind, HandlerInv, Running, InFlight, RefreshLocals, Signed
  <2>2. CASE FindValid(body[r].token)
    <3>1. rows[body[r].token].userId \in UserIds
      BY <1>0, <2>1, <2>2 DEF FindValid, TypeOK, Row
    <3>. QED  BY <1>0, <1>7, <2>2, <3>1, TypeGoto, LocalsTyped DEF RefreshFind, TypeOK
  <2>. QED  BY <1>0, <1>7, <2>2, TypeAnswer DEF RefreshFind, TypeOK
<1>8. CASE RefreshVerify(r)
  <2>1. body[r].token \in Signed /\ local[r].user \in UserIds \cup {None}
    BY <1>0, <1>8 DEF RefreshVerify, HandlerInv, Running, InFlight, RefreshLocals, TypeOK, LocalType
  <2>2. jwt[body[r].token].email \in Emails
    BY <1>0, <2>1 DEF TypeOK, Payload, Signed
  <2>. QED  BY <1>0, <1>8, <2>1, <2>2, TypeGoto, LocalsTyped, TypeAnswer DEF RefreshVerify, TypeOK
<1>9. CASE RefreshRevoke(r)
  <2>1. body[r].token \in Tokens /\ local[r] \in LocalType
    BY <1>0, <1>9 DEF RefreshRevoke, HandlerInv, Running, InFlight, RefreshLocals, TypeOK, Signed
  <2>. QED  BY <1>0, <1>9, <2>1, TypeGoto, TypeRevoke DEF RefreshRevoke, TypeOK
<1>10. CASE RefreshIssue(r)
  <2>1. body[r].token \in Tokens
    BY <1>0, <1>10 DEF RefreshIssue, HandlerInv, Running, InFlight, RefreshLocals, Signed
  <2>. QED  BY <1>0, <1>10, <2>1, IssueArgs, TypeIssue DEF RefreshIssue, NamesAccount, TypeOK
<1>11. CASE LogoutRevoke(r)
  <2>1. body[r].token \in Tokens
    BY <1>0, <1>11 DEF LogoutRevoke, HandlerInv, Running, InFlight, Signed
  <2>. QED  BY <1>0, <1>11, <2>1, TypeAnswer, TypeRevoke DEF LogoutRevoke, TypeOK
<1>12. CASE UpdateMeWrite(r)
  <2>1. body[r].user \in UserIds /\ users[body[r].user] # None /\ body[r].password \in Passwords
    BY <1>0, <1>12 DEF UpdateMeWrite, HandlerInv, Running, InFlight
  <2>2. users' \in [UserIds -> Account \cup {None}]
    BY <1>0, <1>12, <2>1 DEF UpdateMeWrite, TypeOK, Account
  <2>3. held' \in [Requests -> SUBSET Passwords]
    BY <1>0, <1>12, <2>1 DEF UpdateMeWrite, TypeOK, Holds
  <2>. QED  BY <1>0, <1>12, <2>2, <2>3, TypeGoto, NoValuesTyped DEF UpdateMeWrite, TypeOK
<1>13. CASE UpdateMeReread(r)
  <2>1. (IF users[body[r].user] = None THEN "404" ELSE "200") \in {"200", "401", "404", "409", "500"}
    OBVIOUS
  <2>. QED  BY <1>0, <1>13, <2>1, TypeAnswer DEF UpdateMeReread, TypeOK
<1>. QED  BY <1>1, <1>2, <1>3, <1>4, <1>5, <1>6, <1>7, <1>8, <1>9, <1>10, <1>11, <1>12, <1>13 DEF Handler

\* So do the steps of the environment.
LEMMA TypeEnvironment ==
    ASSUME TypeOK,
           \/ \E r \in Requests : DbError(r)
           \/ \E w \in pending : StoreToken(w) \/ StoreFails(w)
           \/ \E t \in Tokens : ExpireJwt(t) \/ ExpireRow(t)
           \/ Crash
    PROVE  TypeOK'
<1>. USE DEF tables, clocks, slots, history
<1>1. CASE \E r \in Requests : DbError(r)
  BY <1>1, TypeAnswer DEF DbError, TypeOK
<1>2. CASE \E w \in pending : StoreToken(w) \/ StoreFails(w)
  <2>1. PICK w \in pending : StoreToken(w) \/ StoreFails(w)
    BY <1>2
  <2>2. w.token \in Tokens /\ w.userId \in UserIds
    BY DEF TypeOK
  <2>3. [userId |-> w.userId, revoked |-> FALSE] \in Row
    BY <2>2 DEF Row
  <2>. QED  BY <2>1, <2>2, <2>3 DEF StoreToken, StoreFails, TypeOK
<1>3. CASE \E t \in Tokens : ExpireJwt(t) \/ ExpireRow(t)
  BY <1>3 DEF ExpireJwt, ExpireRow, TypeOK
<1>4. CASE Crash
  BY <1>4, NoValuesTyped DEF Crash, TypeOK
<1>. QED  BY <1>1, <1>2, <1>3, <1>4

\* Every step keeps the types.
LEMMA TypeNext ==
    ASSUME IInv, [Next]_vars
    PROVE  TypeOK'
<1>1. CASE UNCHANGED vars
  BY <1>1 DEF IInv, TypeOK, vars
<1>2. CASE Next
  BY <1>2, TypeStart, TypeHandler, TypeEnvironment DEF Next, IInv
<1>. QED  BY <1>1, <1>2

(***************************************************************************)
(* What never goes back: accounts keep their keys, signatures and rows     *)
(* stay, a revoked row stays revoked, an ended token stays ended.          *)
(***************************************************************************)
Grows ==
    /\ \A u \in UserIds : users[u] # None =>
        users'[u] # None /\ users'[u].email = users[u].email /\ users'[u].username = users[u].username
    /\ \A t \in Tokens : jwt[t] # None => jwt'[t] = jwt[t]
    /\ \A t \in Tokens : rows[t] # None =>
        rows'[t] # None /\ rows'[t].userId = rows[t].userId /\ (rows[t].revoked => rows'[t].revoked)
    /\ ended \subseteq ended' /\ jwtExpired \subseteq jwtExpired' /\ rowExpired \subseteq rowExpired'

\* Signing a pair changes no token signed before.
LEMMA IssueGrows ==
    ASSUME TypeOK, NEW r \in Requests, NEW u, NEW e, IssueTokenPair(r, u, e)
    PROVE  \A t \in Tokens : jwt[t] # None => jwt'[t] = jwt[t]
BY DEF IssueTokenPair, TypeOK

\* Revoking a token takes no row away, and unrevokes none.
LEMMA RevokeGrows ==
    ASSUME TypeOK, NEW t \in Tokens, Revoke(t)
    PROVE  \A s \in Tokens : rows[s] # None =>
               rows'[s] # None /\ rows'[s].userId = rows[s].userId /\ (rows[s].revoked => rows'[s].revoked)
<1>1. CASE rows[t] = None
  BY <1>1 DEF Revoke
<1>2. CASE rows[t] # None
  <2>1. rows[t] \in Row /\ rows' = [rows EXCEPT ![t].revoked = TRUE]
    BY <1>2 DEF Revoke, TypeOK
  <2>2. rows'[t] = [rows[t] EXCEPT !.revoked = TRUE] /\ \A s \in Tokens : s # t => rows'[s] = rows[s]
    BY <2>1 DEF TypeOK
  <2>3. rows'[t] \in Row /\ rows'[t].userId = rows[t].userId /\ rows'[t].revoked
    BY <2>1, <2>2 DEF Row
  <2>. QED  BY <2>2, <2>3, NoneAssumption
<1>. QED  BY <1>1, <1>2

\* No step takes an account, a row or a signature away.
LEMMA GrowsNext ==
    ASSUME IInv, [Next]_vars
    PROVE  Grows
<1>. USE DEF tables, clocks, slots, history
<1>0. TypeOK /\ TokensAgree
  BY DEF IInv
<1>1. CASE UNCHANGED vars
  BY <1>1 DEF Grows, vars
<1>2. ASSUME NEW r \in Requests, Client(r)
      PROVE  Grows
  BY <1>2 DEF Grows, Client, StartRegister, StartLogin, StartRefresh, StartLogout, StartUpdateMe, Begin
<1>3. ASSUME NEW r \in Requests, Handler(r)
      PROVE  Grows
  <2>0. HandlerInv(r)
    BY DEF IInv
  <2>1. CASE RegisterFindEmail(r) \/ RegisterFindUsername(r) \/ RegisterDecide(r) \/ LoginFind(r)
             \/ RefreshFind(r) \/ RefreshVerify(r) \/ UpdateMeReread(r)
    BY <2>1 DEF Grows, RegisterFindEmail, RegisterFindUsername, RegisterDecide, LoginFind, RefreshFind,
                RefreshVerify, UpdateMeReread
  <2>2. CASE RegisterInsert(r)
    BY <1>0, <2>2 DEF Grows, RegisterInsert, TypeOK
  <2>3. CASE RegisterIssue(r)
    BY <1>0, <2>3, IssueGrows DEF Grows, RegisterIssue
  <2>4. CASE LoginCompare(r)
    BY <1>0, <2>4, IssueGrows DEF Grows, LoginCompare
  <2>5. CASE RefreshRevoke(r)
    <3>1. body[r].token \in Tokens
      BY <2>0, <2>5 DEF RefreshRevoke, HandlerInv, Running, InFlight, RefreshLocals, Signed
    <3>. QED  BY <1>0, <2>5, <3>1, RevokeGrows DEF Grows, RefreshRevoke
  <2>6. CASE RefreshIssue(r)
    BY <1>0, <2>6, IssueGrows DEF Grows, RefreshIssue
  <2>7. CASE LogoutRevoke(r)
    <3>1. body[r].token \in Tokens
      BY <2>0, <2>7 DEF LogoutRevoke, HandlerInv, Running, InFlight, Signed
    <3>. QED  BY <1>0, <2>7, <3>1, RevokeGrows DEF Grows, LogoutRevoke
  <2>8. CASE UpdateMeWrite(r)
    <3>1. body[r].user \in UserIds /\ users[body[r].user] # None /\ body[r].password \in Passwords
      BY <2>0, <2>8 DEF UpdateMeWrite, HandlerInv, Running, InFlight
    <3>2. users[body[r].user] \in Account
      BY <1>0, <3>1 DEF TypeOK
    <3>3. users'[body[r].user] # None
      BY <1>0, <2>8, <3>1, <3>2, NoneAssumption DEF UpdateMeWrite, TypeOK, Account
    <3>. QED  BY <1>0, <2>8, <3>1, <3>2, <3>3 DEF Grows, UpdateMeWrite, TypeOK, Account
  <2>. QED  BY <1>3, <2>1, <2>2, <2>3, <2>4, <2>5, <2>6, <2>7, <2>8 DEF Handler
<1>4. ASSUME NEW r \in Requests, DbError(r)
      PROVE  Grows
  BY <1>4 DEF Grows, DbError
<1>5. ASSUME NEW w \in pending, StoreToken(w) \/ StoreFails(w)
      PROVE  Grows
  <2>1. rows[w.token] = None
    BY <1>0 DEF TokensAgree
  <2>. QED  BY <1>0, <1>5, <2>1 DEF Grows, StoreToken, StoreFails, TypeOK
<1>6. ASSUME NEW t \in Tokens, ExpireJwt(t) \/ ExpireRow(t)
      PROVE  Grows
  BY <1>6 DEF Grows, ExpireJwt, ExpireRow
<1>7. CASE Crash
  BY <1>7 DEF Grows, Crash
<1>. QED  BY <1>1, <1>2, <1>3, <1>4, <1>5, <1>6, <1>7 DEF Next

(***************************************************************************)
(* Accounts.                                                               *)
(***************************************************************************)
LEMMA UniqueNext ==
    ASSUME IInv, [Next]_vars
    PROVE  AccountsUnique'
<1>. USE DEF tables, clocks, slots, history
<1>0. TypeOK /\ AccountsUnique /\ Grows
  BY GrowsNext DEF IInv
<1>1. CASE UNCHANGED users
  BY <1>0, <1>1 DEF AccountsUnique, UniqueKeys
<1>2. ASSUME NEW r \in Requests, RegisterInsert(r), users' # users
      PROVE  AccountsUnique'
  <2>1. PICK u \in UserIds :
            users' = [users EXCEPT ![u] = [email |-> body[r].email, username |-> body[r].username,
                                           password |-> body[r].password]]
    BY <1>2 DEF RegisterInsert
  <2>2. \A v \in UserIds : users[v] # None =>
            users[v].email # body[r].email /\ users[v].username # body[r].username
    BY <1>2 DEF RegisterInsert
  <2>. QED  BY <1>0, <2>1, <2>2 DEF AccountsUnique, UniqueKeys, TypeOK
<1>3. ASSUME NEW r \in Requests, UpdateMeWrite(r)
      PROVE  AccountsUnique'
  <2>1. \A v \in UserIds : users'[v] # None => users[v] # None
    <3>1. body[r].user \in UserIds /\ users[body[r].user] # None
      BY <1>3 DEF IInv, UpdateMeWrite, HandlerInv, Running, InFlight
    <3>. QED  BY <1>0, <1>3, <3>1 DEF UpdateMeWrite, TypeOK
  <2>. QED  BY <1>0, <2>1 DEF AccountsUnique, UniqueKeys, Grows
<1>4. ASSUME NEW r \in Requests, Client(r)
      PROVE  UNCHANGED users
  BY <1>4 DEF Client, StartRegister, StartLogin, StartRefresh, StartLogout, StartUpdateMe, Begin
<1>5. ASSUME NEW r \in Requests, Handler(r), ~RegisterInsert(r), ~UpdateMeWrite(r)
      PROVE  UNCHANGED users
  BY <1>5 DEF Handler, RegisterFindEmail, RegisterFindUsername, RegisterDecide, RegisterIssue, LoginFind,
     LoginCompare, RefreshFind, RefreshVerify, RefreshRevoke, RefreshIssue, LogoutRevoke, UpdateMeReread
<1>6. ASSUME NEW r \in Requests, DbError(r)
      PROVE  UNCHANGED users
  BY <1>6 DEF DbError
<1>7. ASSUME NEW w \in pending, StoreToken(w) \/ StoreFails(w)
      PROVE  UNCHANGED users
  BY <1>7 DEF StoreToken, StoreFails
<1>8. ASSUME NEW t \in Tokens, ExpireJwt(t) \/ ExpireRow(t)
      PROVE  UNCHANGED users
  BY <1>8 DEF ExpireJwt, ExpireRow
<1>9. CASE Crash
  BY <1>1, <1>9 DEF Crash
<1>10. CASE UNCHANGED vars
  BY <1>1, <1>10 DEF vars
<1>. QED  BY <1>1, <1>2, <1>3, <1>4, <1>5, <1>6, <1>7, <1>8, <1>9, <1>10 DEF Next

(***************************************************************************)
(* Tokens, rows and pending INSERTs.                                       *)
(***************************************************************************)

\* Signing for an existing account, by its email, keeps the tables in agreement.
LEMMA AgreeIssue ==
    ASSUME IInv, Grows, NEW r \in Requests, NamesAccount(r),
           IssueTokenPair(r, local[r].user, local[r].email), UNCHANGED <<users, rows>>,
           \A t \in ended' : rows[t] # None /\ rows[t].revoked
    PROVE  TokensAgree'
<1>1. PICK t \in Tokens :
          /\ jwt[t] = None
          /\ jwt' = [jwt EXCEPT ![t] = [sub |-> local[r].user, email |-> local[r].email]]
          /\ pending' = pending \cup {[token |-> t, userId |-> local[r].user]}
  BY DEF IssueTokenPair
<1>2. TypeOK /\ TokensAgree
  BY DEF IInv
<1>3. [sub |-> local[r].user, email |-> local[r].email] # None /\ jwt'[t] # None
  <2>1. local[r].user \in UserIds /\ local[r].email \in Emails
    BY <1>2, NoneAssumption DEF NamesAccount, TypeOK, Account
  <2>. QED  BY <1>1, <1>2, <2>1, NoneAssumption DEF TypeOK, Payload
<1>4. rows[t] = None
  BY <1>1, <1>2 DEF TokensAgree, Signed
<1>5. \A s \in Tokens : s # t => jwt'[s] = jwt[s]
  BY <1>1, <1>2 DEF TypeOK
<1>6. jwt'[t].sub = local[r].user /\ jwt'[t].email = local[r].email
  BY <1>1, <1>2 DEF TypeOK
<1>7. \A s \in Signed' : /\ users'[jwt'[s].sub] # None /\ users'[jwt'[s].sub].email = jwt'[s].email
                         /\ rows'[s] # None => rows'[s].userId = jwt'[s].sub
  BY <1>2, <1>4, <1>5, <1>6 DEF TokensAgree, Signed, NamesAccount
<1>8. \A w \in pending' : w.token \in Signed' /\ w.userId = jwt'[w.token].sub /\ rows'[w.token] = None
  BY <1>1, <1>2, <1>3, <1>4, <1>5, <1>6 DEF TokensAgree, Signed
<1>9. \A s \in Tokens : rows'[s] # None => s \in Signed'
  BY <1>2, <1>3, <1>5 DEF TokensAgree, Signed
<1>. QED  BY <1>7, <1>8, <1>9 DEF TokensAgree

\* revokeByToken keeps the tables in agreement, and a found row is revoked.
LEMMA RevokeFound ==
    ASSUME TypeOK, NEW t \in Tokens, Revoke(t)
    PROVE  /\ \A s \in Tokens : rows[s] = None <=> rows'[s] = None
           /\ rows[t] # None => rows'[t].revoked
<1>1. CASE rows[t] = None
  BY <1>1 DEF Revoke
<1>2. CASE rows[t] # None
  <2>1. rows[t] \in Row /\ rows' = [rows EXCEPT ![t].revoked = TRUE]
    BY <1>2 DEF Revoke, TypeOK
  <2>2. rows'[t] = [rows[t] EXCEPT !.revoked = TRUE] /\ \A s \in Tokens : s # t => rows'[s] = rows[s]
    BY <2>1 DEF TypeOK
  <2>3. rows'[t] \in Row /\ rows'[t].revoked
    BY <2>1, <2>2 DEF Row
  <2>. QED  BY <1>2, <2>2, <2>3, NoneAssumption
<1>. QED  BY <1>1, <1>2

\* A step that signs nothing, stores nothing and only ends revoked rows keeps the agreement.
LEMMA AgreeFrame ==
    ASSUME IInv, Grows, jwt' = jwt, pending' \subseteq pending,
           \A t \in Tokens : rows[t] = None <=> rows'[t] = None,
           \A t \in ended' : rows'[t] # None /\ rows'[t].revoked
    PROVE  TokensAgree'
<1>1. TypeOK /\ TokensAgree
  BY DEF IInv
<1>2. \A t \in Signed : jwt[t].sub \in UserIds
  BY <1>1 DEF TypeOK, Payload, Signed
<1>3. \A w \in pending : w.token \in Tokens
  BY <1>1 DEF TypeOK
<1>4. Signed' = Signed
  BY DEF Signed
<1>5. \A t \in Signed : /\ users'[jwt[t].sub] # None /\ users'[jwt[t].sub].email = jwt[t].email
                        /\ rows'[t] # None => rows'[t].userId = jwt[t].sub
  BY <1>1, <1>2 DEF TokensAgree, Grows, Signed
<1>. QED  BY <1>1, <1>3, <1>4, <1>5 DEF TokensAgree

\* Every step keeps tokens, rows and pending INSERTs in agreement.
LEMMA AgreeNext ==
    ASSUME IInv, [Next]_vars
    PROVE  TokensAgree'
<1>. USE DEF tables, clocks, slots, history
<1>0. TypeOK /\ TokensAgree /\ Grows
  BY GrowsNext DEF IInv
<1>1. CASE UNCHANGED <<rows, jwt, pending, ended>>
  BY <1>0, <1>1, AgreeFrame DEF TokensAgree
<1>2. ASSUME NEW r \in Requests, Client(r)
      PROVE  UNCHANGED <<rows, jwt, pending, ended>>
  BY <1>2 DEF Client, StartRegister, StartLogin, StartRefresh, StartLogout, StartUpdateMe, Begin
<1>3. ASSUME NEW r \in Requests, Handler(r)
      PROVE  TokensAgree'
  <2>0. HandlerInv(r)
    BY DEF IInv
  <2>1. CASE RegisterFindEmail(r) \/ RegisterFindUsername(r) \/ RegisterDecide(r) \/ RegisterInsert(r) \/ LoginFind(r)
             \/ RefreshFind(r) \/ RefreshVerify(r) \/ UpdateMeWrite(r) \/ UpdateMeReread(r)
    BY <1>1, <2>1 DEF RegisterFindEmail, RegisterFindUsername, RegisterDecide, RegisterInsert, LoginFind,
       RefreshFind, RefreshVerify, UpdateMeWrite, UpdateMeReread
  <2>2. CASE RegisterIssue(r)
    BY <1>0, <2>2, IssueArgs, AgreeIssue DEF RegisterIssue, TokensAgree
  <2>3. CASE LoginCompare(r)
    <3>1. CASE IssueTokenPair(r, local[r].user, local[r].email)
      BY <1>0, <2>3, <3>1, IssueArgs, AgreeIssue DEF LoginCompare, TokensAgree
    <3>. QED  BY <1>1, <2>3, <3>1 DEF LoginCompare
  <2>4. CASE RefreshRevoke(r)
    <3>1. body[r].token \in Tokens
      BY <2>0, <2>4 DEF RefreshRevoke, HandlerInv, Running, InFlight, RefreshLocals, Signed
    <3>. QED  BY <1>0, <2>4, <3>1, RevokeFound, AgreeFrame DEF RefreshRevoke, TokensAgree, Grows, TypeOK
  <2>5. CASE RefreshIssue(r)
    <3>1. rows[body[r].token] # None /\ rows[body[r].token].revoked
      BY <2>0, <2>5 DEF RefreshIssue, HandlerInv, Running, InFlight, RefreshLocals
    <3>. QED  BY <1>0, <2>5, <3>1, IssueArgs, AgreeIssue DEF RefreshIssue, TokensAgree
  <2>6. CASE LogoutRevoke(r)
    <3>1. body[r].token \in Tokens
      BY <2>0, <2>6 DEF LogoutRevoke, HandlerInv, Running, InFlight, Signed
    <3>2. \A t \in ended' : rows'[t] # None /\ rows'[t].revoked
      BY <1>0, <2>6, <3>1, RevokeFound DEF LogoutRevoke, TokensAgree, Grows, TypeOK
    <3>. QED  BY <1>0, <2>6, <3>1, <3>2, RevokeFound, AgreeFrame DEF LogoutRevoke
  <2>. QED  BY <1>3, <2>1, <2>2, <2>3, <2>4, <2>5, <2>6 DEF Handler
<1>4. ASSUME NEW r \in Requests, DbError(r)
      PROVE  UNCHANGED <<rows, jwt, pending, ended>>
  BY <1>4 DEF DbError
<1>5. ASSUME NEW w \in pending, StoreToken(w)
      PROVE  TokensAgree'
  <2>1. /\ w.token \in Signed /\ w.userId = jwt[w.token].sub /\ w.token \in Tokens /\ w.userId \in UserIds
        /\ rows[w.token] = None /\ w \in [token: Tokens, userId: UserIds]
    BY <1>0 DEF TokensAgree, TypeOK
  <2>2. [userId |-> w.userId, revoked |-> FALSE] # None
    <3>1. [userId |-> w.userId, revoked |-> FALSE] \in Row
      BY <2>1 DEF Row
    <3>. QED  BY <3>1, NoneAssumption
  <2>3. /\ rows'[w.token] # None /\ rows'[w.token].userId = w.userId
        /\ \A t \in Tokens : t # w.token => rows'[t] = rows[t]
    BY <1>0, <1>5, <2>1, <2>2 DEF StoreToken, TypeOK
  <2>4. \A v \in pending' : v \in pending /\ v.token # w.token
    <3>1. ASSUME NEW v \in pending, v.token = w.token
          PROVE  v = w
      <4>1. v.userId = w.userId /\ v \in [token: Tokens, userId: UserIds]
        BY <1>0, <3>1, <2>1 DEF TokensAgree, TypeOK
      <4>. QED  BY <2>1, <3>1, <4>1
    <3>. QED  BY <1>5, <3>1 DEF StoreToken
  <2>5. Signed' = Signed /\ jwt' = jwt /\ users' = users /\ ended' = ended
    BY <1>5 DEF StoreToken, Signed
  <2>6. \A t \in ended : t \in Tokens /\ t # w.token
    BY <1>0, <2>1 DEF TypeOK, TokensAgree
  <2>7. \A v \in pending : v.token \in Tokens
    BY <1>0 DEF TypeOK
  <2>. QED  BY <1>0, <2>1, <2>3, <2>4, <2>5, <2>6, <2>7 DEF TokensAgree, Signed
<1>6. ASSUME NEW w \in pending, StoreFails(w)
      PROVE  TokensAgree'
  BY <1>0, <1>6, AgreeFrame DEF StoreFails, TokensAgree
<1>7. ASSUME NEW t \in Tokens, ExpireJwt(t) \/ ExpireRow(t)
      PROVE  UNCHANGED <<rows, jwt, pending, ended>>
  BY <1>7 DEF ExpireJwt, ExpireRow
<1>8. CASE Crash
  BY <1>0, <1>8, AgreeFrame DEF Crash, TokensAgree
<1>9. CASE UNCHANGED vars
  BY <1>1, <1>9 DEF vars
<1>. QED  BY <1>1, <1>2, <1>3, <1>4, <1>5, <1>6, <1>7, <1>8, <1>9 DEF Next

(***************************************************************************)
(* Slots.                                                                  *)
(***************************************************************************)
Untouched(s) ==
    /\ body'[s] = body[s] /\ pc'[s] = pc[s] /\ local'[s] = local[s] /\ reply'[s] = reply[s]
    /\ late'[s] = late[s] /\ held[s] \subseteq held'[s]

\* A login in flight has in `held` the password its account has now.
Knows(s) == body[s].op = "login" /\ InFlight(s) =>
    \A u \in UserIds : users[u] # None /\ users[u].username = body[s].username => users[u].password \in held[s]

SlotInv(s) == HandlerInv(s) /\ AnswerInv(s)

\* The parts of a slot have their types.
LEMMA SlotTyped ==
    ASSUME TypeOK, NEW s \in Requests
    PROVE  /\ body[s] \in RequestType /\ reply[s] \in ReplyType /\ local[s] \in LocalType
           /\ held[s] \in SUBSET Passwords /\ late[s] \in BOOLEAN
BY DEF TypeOK

\* What an answer says stays true.
LEMMA AnswerFrame ==
    ASSUME IInv, Grows, NEW s \in Requests, body'[s] = body[s], reply'[s] = reply[s], late'[s] = late[s],
           held[s] \subseteq held'[s]
    PROVE  AnswerInv(s)'
<1>0. TypeOK /\ TokensAgree /\ AnswerInv(s)
  BY DEF IInv
<1>1. \A t \in Signed : t \in Signed' /\ t \in Tokens /\ jwt'[t] = jwt[t]
  BY <1>0, NoneAssumption DEF Grows, Signed
<1>2. \A t \in Signed : jwt[t].sub \in UserIds
  BY <1>0 DEF TypeOK, Payload, Signed
<1>3. ASSUME reply[s].code = "200", body[s].op \in {"register", "login"}
      PROVE  reply'[s].pair \in Signed' /\ users'[jwt'[reply'[s].pair].sub].username = body'[s].username
  <2>1. reply[s].pair \in Signed /\ users[jwt[reply[s].pair].sub].username = body[s].username
    BY <1>0, <1>3 DEF AnswerInv
  <2>2. users[jwt[reply[s].pair].sub] # None
    BY <1>0, <2>1 DEF TokensAgree
  <2>. QED  BY <1>1, <1>2, <2>1, <2>2 DEF Grows
<1>4. ASSUME reply[s].code = "200", body[s].op = "refresh"
      PROVE  ~late'[s] /\ body'[s].token \in Signed' /\ rows'[body'[s].token] # None /\ rows'[body'[s].token].revoked
  BY <1>0, <1>1, <1>4 DEF AnswerInv, Grows
<1>. QED  BY <1>0, <1>3, <1>4 DEF AnswerInv

\* Whatever the others do, a slot that is not touched keeps its invariant.
LEMMA SlotFrame ==
    ASSUME IInv, Grows, NEW s \in Requests, Untouched(s), Knows(s)'
    PROVE  SlotInv(s)'
<1>0. TypeOK /\ TokensAgree /\ HandlerInv(s) /\ AnswerInv(s)
  BY DEF IInv
<1>1. InFlight(s)' = InFlight(s)
  BY DEF Untouched, InFlight
<1>2. \A t \in Signed : t \in Signed' /\ t \in Tokens /\ jwt'[t] = jwt[t]
  BY <1>0, NoneAssumption DEF Grows, Signed
<1>4. ASSUME NamesAccount(s)
      PROVE  /\ NamesAccount(s)'
             /\ users'[local'[s].user].username = users[local[s].user].username
  BY <1>4 DEF NamesAccount, Grows, Untouched
<1>5. RegisterLocals(s) => RegisterLocals(s)'
  BY <1>4 DEF RegisterLocals, Untouched
<1>6. LoginLocals(s) /\ InFlight(s) /\ body[s].op = "login" => LoginLocals(s)'
  BY <1>1, <1>4 DEF LoginLocals, Untouched, Knows
<1>7. RefreshLocals(s) => RefreshLocals(s)'
  BY <1>2 DEF RefreshLocals, Untouched, Grows
<1>8. HandlerInv(s)'
  BY <1>0, <1>1, <1>2, <1>5, <1>6, <1>7 DEF HandlerInv, Untouched, Grows
<1>9. AnswerInv(s)'
  BY AnswerFrame DEF Untouched
<1>. QED  BY <1>8, <1>9 DEF SlotInv

\* An error answer, and a slot that is free again, satisfy the invariant.
LEMMA SlotError ==
    ASSUME TypeOK, NEW r \in Requests, NEW code, Answer(r, code, None), code # "200"
    PROVE  SlotInv(r)'
BY DEF Answer, SlotInv, HandlerInv, AnswerInv, InFlight, TypeOK

\* The other slots during a step of slot r.
LEMMA OthersAnswer ==
    ASSUME TypeOK, NEW r \in Requests, NEW code, NEW pair, Answer(r, code, pair), UNCHANGED <<late, held>>
    PROVE  \A s \in Requests : s # r => Untouched(s)
BY DEF Answer, Untouched, TypeOK

\* A handler that goes on leaves the other slots alone.
LEMMA OthersGoto ==
    ASSUME TypeOK, NEW r \in Requests, NEW at, NEW locals, Goto(r, at, locals), UNCHANGED late,
           \A s \in Requests : held[s] \subseteq held'[s]
    PROVE  \A s \in Requests : s # r => Untouched(s)
BY DEF Goto, Untouched, TypeOK

\* A request that begins leaves the other slots alone.
LEMMA OthersBegin ==
    ASSUME TypeOK, NEW r \in Requests, NEW request, NEW at, NEW isLate, NEW heldNow,
           Begin(r, request, at, isLate, heldNow)
    PROVE  \A s \in Requests : s # r => Untouched(s)
BY DEF Begin, Untouched, TypeOK

\* As long as the accounts stay as they are, `held` stays current.
LEMMA KnowsFrame ==
    ASSUME IInv, NEW s \in Requests, Untouched(s), UNCHANGED users
    PROVE  Knows(s)'
BY DEF IInv, HandlerInv, LoginLocals, Knows, Untouched, InFlight

\* A request that begins satisfies the invariant in its slot.
LEMMA SlotsClient ==
    ASSUME IInv, Grows, NEW r \in Requests, Client(r)
    PROVE  \A s \in Requests : SlotInv(s)'
<1>. USE DEF tables, clocks
<1>0. TypeOK
  BY DEF IInv
<1>1. ASSUME NEW request, NEW at, NEW isLate, NEW heldNow, Begin(r, request, at, isLate, heldNow)
      PROVE  /\ UNCHANGED users
             /\ \A s \in Requests : s # r => SlotInv(s)'
             /\ body'[r] = request /\ reply'[r] = NoReply /\ late'[r] = isLate /\ held'[r] = heldNow /\ pc'[r] = at
             /\ UNCHANGED <<jwt, ended, jwtExpired, rowExpired>>
  <2>1. UNCHANGED users
    BY <1>1 DEF Begin
  <2>2. \A s \in Requests : s # r => SlotInv(s)'
    BY <1>0, <1>1, <2>1, OthersBegin, KnowsFrame, SlotFrame
  <2>. QED  BY <1>0, <1>1, <2>1, <2>2 DEF Begin, TypeOK
<1>2. ASSUME reply'[r] = NoReply
      PROVE  AnswerInv(r)'
  BY <1>2 DEF AnswerInv, NoReply
<1>3. ASSUME NEW e \in Emails, NEW n \in Usernames, NEW p \in Passwords, StartRegister(r, e, n, p)
      PROVE  \A s \in Requests : SlotInv(s)'
  <2>1. Begin(r, Request("register", e, n, p, None, None), "find", FALSE, {})
    BY <1>3 DEF StartRegister
  <2>2. /\ body'[r] = Request("register", e, n, p, None, None) /\ reply'[r] = NoReply /\ pc'[r] = "find"
        /\ \A s \in Requests : s # r => SlotInv(s)'
    BY <1>1, <2>1
  <2>. QED  BY <1>2, <2>2 DEF Request, NoReply, SlotInv, HandlerInv, RegisterLocals
<1>4. ASSUME NEW n \in Usernames, NEW p \in Passwords, StartLogin(r, n, p)
      PROVE  \A s \in Requests : SlotInv(s)'
  <2>1. Begin(r, Request("login", None, n, p, None, None), "find", FALSE, PasswordsOf(n))
    BY <1>4 DEF StartLogin
  <2>2. /\ body'[r] = Request("login", None, n, p, None, None) /\ reply'[r] = NoReply
        /\ held'[r] = PasswordsOf(n) /\ pc'[r] = "find" /\ users' = users
        /\ \A s \in Requests : s # r => SlotInv(s)'
    BY <1>1, <2>1
  <2>3. LoginLocals(r)'
    BY <2>2 DEF LoginLocals, Request, PasswordsOf
  <2>. QED  BY <1>2, <2>2, <2>3 DEF Request, NoReply, SlotInv, HandlerInv
<1>5. ASSUME NEW t \in Tokens, StartRefresh(r, t)
      PROVE  \A s \in Requests : SlotInv(s)'
  <2>. DEFINE isLate == t \in ended \cup jwtExpired \cup rowExpired
  <2>1. t \in Signed /\ Begin(r, Request("refresh", None, None, None, t, None), "find", isLate, {})
    BY <1>5 DEF StartRefresh
  <2>2. /\ body'[r] = Request("refresh", None, None, None, t, None) /\ reply'[r] = NoReply
        /\ pc'[r] = "find" /\ jwt' = jwt
        /\ ended' = ended /\ jwtExpired' = jwtExpired /\ rowExpired' = rowExpired
        /\ late'[r] => isLate
    BY <1>0, <2>1 DEF Begin, TypeOK
  <2>3. \A s \in Requests : s # r => SlotInv(s)'
    <3>. HIDE DEF isLate
    <3>. QED  BY <1>1, <2>1
  <2>4. RefreshLocals(r)'
    BY <2>1, <2>2 DEF RefreshLocals, Request, Signed
  <2>. QED  BY <1>2, <2>2, <2>3, <2>4 DEF Request, NoReply, SlotInv, HandlerInv
<1>6. ASSUME NEW t \in Tokens, StartLogout(r, t)
      PROVE  \A s \in Requests : SlotInv(s)'
  <2>1. t \in Signed /\ Begin(r, Request("logout", None, None, None, t, None), "revoke", FALSE, {})
    BY <1>6 DEF StartLogout
  <2>2. /\ body'[r] = Request("logout", None, None, None, t, None) /\ reply'[r] = NoReply /\ jwt' = jwt
        /\ \A s \in Requests : s # r => SlotInv(s)'
    BY <1>1, <2>1
  <2>. QED  BY <1>2, <2>1, <2>2 DEF Request, NoReply, SlotInv, HandlerInv, Signed
<1>7. ASSUME NEW u \in UserIds, NEW p \in Passwords, StartUpdateMe(r, u, p)
      PROVE  \A s \in Requests : SlotInv(s)'
  <2>1. users[u] # None /\ Begin(r, Request("updateMe", None, None, p, None, u), "update", FALSE, {})
    BY <1>7 DEF StartUpdateMe
  <2>2. /\ body'[r] = Request("updateMe", None, None, p, None, u) /\ reply'[r] = NoReply /\ users' = users
        /\ \A s \in Requests : s # r => SlotInv(s)'
    BY <1>1, <2>1
  <2>. QED  BY <1>2, <2>1, <2>2 DEF Request, NoReply, SlotInv, HandlerInv
<1>8. \A b \in Registrations : b.email \in Emails /\ b.username \in Usernames /\ b.password \in Passwords
  BY RegistrationsAssumption DEF Account
<1>. QED  BY <1>3, <1>4, <1>5, <1>6, <1>7, <1>8 DEF Client

\* An error answer leaves every slot in order.
LEMMA SlotsError ==
    ASSUME IInv, Grows, NEW r \in Requests, NEW code, code # "200", Answer(r, code, None),
           UNCHANGED <<users, late, held>>
    PROVE  \A s \in Requests : SlotInv(s)'
<1>1. TypeOK
  BY DEF IInv
<1>. QED  BY <1>1, SlotError, OthersAnswer, KnowsFrame, SlotFrame

\* Moving to the next await: the other slots are in order, and slot r stands
\* where it was sent, with no answer yet.
LEMMA SlotsGoto ==
    ASSUME IInv, Grows, NEW r \in Requests, NEW at, NEW locals, Goto(r, at, locals),
           InFlight(r), UNCHANGED <<users, late, held>>
    PROVE  /\ \A s \in Requests : s # r => SlotInv(s)'
           /\ body'[r] = body[r] /\ pc'[r] = at /\ local'[r] = locals /\ reply'[r].code = "none"
           /\ AnswerInv(r)'
<1>1. TypeOK /\ HandlerInv(r)
  BY DEF IInv
<1>2. \A s \in Requests : s # r => SlotInv(s)'
  BY <1>1, OthersGoto, KnowsFrame, SlotFrame
<1>. QED  BY <1>1, <1>2 DEF Goto, TypeOK, HandlerInv, AnswerInv

\* Issuing a pair: the other slots are in order, and slot r holds the pair of account u.
LEMMA SlotsIssue ==
    ASSUME IInv, Grows, NEW r \in Requests, NEW u \in UserIds, NEW e \in Emails, IssueTokenPair(r, u, e),
           UNCHANGED <<users, late, held>>
    PROVE  /\ \A s \in Requests : s # r => SlotInv(s)'
           /\ body'[r] = body[r] /\ HandlerInv(r)'
           /\ reply'[r].pair \in Signed' /\ jwt'[reply'[r].pair].sub = u
<1>0. TypeOK
  BY DEF IInv
<1>1. PICK t \in Tokens : jwt' = [jwt EXCEPT ![t] = [sub |-> u, email |-> e]] /\ Answer(r, "200", t)
  BY DEF IssueTokenPair
<1>2. \A s \in Requests : s # r => SlotInv(s)'
  BY <1>0, <1>1, OthersAnswer, KnowsFrame, SlotFrame
<1>3. body'[r] = body[r] /\ reply'[r].pair = t /\ pc'[r] = "done"
  BY <1>0, <1>1 DEF Answer, TypeOK
<1>4. [sub |-> u, email |-> e] # None
  <2>1. [sub |-> u, email |-> e] \in Payload
    BY DEF Payload
  <2>. QED  BY <2>1, NoneAssumption
<1>5. jwt'[t] # None /\ jwt'[t].sub = u
  BY <1>0, <1>1, <1>4 DEF TypeOK
<1>. QED  BY <1>2, <1>3, <1>5 DEF HandlerInv, InFlight, Signed

\* A changed account table: a slot whose login was in flight also learns the new password.
LEMMA KnowsChange ==
    ASSUME IInv, TypeOK', NEW s \in Requests, Untouched(s), NEW u \in UserIds, NEW n, NEW p,
           \A v \in UserIds : v # u => users'[v] = users[v],
           users'[u] # None => users'[u].username = n /\ users'[u].password = p,
           Holds(n, p)
    PROVE  Knows(s)'
<1>1. SUFFICES ASSUME body[s].op = "login", InFlight(s), NEW v \in UserIds,
                      users'[v] # None, users'[v].username = body[s].username
               PROVE  users'[v].password \in held'[s]
  BY DEF Knows, Untouched, InFlight
<1>2. LoginLocals(s)
  BY <1>1 DEF IInv, HandlerInv
<1>3. CASE v = u
  BY <1>1, <1>3 DEF Holds
<1>4. CASE v # u
  BY <1>1, <1>2, <1>4 DEF LoginLocals, Untouched
<1>. QED  BY <1>3, <1>4

\* Every handler step leaves every slot in order.
LEMMA SlotsHandler ==
    ASSUME IInv, TypeOK', Grows, NEW r \in Requests, Handler(r)
    PROVE  \A s \in Requests : SlotInv(s)'
<1>. USE DEF tables, clocks, slots, history
<1>0. TypeOK /\ TokensAgree /\ HandlerInv(r) /\ AnswerInv(r)
  BY DEF IInv
<1>1. CASE RegisterFindEmail(r) \/ RegisterFindUsername(r)
  <2>1. /\ UNCHANGED <<body, pc, reply, late, held, users>> /\ Running(r, "register", "find")
        /\ \A s \in Requests : s # r => local'[s] = local[s]
    BY <1>0, <1>1 DEF RegisterFindEmail, RegisterFindUsername, TypeOK
  <2>2. \A s \in Requests : s # r => SlotInv(s)'
    BY <2>1, KnowsFrame, SlotFrame DEF Untouched
  <2>3. SlotInv(r)'
    BY <1>0, <2>1 DEF SlotInv, HandlerInv, AnswerInv, InFlight, Running, RegisterLocals
  <2>. QED  BY <2>2, <2>3
<1>2. CASE RegisterDecide(r)
  <2>1. CASE Answer(r, "409", None)
    BY <1>2, <2>1, SlotsError DEF RegisterDecide
  <2>2. CASE Goto(r, "insert", NoLocals)
    <3>1. /\ \A s \in Requests : s # r => SlotInv(s)'
          /\ body'[r] = body[r] /\ pc'[r] = "insert" /\ reply'[r].code = "none" /\ AnswerInv(r)'
      BY <1>2, <2>2, SlotsGoto DEF RegisterDecide, Running, InFlight
    <3>. QED  BY <1>0, <1>2, <3>1 DEF RegisterDecide, Running, InFlight, SlotInv, HandlerInv, RegisterLocals
  <2>. QED  BY <1>2, <2>1, <2>2 DEF RegisterDecide
<1>3. CASE RegisterInsert(r)
  <2>1. CASE Answer(r, "500", None) /\ UNCHANGED <<users, held>>
    BY <1>3, <2>1, SlotsError DEF RegisterInsert
  <2>2. ASSUME NEW u \in UserIds, users[u] = None,
               users' = [users EXCEPT ![u] = [email |-> body[r].email, username |-> body[r].username,
                                              password |-> body[r].password]],
               Goto(r, "issue", Locals(u, body[r].email, None)), Holds(body[r].username, body[r].password)
        PROVE  \A s \in Requests : SlotInv(s)'
    <3>0. RegisterLocals(r) /\ body[r].op = "register" /\ InFlight(r) /\ reply[r].code = "none" /\ late' = late
      BY <1>0, <1>3 DEF RegisterInsert, Running, InFlight, HandlerInv
    <3>1. \A s \in Requests : held[s] \subseteq held'[s]
      BY <2>2 DEF Holds
    <3>2. \A s \in Requests : s # r => Untouched(s)
      BY <1>0, <2>2, <3>0, <3>1, OthersGoto
    <3>3. /\ \A v \in UserIds : v # u => users'[v] = users[v]
          /\ users'[u] = [email |-> body[r].email, username |-> body[r].username, password |-> body[r].password]
      BY <1>0, <2>2 DEF TypeOK
    <3>4. users'[u].username = body[r].username /\ users'[u].password = body[r].password
          /\ users'[u].email = body[r].email
      BY <3>3
    <3>5. \A s \in Requests : s # r => SlotInv(s)'
      BY <2>2, <3>2, <3>3, <3>4, KnowsChange, SlotFrame
    <3>6. users'[u] # None
      <4>1. users'[u] \in Account
        BY <3>0, <3>3 DEF Account, RegisterLocals
      <4>. QED  BY <4>1, NoneAssumption
    <3>7. /\ body'[r] = body[r] /\ pc'[r] = "issue" /\ reply'[r] = reply[r]
          /\ local'[r].user = u /\ local'[r].email = body[r].email
      BY <1>0, <2>2 DEF Goto, Locals, TypeOK
    <3>8. SlotInv(r)'
      BY <3>0, <3>4, <3>6, <3>7 DEF SlotInv, HandlerInv, AnswerInv, RegisterLocals, NamesAccount
    <3>. QED  BY <3>5, <3>8
  <2>. QED  BY <1>3, <2>1, <2>2 DEF RegisterInsert
<1>4. CASE RegisterIssue(r)
  <2>1. /\ local[r].user \in UserIds /\ local[r].email \in Emails
        /\ users[local[r].user].username = body[r].username /\ body[r].op = "register"
        /\ users' = users
    BY <1>0, <1>4, IssueArgs DEF RegisterIssue, HandlerInv, RegisterLocals, NamesAccount, Running, InFlight
  <2>2. /\ \A s \in Requests : s # r => SlotInv(s)'
        /\ body'[r] = body[r] /\ HandlerInv(r)'
        /\ reply'[r].pair \in Signed' /\ jwt'[reply'[r].pair].sub = local[r].user
    BY <1>4, <2>1, SlotsIssue DEF RegisterIssue
  <2>. QED  BY <2>1, <2>2 DEF SlotInv, AnswerInv
<1>5. CASE LoginFind(r)
  <2>1. CASE Answer(r, "401", None)
    BY <1>5, <2>1, SlotsError DEF LoginFind
  <2>2. ASSUME NEW u \in UserIds, users[u] # None, users[u].username = body[r].username,
               Goto(r, "compare", Locals(u, users[u].email, users[u].password))
        PROVE  \A s \in Requests : SlotInv(s)'
    <3>0. LoginLocals(r) /\ body[r].op = "login" /\ InFlight(r) /\ UNCHANGED <<users, late, held>>
      BY <1>0, <1>5 DEF LoginFind, Running, InFlight, HandlerInv
    <3>1. /\ \A s \in Requests : s # r => SlotInv(s)'
          /\ body'[r] = body[r] /\ local'[r] = Locals(u, users[u].email, users[u].password)
          /\ reply'[r].code = "none" /\ AnswerInv(r)'
      BY <2>2, <3>0, SlotsGoto
    <3>2. LoginLocals(r)'
      BY <2>2, <3>0, <3>1 DEF LoginLocals, NamesAccount, Locals
    <3>. QED  BY <3>0, <3>1, <3>2 DEF SlotInv, HandlerInv
  <2>. QED  BY <1>5, <2>1, <2>2 DEF LoginFind
<1>6. CASE LoginCompare(r)
  <2>1. CASE Answer(r, "401", None)
    BY <1>6, <2>1, SlotsError DEF LoginCompare
  <2>2. CASE body[r].password = local[r].hash /\ IssueTokenPair(r, local[r].user, local[r].email)
    <3>1. /\ local[r].user \in UserIds /\ local[r].email \in Emails
          /\ users[local[r].user].username = body[r].username /\ body[r].op = "login"
          /\ local[r].hash \in held[r] /\ UNCHANGED <<users, late, held>>
      BY <1>0, <1>6, IssueArgs DEF LoginCompare, HandlerInv, LoginLocals, NamesAccount, Running, InFlight
    <3>2. /\ \A s \in Requests : s # r => SlotInv(s)'
          /\ body'[r] = body[r] /\ HandlerInv(r)'
          /\ reply'[r].pair \in Signed' /\ jwt'[reply'[r].pair].sub = local[r].user
      BY <2>2, <3>1, SlotsIssue
    <3>. QED  BY <2>2, <3>1, <3>2 DEF SlotInv, AnswerInv
  <2>. QED  BY <1>6, <2>1, <2>2 DEF LoginCompare
<1>7. CASE RefreshFind(r)
  <2>1. CASE Answer(r, "401", None)
    BY <1>7, <2>1, SlotsError DEF RefreshFind
  <2>2. CASE /\ FindValid(body[r].token)
             /\ Goto(r, "verify", Locals(rows[body[r].token].userId, None, None))
    <3>0. /\ RefreshLocals(r) /\ body[r].op = "refresh" /\ InFlight(r)
          /\ UNCHANGED <<users, late, held, rows, jwt, ended, jwtExpired, rowExpired>>
      BY <1>0, <1>7 DEF RefreshFind, Running, InFlight, HandlerInv
    <3>1. /\ \A s \in Requests : s # r => SlotInv(s)'
          /\ body'[r] = body[r] /\ local'[r] = Locals(rows[body[r].token].userId, None, None)
          /\ pc'[r] = "verify" /\ reply'[r].code = "none" /\ AnswerInv(r)'
      BY <2>2, <3>0, SlotsGoto
    <3>2. late[r] => body[r].token \in jwtExpired
      BY <1>0, <2>2, <3>0 DEF FindValid, RefreshLocals, TokensAgree
    <3>3. RefreshLocals(r)'
      BY <2>2, <3>0, <3>1, <3>2 DEF RefreshLocals, Locals, FindValid, Signed
    <3>. QED  BY <3>0, <3>1, <3>3 DEF SlotInv, HandlerInv
  <2>. QED  BY <1>7, <2>1, <2>2 DEF RefreshFind
<1>8. CASE RefreshVerify(r)
  <2>1. CASE Answer(r, "401", None)
    BY <1>8, <2>1, SlotsError DEF RefreshVerify
  <2>2. CASE /\ body[r].token \notin jwtExpired
             /\ Goto(r, "revoke", Locals(local[r].user, jwt[body[r].token].email, None))
    <3>0. /\ RefreshLocals(r) /\ body[r].op = "refresh" /\ InFlight(r) /\ pc[r] = "verify"
          /\ UNCHANGED <<users, late, held, rows, jwt, ended, jwtExpired, rowExpired>>
      BY <1>0, <1>8 DEF RefreshVerify, Running, InFlight, HandlerInv
    <3>1. /\ \A s \in Requests : s # r => SlotInv(s)'
          /\ body'[r] = body[r] /\ local'[r] = Locals(local[r].user, jwt[body[r].token].email, None)
          /\ pc'[r] = "revoke" /\ reply'[r].code = "none" /\ AnswerInv(r)'
      BY <2>2, <3>0, SlotsGoto
    <3>3. RefreshLocals(r)'
      BY <2>2, <3>0, <3>1 DEF RefreshLocals, Locals, Signed
    <3>. QED  BY <3>0, <3>1, <3>3 DEF SlotInv, HandlerInv
  <2>. QED  BY <1>8, <2>1, <2>2 DEF RefreshVerify
<1>9. CASE RefreshRevoke(r)
  <2>0. /\ RefreshLocals(r) /\ body[r].op = "refresh" /\ InFlight(r) /\ pc[r] = "revoke" /\ Revoke(body[r].token)
        /\ UNCHANGED <<users, late, held, jwt, ended, jwtExpired, rowExpired>> /\ Goto(r, "issue", local[r])
    BY <1>0, <1>9 DEF RefreshRevoke, Running, InFlight, HandlerInv
  <2>1. /\ \A s \in Requests : s # r => SlotInv(s)'
        /\ body'[r] = body[r] /\ local'[r] = local[r]
        /\ pc'[r] = "issue" /\ reply'[r].code = "none" /\ AnswerInv(r)'
    BY <2>0, SlotsGoto
  <2>2. body[r].token \in Tokens /\ rows[body[r].token] # None
    BY <2>0 DEF RefreshLocals, Signed
  <2>3. rows'[body[r].token] # None /\ rows'[body[r].token].revoked
        /\ rows'[body[r].token].userId = rows[body[r].token].userId
    BY <1>0, <2>0, <2>2, RevokeFound DEF Grows
  <2>4. RefreshLocals(r)'
    BY <2>0, <2>1, <2>3 DEF RefreshLocals, Signed
  <2>. QED  BY <2>0, <2>1, <2>4 DEF SlotInv, HandlerInv
<1>10. CASE RefreshIssue(r)
  <2>1. /\ local[r].user \in UserIds /\ local[r].email \in Emails /\ body[r].op = "refresh" /\ RefreshLocals(r)
        /\ IssueTokenPair(r, local[r].user, local[r].email) /\ pc[r] = "issue"
        /\ UNCHANGED <<users, rows, late, held>>
    BY <1>0, <1>10, IssueArgs DEF RefreshIssue, HandlerInv, NamesAccount, Running, InFlight
  <2>2. \A s \in Requests : s # r => SlotInv(s)'
    BY <2>1, SlotsIssue
  <2>3. body'[r] = body[r] /\ HandlerInv(r)'
    BY <2>1, SlotsIssue
  <2>4. body[r].token \in Signed'
    BY <1>0, <2>1, NoneAssumption DEF RefreshLocals, Signed, Grows
  <2>5. AnswerInv(r)'
    BY <2>1, <2>3, <2>4 DEF AnswerInv, RefreshLocals
  <2>. QED  BY <2>2, <2>3, <2>5 DEF SlotInv
<1>11. CASE LogoutRevoke(r)
  <2>1. /\ body[r].op = "logout" /\ Answer(r, "200", None) /\ UNCHANGED <<users, late, held>>
    BY <1>11 DEF LogoutRevoke, Running
  <2>2. \A s \in Requests : s # r => SlotInv(s)'
    BY <1>0, <2>1, OthersAnswer, KnowsFrame, SlotFrame
  <2>3. body'[r] = body[r] /\ pc'[r] = "done"
    BY <1>0, <2>1 DEF Answer, TypeOK
  <2>. QED  BY <2>1, <2>2, <2>3 DEF SlotInv, HandlerInv, AnswerInv, InFlight
<1>12. CASE UpdateMeWrite(r)
  <2>0. /\ body[r].user \in UserIds /\ users[body[r].user] # None /\ body[r].op = "updateMe" /\ InFlight(r)
        /\ body[r].password \in Passwords /\ reply[r].code = "none" /\ late' = late
        /\ Goto(r, "reread", NoLocals) /\ Holds(users[body[r].user].username, body[r].password)
        /\ users' = [users EXCEPT ![body[r].user].password = body[r].password]
    BY <1>0, <1>12 DEF UpdateMeWrite, HandlerInv, Running, InFlight
  <2>1. \A s \in Requests : held[s] \subseteq held'[s]
    BY <2>0 DEF Holds
  <2>2. \A s \in Requests : s # r => Untouched(s)
    BY <1>0, <2>0, <2>1, OthersGoto
  <2>3. users[body[r].user] \in Account
    BY <1>0, <2>0 DEF TypeOK
  <2>4. /\ \A v \in UserIds : v # body[r].user => users'[v] = users[v]
        /\ users'[body[r].user] = [users[body[r].user] EXCEPT !.password = body[r].password]
    BY <1>0, <2>0 DEF TypeOK
  <2>5. /\ users'[body[r].user].username = users[body[r].user].username
        /\ users'[body[r].user].password = body[r].password
    BY <2>3, <2>4 DEF Account
  <2>6. \A s \in Requests : s # r => SlotInv(s)'
    BY <2>0, <2>2, <2>4, <2>5, KnowsChange, SlotFrame
  <2>7. body'[r] = body[r] /\ reply'[r] = reply[r]
    BY <1>0, <2>0 DEF Goto, TypeOK
  <2>8. users'[body[r].user] # None
    BY <2>0 DEF Grows
  <2>. QED  BY <2>0, <2>6, <2>7, <2>8 DEF SlotInv, HandlerInv, AnswerInv
<1>13. CASE UpdateMeReread(r)
  <2>1. PICK code : code \in {"404", "200"} /\ Answer(r, code, None) /\ UNCHANGED <<users, late, held>>
                    /\ body[r].op = "updateMe"
    BY <1>13 DEF UpdateMeReread, Running
  <2>2. \A s \in Requests : s # r => SlotInv(s)'
    BY <1>0, <2>1, OthersAnswer, KnowsFrame, SlotFrame
  <2>3. body'[r] = body[r] /\ pc'[r] = "done"
    BY <1>0, <2>1 DEF Answer, TypeOK
  <2>. QED  BY <2>1, <2>2, <2>3 DEF SlotInv, HandlerInv, AnswerInv, InFlight
<1>. QED  BY <1>1, <1>2, <1>3, <1>4, <1>5, <1>6, <1>7, <1>8, <1>9, <1>10, <1>11, <1>12, <1>13 DEF Handler

\* So do the environment's steps.
LEMMA SlotsNext ==
    ASSUME IInv, [Next]_vars
    PROVE  \A s \in Requests : SlotInv(s)'
<1>. USE DEF tables, clocks, slots, history
<1>0. TypeOK /\ TypeOK' /\ Grows /\ \A s \in Requests : HandlerInv(s) /\ AnswerInv(s)
  BY TypeNext, GrowsNext DEF IInv
<1>1. CASE UNCHANGED <<users, slots, late, held>>
  BY <1>0, <1>1, KnowsFrame, SlotFrame DEF Untouched
<1>2. ASSUME NEW r \in Requests, Client(r)
      PROVE  \A s \in Requests : SlotInv(s)'
  BY <1>0, <1>2, SlotsClient
<1>3. ASSUME NEW r \in Requests, Handler(r)
      PROVE  \A s \in Requests : SlotInv(s)'
  BY <1>0, <1>3, SlotsHandler
<1>4. ASSUME NEW r \in Requests, DbError(r)
      PROVE  \A s \in Requests : SlotInv(s)'
  BY <1>0, <1>4, SlotsError DEF DbError
<1>5. ASSUME NEW w \in pending, StoreToken(w) \/ StoreFails(w)
      PROVE  UNCHANGED <<users, slots, late, held>>
  BY <1>5 DEF StoreToken, StoreFails
<1>6. ASSUME NEW t \in Tokens, ExpireJwt(t) \/ ExpireRow(t)
      PROVE  UNCHANGED <<users, slots, late, held>>
  BY <1>6 DEF ExpireJwt, ExpireRow
<1>7. CASE Crash
  <2>1. SUFFICES ASSUME NEW s \in Requests
                 PROVE  SlotInv(s)'
    OBVIOUS
  <2>2. pc'[s] = "done" /\ UNCHANGED <<users, late, held, reply>>
    BY <1>7 DEF Crash
  <2>3. CASE InFlight(s)
    BY <1>0, <2>2, <2>3 DEF SlotInv, HandlerInv, AnswerInv, InFlight
  <2>4. CASE ~InFlight(s)
    <3>1. body'[s] = body[s] /\ pc'[s] = pc[s]
      BY <1>7, <2>2, <2>4 DEF Crash, InFlight
    <3>2. AnswerInv(s)'
      BY <1>0, <2>2, <2>4, <3>1, AnswerFrame
    <3>. QED  BY <2>2, <3>2 DEF SlotInv, HandlerInv, InFlight
  <2>. QED  BY <2>3, <2>4
<1>8. CASE UNCHANGED vars
  BY <1>1, <1>8 DEF vars
<1>. QED  BY <1>1, <1>2, <1>3, <1>4, <1>5, <1>6, <1>7, <1>8 DEF Next

(***************************************************************************)
(* The theorems.                                                           *)
(***************************************************************************)

\* The invariant holds before the first request.
LEMMA InitInv == Init => IInv
<1>. SUFFICES ASSUME Init PROVE IInv
  OBVIOUS
<1>1. TypeOK
  BY NoValuesTyped, Accounts0Assumption DEF Init, TypeOK
<1>2. AccountsUnique
  BY Accounts0Assumption DEF Init, AccountsUnique
<1>3. TokensAgree
  BY DEF Init, TokensAgree, Signed
<1>4. \A r \in Requests : HandlerInv(r) /\ AnswerInv(r)
  BY DEF Init, HandlerInv, AnswerInv, InFlight, NoReply
<1>. QED  BY <1>1, <1>2, <1>3, <1>4 DEF IInv

\* Every step keeps the invariant.
LEMMA StepInv == IInv /\ [Next]_vars => IInv'
BY TypeNext, UniqueNext, AgreeNext, SlotsNext DEF IInv, SlotInv

\* The inductive invariant holds in every reachable state, whatever the number of
\* concurrent requests, the faults and the tokens of the instance.
THEOREM Invariant == Spec => []IInv
BY InitInv, StepInv, PTL DEF Spec

\* The state keeps its types along every execution (AuthService's variables).
THEOREM TypeCorrect == Spec => []TypeOK
<1>1. IInv => TypeOK
  BY DEF IInv
<1>. QED  BY <1>1, Invariant, PTL

\* No interleaving of registrations leaves two accounts with one email or username.
THEOREM AccountsStayUnique == Spec => []AccountsUnique
<1>1. IInv => AccountsUnique
  BY DEF IInv
<1>. QED  BY <1>1, Invariant, PTL

\* The JWT, the row, the pending INSERT and the account always name one user.
THEOREM PairsStayWithTheirAccount == Spec => []PairsBelongToOneAccount
<1>1. IInv => PairsBelongToOneAccount
  BY DEF IInv, TokensAgree, AnswerInv, PairsBelongToOneAccount
<1>. QED  BY <1>1, Invariant, PTL

\* A refresh that begins after its token's end is never answered with a pair.
THEOREM EndedTokensNeverRefresh == Spec => []RefreshAfterEndFails
<1>1. IInv => RefreshAfterEndFails
  BY DEF IInv, AnswerInv, RefreshAfterEndFails
<1>. QED  BY <1>1, Invariant, PTL

\* A pair handed out by refresh has revoked the row of the token it was paid with.
THEOREM RefreshAlwaysConsumes == Spec => []RefreshConsumesToken
<1>1. IInv => RefreshConsumesToken
  BY DEF IInv, AnswerInv, RefreshConsumesToken
<1>. QED  BY <1>1, Invariant, PTL

\* A successful login presented a password its account held during the request.
THEOREM LoginsUseHeldPasswords == Spec => []LoginUsesHeldPassword
<1>1. IInv => LoginUsesHeldPassword
  BY DEF IInv, AnswerInv, LoginUsesHeldPassword
<1>. QED  BY <1>1, Invariant, PTL

=============================================================================
