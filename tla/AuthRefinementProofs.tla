------------------------ MODULE AuthRefinementProofs ------------------------
(***************************************************************************)
(* AuthService implements TokenLifecycle, for every number of requests,    *)
(* tokens and accounts and for every set of faults.                        *)
(***************************************************************************)
EXTENDS AuthRefinement, AuthServiceProofs

\* A step that moves one token's state is an EXCEPT of the mapping.
LEMMA StateFunction ==
    ASSUME NEW t \in Tokens, NEW x, TokenState'[t] = x,
           \A s \in Tokens : s # t => TokenState'[s] = TokenState[s]
    PROVE  TokenState' = [TokenState EXCEPT ![t] = x]
<1>1. DOMAIN TokenState = Tokens /\ DOMAIN TokenState' = Tokens
  BY DEF TokenState
<1>2. /\ TokenState = [s \in Tokens |-> TokenState[s]]
      /\ TokenState' = [s \in Tokens |-> TokenState'[s]]
  BY DEF TokenState
<1>. QED  BY <1>1, <1>2

\* Nothing is signed at first.
LEMMA RefinesInit == Init => Lifecycle!Init
BY DEF Init, Lifecycle!Init, TokenState, TokenOwner

\* Signing a token is Sign; the INSERT is in flight from then on.
LEMMA RefinesIssue ==
    ASSUME IInv, NEW r \in Requests, NEW u \in UserIds, NEW e \in Emails, IssueTokenPair(r, u, e), UNCHANGED rows
    PROVE  Lifecycle!Next
<1>0. TypeOK /\ TokensAgree
  BY DEF IInv
<1>1. PICK t \in Tokens :
          /\ jwt[t] = None
          /\ jwt' = [jwt EXCEPT ![t] = [sub |-> u, email |-> e]]
          /\ pending' = pending \cup {[token |-> t, userId |-> u]}
  BY DEF IssueTokenPair
<1>2. rows[t] = None
  BY <1>0, <1>1 DEF TokensAgree, Signed
<1>3. [sub |-> u, email |-> e] # None
  <2>1. [sub |-> u, email |-> e] \in Payload
    BY DEF Payload
  <2>. QED  BY <2>1, NoneAssumption
<1>4. jwt'[t] # None /\ jwt'[t].sub = u /\ \A s \in Tokens : s # t => jwt'[s] = jwt[s]
  BY <1>0, <1>1, <1>3 DEF TypeOK
<1>5. TokenState[t] = "unsigned"
  BY <1>1, <1>2 DEF TokenState
<1>6. \A s \in Tokens : s # t => ((\E w \in pending' : w.token = s) <=> (\E w \in pending : w.token = s))
  BY <1>1
<1>7. \E w \in pending' : w.token = t
  <2>1. [token |-> t, userId |-> u] \in pending'
    BY <1>1
  <2>2. [token |-> t, userId |-> u].token = t
    OBVIOUS
  <2>. QED  BY <2>1, <2>2
<1>8. TokenState' = [TokenState EXCEPT ![t] = "inFlight"]
  <2>1. TokenState'[t] = "inFlight"
    BY <1>2, <1>4, <1>7 DEF TokenState
  <2>2. ASSUME NEW s \in Tokens, s # t
        PROVE  TokenState'[s] = TokenState[s]
    <3>1. jwt'[s] = jwt[s] /\ rows'[s] = rows[s]
      BY <1>4, <2>2
    <3>2. (\E w \in pending' : w.token = s) <=> (\E w \in pending : w.token = s)
      BY <1>6, <2>2
    <3>. QED  BY <3>1, <3>2 DEF TokenState
  <2>. QED  BY <2>1, <2>2, StateFunction
<1>9. TokenOwner' = [TokenOwner EXCEPT ![t] = u]
  <2>1. TokenOwner'[t] = u
    BY <1>2, <1>4 DEF TokenOwner
  <2>2. \A s \in Tokens : s # t => TokenOwner'[s] = TokenOwner[s]
    BY <1>4 DEF TokenOwner
  <2>. QED  BY <2>1, <2>2 DEF TokenOwner
<1>10. Lifecycle!Sign(t, u)
  BY <1>5, <1>8, <1>9 DEF Lifecycle!Sign
<1>. QED  BY <1>10 DEF Lifecycle!Next

\* revokeByToken is Revoke, or a stutter when the row is missing or revoked already.
LEMMA RefinesRevoke ==
    ASSUME IInv, NEW t \in Tokens, Revoke(t), UNCHANGED <<jwt, pending>>
    PROVE  [Lifecycle!Next]_(Lifecycle!life)
<1>0. TypeOK
  BY DEF IInv
<1>1. CASE rows[t] = None
  BY <1>1 DEF Revoke, Lifecycle!life, TokenState, TokenOwner
<1>2. CASE rows[t] # None
  <2>1. rows[t] \in Row /\ rows' = [rows EXCEPT ![t].revoked = TRUE]
    BY <1>0, <1>2 DEF Revoke, TypeOK
  <2>2. rows'[t] = [rows[t] EXCEPT !.revoked = TRUE] /\ \A s \in Tokens : s # t => rows'[s] = rows[s]
    BY <1>0, <2>1 DEF TypeOK
  <2>3. rows'[t] \in Row /\ rows'[t].userId = rows[t].userId /\ rows'[t].revoked
    BY <2>1, <2>2 DEF Row
  <2>4. rows'[t] # None
    BY <2>3, NoneAssumption
  <2>5. UNCHANGED TokenOwner
    BY <1>2, <2>2, <2>3, <2>4 DEF TokenOwner
  <2>6. TokenState' = [TokenState EXCEPT ![t] = "revoked"]
    BY <2>2, <2>3, <2>4 DEF TokenState
  <2>7. CASE rows[t].revoked
    <3>1. TokenState[t] = "revoked"
      BY <1>2, <2>7 DEF TokenState
    <3>2. UNCHANGED TokenState
      BY <1>2, <2>2, <2>3, <2>4, <2>7 DEF TokenState
    <3>. QED  BY <2>5, <3>2 DEF Lifecycle!life
  <2>8. CASE ~rows[t].revoked
    <3>1. TokenState[t] = "live"
      BY <1>2, <2>8 DEF TokenState
    <3>2. Lifecycle!Revoke(t)
      BY <2>5, <2>6, <3>1 DEF Lifecycle!Revoke
    <3>. QED  BY <3>2 DEF Lifecycle!Next
  <2>. QED  BY <2>7, <2>8
<1>. QED  BY <1>1, <1>2

\* A committed INSERT is Arrive.
LEMMA RefinesStore ==
    ASSUME IInv, NEW w \in pending, StoreToken(w)
    PROVE  Lifecycle!Next
<1>0. TypeOK /\ TokensAgree
  BY DEF IInv
<1>1. /\ w.token \in Tokens /\ jwt[w.token] # None /\ w.userId = jwt[w.token].sub /\ rows[w.token] = None
      /\ w.userId \in UserIds
  BY <1>0 DEF TypeOK, TokensAgree, Signed
<1>2. [userId |-> w.userId, revoked |-> FALSE] # None
  <2>1. [userId |-> w.userId, revoked |-> FALSE] \in Row
    BY <1>1 DEF Row
  <2>. QED  BY <2>1, NoneAssumption
<1>3. /\ rows'[w.token] # None /\ rows'[w.token].userId = w.userId /\ rows'[w.token].revoked = FALSE
      /\ \A s \in Tokens : s # w.token => rows'[s] = rows[s]
      /\ jwt' = jwt /\ pending' = pending \ {w}
  BY <1>0, <1>1, <1>2 DEF StoreToken, TypeOK
<1>4. TokenState[w.token] = "inFlight"
  BY <1>1 DEF TokenState
<1>5. \A s \in Tokens : s # w.token => ((\E v \in pending' : v.token = s) <=> (\E v \in pending : v.token = s))
  BY <1>3
<1>6. TokenState' = [TokenState EXCEPT ![w.token] = "live"]
  <2>1. TokenState'[w.token] = "live"
    BY <1>1, <1>3 DEF TokenState
  <2>2. ASSUME NEW s \in Tokens, s # w.token
        PROVE  TokenState'[s] = TokenState[s]
    <3>1. jwt'[s] = jwt[s] /\ rows'[s] = rows[s]
      BY <1>3, <2>2
    <3>2. (\E v \in pending' : v.token = s) <=> (\E v \in pending : v.token = s)
      BY <1>5, <2>2
    <3>. QED  BY <3>1, <3>2 DEF TokenState
  <2>. QED  BY <1>1, <2>1, <2>2, StateFunction
<1>7. TokenOwner' = TokenOwner
  BY <1>1, <1>3 DEF TokenOwner
<1>8. Lifecycle!Arrive(w.token)
  BY <1>4, <1>6, <1>7 DEF Lifecycle!Arrive
<1>. QED  BY <1>1, <1>8 DEF Lifecycle!Next

\* Pending INSERTs that disappear, one by one or with the process, are Lose.
LEMMA RefinesLose ==
    ASSUME IInv, pending' \subseteq pending, UNCHANGED <<rows, jwt>>
    PROVE  Lifecycle!Next
<1>0. TypeOK /\ TokensAgree
  BY DEF IInv
<1>. DEFINE lost == {t \in Tokens : (\E w \in pending : w.token = t) /\ ~\E w \in pending' : w.token = t}
<1>1. \A t \in lost : rows[t] = None /\ jwt[t] # None
  BY <1>0 DEF TokensAgree, Signed
<1>2. \A t \in lost : TokenState[t] = "inFlight"
  BY <1>1 DEF TokenState
<1>3. TokenState' = [t \in Tokens |-> IF t \in lost THEN "lost" ELSE TokenState[t]]
  BY <1>1 DEF TokenState
<1>4. UNCHANGED TokenOwner
  BY DEF TokenOwner
<1>5. Lifecycle!Lose(lost)
  BY <1>2, <1>3, <1>4 DEF Lifecycle!Lose
<1>6. lost \in SUBSET Tokens
  OBVIOUS
<1>. QED  BY <1>5, <1>6 DEF Lifecycle!Next

\* Every step of the handlers is a step of the abstract life of a token, or none.
LEMMA RefinesStep ==
    ASSUME IInv, [Next]_vars
    PROVE  [Lifecycle!Next]_(Lifecycle!life)
<1>. USE DEF tables, clocks, slots, history
<1>0. TypeOK
  BY DEF IInv
<1>1. CASE UNCHANGED <<rows, jwt, pending>>
  BY <1>1 DEF Lifecycle!life, TokenState, TokenOwner
<1>2. ASSUME NEW r \in Requests, Client(r)
      PROVE  UNCHANGED <<rows, jwt, pending>>
  BY <1>2 DEF Client, StartRegister, StartLogin, StartRefresh, StartLogout, StartUpdateMe, Begin
<1>3. ASSUME NEW r \in Requests, Handler(r)
      PROVE  [Lifecycle!Next]_(Lifecycle!life)
  <2>0. HandlerInv(r)
    BY DEF IInv
  <2>1. CASE RegisterFindEmail(r) \/ RegisterFindUsername(r) \/ RegisterDecide(r) \/ RegisterInsert(r) \/ LoginFind(r)
             \/ RefreshFind(r) \/ RefreshVerify(r) \/ UpdateMeWrite(r) \/ UpdateMeReread(r)
    BY <1>1, <2>1 DEF RegisterFindEmail, RegisterFindUsername, RegisterDecide, RegisterInsert, LoginFind,
       RefreshFind, RefreshVerify, UpdateMeWrite, UpdateMeReread
  <2>2. CASE RegisterIssue(r) \/ RefreshIssue(r)
    BY <2>2, IssueArgs, RefinesIssue DEF RegisterIssue, RefreshIssue, NamesAccount
  <2>3. CASE LoginCompare(r)
    <3>1. CASE IssueTokenPair(r, local[r].user, local[r].email)
      BY <2>3, <3>1, IssueArgs, RefinesIssue DEF LoginCompare, NamesAccount
    <3>. QED  BY <1>1, <2>3, <3>1 DEF LoginCompare
  <2>4. CASE RefreshRevoke(r)
    <3>1. body[r].token \in Tokens
      BY <2>0, <2>4 DEF RefreshRevoke, HandlerInv, Running, InFlight, RefreshLocals, Signed
    <3>. QED  BY <2>4, <3>1, RefinesRevoke DEF RefreshRevoke
  <2>5. CASE LogoutRevoke(r)
    <3>1. body[r].token \in Tokens
      BY <2>0, <2>5 DEF LogoutRevoke, HandlerInv, Running, InFlight, Signed
    <3>. QED  BY <2>5, <3>1, RefinesRevoke DEF LogoutRevoke
  <2>. QED  BY <1>3, <2>1, <2>2, <2>3, <2>4, <2>5 DEF Handler
<1>4. ASSUME NEW r \in Requests, DbError(r)
      PROVE  UNCHANGED <<rows, jwt, pending>>
  BY <1>4 DEF DbError
<1>5. ASSUME NEW w \in pending, StoreToken(w) \/ StoreFails(w)
      PROVE  [Lifecycle!Next]_(Lifecycle!life)
  <2>1. CASE StoreToken(w)
    BY <2>1, RefinesStore
  <2>2. CASE StoreFails(w)
    BY <2>2, RefinesLose DEF StoreFails
  <2>. QED  BY <1>5, <2>1, <2>2
<1>6. ASSUME NEW t \in Tokens, ExpireJwt(t) \/ ExpireRow(t)
      PROVE  UNCHANGED <<rows, jwt, pending>>
  BY <1>6 DEF ExpireJwt, ExpireRow
<1>7. CASE Crash
  BY <1>7, RefinesLose DEF Crash
<1>8. CASE UNCHANGED vars
  BY <1>1, <1>8 DEF vars
<1>. QED  BY <1>1, <1>2, <1>3, <1>4, <1>5, <1>6, <1>7, <1>8 DEF Next

\* The authentication code implements the token lifecycle.
THEOREM AuthImplementsLifecycle == Spec => RefinesLifecycle
<1>1. Spec => []IInv
  BY Invariant
<1>. QED  BY <1>1, RefinesInit, RefinesStep, PTL DEF Spec, RefinesLifecycle, Lifecycle!Spec
=============================================================================
