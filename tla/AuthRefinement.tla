--------------------------- MODULE AuthRefinement ---------------------------
(* AuthService implements TokenLifecycle: where the tables, the pending    *)
(* INSERTs and the signatures put each token in its life.                  *)
EXTENDS AuthService

TokenState == [t \in Tokens |->
    IF rows[t] # None THEN (IF rows[t].revoked THEN "revoked" ELSE "live")
    ELSE IF jwt[t] = None THEN "unsigned"
    ELSE IF \E w \in pending : w.token = t THEN "inFlight" ELSE "lost"]

\* The account of a token is read where refresh reads it: in the row, once there is one.
TokenOwner == [t \in Tokens |->
    IF rows[t] # None THEN rows[t].userId
    ELSE IF jwt[t] # None THEN jwt[t].sub ELSE None]

Lifecycle == INSTANCE TokenLifecycle WITH state <- TokenState, owner <- TokenOwner

\* Every behaviour of the authentication code, with its races, failed statements
\* and crashes, is a behaviour of the token lifecycle: no token comes back to life,
\* changes hands or is signed twice.
RefinesLifecycle == Lifecycle!Spec
=============================================================================
