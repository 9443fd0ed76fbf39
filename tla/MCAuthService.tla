---------------------------- MODULE MCAuthService ----------------------------
(* Instances of AuthService for TLC. *)
EXTENDS AuthRefinement, TLC

CONSTANTS u1, u2, e1, e2, n1, n2, p1, p2

\* One account registered before the run.
OneAccount == [u \in UserIds |-> IF u = u1 THEN [email |-> e1, username |-> n1, password |-> p1] ELSE None]

\* Three people: two want the same username, two the same email.
Colliding == {[email |-> e2, username |-> n2, password |-> p1],
              [email |-> e1, username |-> n2, password |-> p1],
              [email |-> e2, username |-> n1, password |-> p1]}
Nobody == {}

\* Tokens and request slots are interchangeable in the safety runs.
SafetySymmetry == Permutations(Tokens) \cup Permutations(Requests)
=============================================================================
