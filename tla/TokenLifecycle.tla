--------------------------- MODULE TokenLifecycle ---------------------------
(***************************************************************************)
(* What the refresh-token store promises, seen from outside: a token is    *)
(* signed once, for one account; its row arrives later or never; a row     *)
(* that arrived is live until it is revoked, and that is the end of it.    *)
(* Nothing here knows about requests, awaits or tables.                    *)
(***************************************************************************)
CONSTANTS Tokens, UserIds, None

VARIABLES
    state,      \* where each token is in its life
    owner       \* the account it was signed for

life == <<state, owner>>

Init ==
    /\ state = [t \in Tokens |-> "unsigned"]
    /\ owner = [t \in Tokens |-> None]

Sign(t, u) ==
    /\ state[t] = "unsigned"
    /\ state' = [state EXCEPT ![t] = "inFlight"]
    /\ owner' = [owner EXCEPT ![t] = u]

Arrive(t) ==
    /\ state[t] = "inFlight"
    /\ state' = [state EXCEPT ![t] = "live"]
    /\ UNCHANGED owner

Revoke(t) ==
    /\ state[t] = "live"
    /\ state' = [state EXCEPT ![t] = "revoked"]
    /\ UNCHANGED owner

\* A rejected INSERT loses one row, the death of the process any number of them.
Lose(lost) ==
    /\ \A t \in lost : state[t] = "inFlight"
    /\ state' = [t \in Tokens |-> IF t \in lost THEN "lost" ELSE state[t]]
    /\ UNCHANGED owner

Next ==
    \/ \E t \in Tokens, u \in UserIds : Sign(t, u)
    \/ \E t \in Tokens : Arrive(t) \/ Revoke(t)
    \/ \E lost \in SUBSET Tokens : Lose(lost)

Spec == Init /\ [][Next]_life
=============================================================================
