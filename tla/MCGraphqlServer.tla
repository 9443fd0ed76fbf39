-------------------------- MODULE MCGraphqlServer --------------------------
(* An instance of GraphqlServer for TLC. *)
EXTENDS GraphqlServer, TLC

\* Two tokens of one user: one of each type, and only one carries a role.
Web == [sub |-> "s", tokenType |-> "web", roles |-> {"admin"}]
App == [sub |-> "s", tokenType |-> "app", roles |-> {}]
TwoTokens == {Web, App}

\* One request for each way through authChecker.
EachWay == {[token |-> None, guard |-> "open"], [token |-> None, guard |-> "admin"],
            [token |-> Introspection, guard |-> "signedIn"], [token |-> Web, guard |-> "admin"],
            [token |-> App, guard |-> "signedIn"], [token |-> App, guard |-> "admin"]}

Symmetry == Permutations(Requests) \cup Permutations(Keys) \cup Permutations(Batches)
=============================================================================
