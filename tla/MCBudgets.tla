------------------------------ MODULE MCBudgets ------------------------------
(* Instances of Budgets for TLC. *)
EXTENDS Budgets, TLC

CONSTANT c1

Nothing == {}

Body(c, a, t, m) == [category |-> c, amount |-> a, type |-> t, month |-> m]

\* 0.105, which the column stores as 0.11, spent in one of the categories.
LimitDrafts == {Body(c1, 105, "expense", m) : m \in Months}

\* A limit of 0.004, which the column stores as 0.00, and one of 0.12: 0.11 is a
\* warning there.
SubCentLimits == {4, 120}

\* One body to create with, and a patch that moves the row down the list, and out of the
\* list of expenses.
LedgerDrafts == {Body(None, 1000, "expense", m) : m \in Months}
LedgerPatches == {[amount |-> 800, type |-> "income"]}

BudgetSymmetry == Permutations(TxIds) \cup Permutations(LimitIds) \cup Permutations(Requests)
LedgerSymmetry == Permutations(TxIds) \cup Permutations(Requests) \cup Permutations(Users)
=============================================================================
