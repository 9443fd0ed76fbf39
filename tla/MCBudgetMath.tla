---------------------------- MODULE MCBudgetMath ----------------------------
(* One budget limit from an empty month to well past the limit, for every  *)
(* limit up to a bound; amounts are tens of thousandths (whole cents).     *)
EXTENDS BudgetMath

CONSTANTS MaxLimit, MaxSpent        \* in cents

VARIABLES spent, limit

Init == spent = 0 /\ limit \in {10 * c : c \in 0..MaxLimit}

Spend == spent < 10 * MaxSpent /\ spent' = spent + 10 /\ UNCHANGED limit

Spec == Init /\ [][Spend]_<<spent, limit>>

\* The percentage answered is a nearest whole number to the exact one (Math.round in
\* listByMonth and upsert), although doubles carry it, and 0 for a limit of 0.00.
PercentIsNearest ==
    \A p \in Percents(spent, limit) :
        LET off == 2 * (100 * spent - p * limit)
        IN IF limit = 0 THEN p = 0 ELSE -limit <= off /\ off <= limit

\* Rounding comes before comparing: a limit is exceeded from 99.5% of its amount on and a
\* warning starts at 79.5%, give or take the boundary itself; a limit of 0.00 never warns.
StatusThresholds ==
    \A p \in Percents(spent, limit) :
        /\ Status(p) = "exceeded" => limit > 0 /\ 200 * spent >= 199 * limit
        /\ Status(p) # "ok" => limit > 0 /\ 200 * spent >= 159 * limit
        /\ limit > 0 /\ 200 * spent > 199 * limit => Status(p) = "exceeded"
        /\ limit > 0 /\ 200 * spent > 159 * limit => Status(p) # "ok"

\* Spending more within a month never lowers the status of its limit, although either
\* percentage may come out below a half.
SpendingEscalates ==
    [][\A p \in Percents(spent, limit), q \in Percents(spent', limit') :
        Severity(Status(p)) <= Severity(Status(q))]_<<spent, limit>>
=============================================================================
