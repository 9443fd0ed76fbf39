----------------------------- MODULE BudgetMath -----------------------------
(***************************************************************************)
(* The arithmetic of a budget limit: how much of it is spent, and what     *)
(* that is called.  Money is counted in thousandths, the finest amount the *)
(* instances send; columns are decimal(15,2).                              *)
(***************************************************************************)
EXTENDS Integers

\* Mutants: the offset of the rounding with the wrong sign; Math.floor for Math.round;
\* > for >= ; = for >=.
StoredBelow(amount) == ((amount - 5) \div 10) * 10
PercentsFloor(spent, limit) == IF limit > 0 THEN {(100 * spent) \div limit} ELSE {0}
StatusStrict(percent) ==
    IF percent > 100 THEN "exceeded" ELSE IF percent > 80 THEN "warning" ELSE "ok"
StatusOnlyEqual(percent) ==
    IF percent = 100 THEN "exceeded" ELSE IF percent >= 80 THEN "warning" ELSE "ok"

\* decimal(15,2): the database keeps whole hundredths, rounding half up.
Stored(amount) == ((amount + 5) \div 10) * 10

\* limit > 0 ? Math.round(spent / limit * 100) : 0, in doubles. A percentage that is exactly
\* a half may come out just below it: 0.09 of 0.40 gives 22, 0.03 of 0.08 gives 38.
Percents(spent, limit) ==
    IF limit > 0 THEN {(200 * spent + limit) \div (2 * limit), (200 * spent + limit - 1) \div (2 * limit)}
                 ELSE {0}

Status(percent) ==
    IF percent >= 100 THEN "exceeded" ELSE IF percent >= 80 THEN "warning" ELSE "ok"

Severity(status) == CASE status = "ok" -> 0 [] status = "warning" -> 1 [] status = "exceeded" -> 2
=============================================================================
