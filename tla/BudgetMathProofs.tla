-------------------------- MODULE BudgetMathProofs --------------------------
(***************************************************************************)
(* What Percents and Status compute, for every amount of money, and what   *)
(* that says of a limit while its month is spent.                          *)
(***************************************************************************)
EXTENDS MCBudgetMath, TLAPS

\* Integer division compared with a bound is a comparison of products.
LEMMA DivAtLeast ==
    ASSUME NEW a \in Nat, NEW b \in Nat \ {0}, NEW k \in Nat
    PROVE  a \div b >= k <=> a >= b * k
<1>. DEFINE q == a \div b
<1>1. q \in Nat /\ b * q <= a /\ a < b * q + b
  OBVIOUS
<1>. HIDE DEF q
<1>2. q >= k => b * q >= b * k
  BY <1>1
<1>3. q < k => b * q + b <= b * k
  <2>1. q < k => q + 1 <= k
    BY <1>1
  <2>2. q + 1 <= k => b * (q + 1) <= b * k
    BY <1>1
  <2>3. b * (q + 1) = b * q + b
    BY <1>1
  <2>. QED  BY <2>1, <2>2, <2>3
<1>. QED  BY <1>1, <1>2, <1>3 DEF q

\* How either outcome of the rounding compares with k.
LEMMA PercentAtLeast ==
    ASSUME NEW s \in Nat, NEW l \in Nat \ {0}, NEW k \in Nat, NEW p \in Percents(s, l)
    PROVE  /\ p \in Int
           /\ p >= k => 200 * s + l >= (2 * l) * k
           /\ 200 * s + l > (2 * l) * k => p >= k
<1>. DEFINE high == 200 * s + l
            low == 200 * s + l - 1
            d == 2 * l
<1>1. high \in Nat /\ low \in Nat /\ d \in Nat \ {0} /\ d * k \in Nat
  OBVIOUS
<1>2. (high \div d >= k <=> high >= d * k) /\ (low \div d >= k <=> low >= d * k)
  BY <1>1, DivAtLeast
<1>3. p = high \div d \/ p = low \div d
  BY DEF Percents
<1>4. low = high - 1
  OBVIOUS
<1>5. high \div d \in Int /\ low \div d \in Int
  BY <1>1
<1>. HIDE DEF high, low, d
<1>6. low >= d * k => high >= d * k
  BY <1>1, <1>4
<1>7. high > d * k => low >= d * k
  BY <1>1, <1>4
<1>8. /\ p \in Int
      /\ p >= k => high >= d * k
      /\ high > d * k => p >= k
  BY <1>1, <1>2, <1>3, <1>5, <1>6, <1>7
<1>. QED  BY <1>8 DEF high, d

\* A limit is exceeded from 99.5% of its amount on, not from 100%: the percentage is
\* rounded before it is compared (BudgetLimitService, listByMonth and upsert).
THEOREM ExceededFrom ==
    ASSUME NEW s \in Nat, NEW l \in Nat \ {0}, NEW p \in Percents(s, l)
    PROVE  /\ Status(p) = "exceeded" => 200 * s >= 199 * l
           /\ 200 * s > 199 * l => Status(p) = "exceeded"
<1>1. /\ p >= 100 => 200 * s >= 199 * l
      /\ 200 * s > 199 * l => p >= 100
  BY PercentAtLeast
<1>. QED  BY <1>1 DEF Status

\* A warning starts at 79.5% of the limit, for the same reason.
THEOREM WarningFrom ==
    ASSUME NEW s \in Nat, NEW l \in Nat \ {0}, NEW p \in Percents(s, l)
    PROVE  /\ Status(p) # "ok" => 200 * s >= 159 * l
           /\ 200 * s > 159 * l => Status(p) # "ok"
<1>1. /\ p \in Int
      /\ p >= 80 => 200 * s >= 159 * l
      /\ 200 * s > 159 * l => p >= 80
  BY PercentAtLeast
<1>. QED  BY <1>1 DEF Status

\* Spending more never lowers the status of a limit, whichever way the doubles fall.
THEOREM MoreSpentEscalates ==
    ASSUME NEW s \in Nat, NEW more \in Nat, s < more, NEW l \in Nat,
           NEW p \in Percents(s, l), NEW q \in Percents(more, l)
    PROVE  Severity(Status(p)) <= Severity(Status(q))
<1>1. CASE l = 0
  BY <1>1 DEF Percents, Status, Severity
<1>2. CASE l # 0
  <2>1. 200 * s + l < 200 * more + l
    OBVIOUS
  <2>2. (p >= 100 => q >= 100) /\ (p >= 80 => q >= 80)
    BY <1>2, <2>1, PercentAtLeast
  <2>3. p \in Int /\ q \in Int
    BY <1>2, PercentAtLeast
  <2>. QED  BY <2>2, <2>3 DEF Status, Severity
<1>. QED  BY <1>1, <1>2

\* Either outcome of the rounding is a nearest whole percentage.
LEMMA PercentNearest ==
    ASSUME NEW s \in Nat, NEW l \in Nat \ {0}, NEW p \in Percents(s, l)
    PROVE  -l <= 2 * (100 * s - p * l) /\ 2 * (100 * s - p * l) <= l
<1>. DEFINE d == 2 * l
<1>1. d \in Nat \ {0}
  OBVIOUS
<1>2. PICK n \in {200 * s + l, 200 * s + l - 1} : p = n \div d
  BY DEF Percents
<1>3. n \in Nat /\ 200 * s + l - 1 <= n /\ n <= 200 * s + l
  BY <1>2
<1>4. p \in Nat /\ d * p <= n /\ n < d * p + d
  BY <1>1, <1>2, <1>3
<1>5. d * p = 2 * (p * l) /\ p * l \in Nat
  BY <1>4
<1>6. 2 * (100 * s - p * l) = 200 * s - d * p
  BY <1>4, <1>5
<1>. HIDE DEF d
<1>7. d * p \in Nat
  BY <1>1, <1>4
<1>8. -l <= 200 * s - d * p
  BY <1>3, <1>4, <1>7
<1>9. n < d * p + 2 * l
  BY <1>4 DEF d
<1>10. 200 * s - d * p <= l
  BY <1>3, <1>7, <1>9
<1>. QED  BY <1>6, <1>8, <1>10

\* Amounts are whole numbers from the first cent of the month to the last.
LEMMA Amounts == Spec => [](spent \in Nat /\ limit \in Nat)
<1>1. Init => spent \in Nat /\ limit \in Nat
  BY DEF Init
<1>2. spent \in Nat /\ limit \in Nat /\ [Spend]_<<spent, limit>> => (spent \in Nat /\ limit \in Nat)'
  BY DEF Spend
<1>. QED  BY <1>1, <1>2, PTL DEF Spec

\* The percentage answered is a nearest one throughout the month, whatever the limit.
THEOREM AlwaysNearest == Spec => []PercentIsNearest
<1>1. spent \in Nat /\ limit \in Nat => PercentIsNearest
  <2>. SUFFICES ASSUME spent \in Nat, limit \in Nat PROVE PercentIsNearest
    OBVIOUS
  <2>1. CASE limit = 0
    BY <2>1 DEF PercentIsNearest, Percents
  <2>2. CASE limit # 0
    BY <2>2, PercentNearest DEF PercentIsNearest
  <2>. QED  BY <2>1, <2>2
<1>. QED  BY Amounts, <1>1, PTL

\* "exceeded" begins at 99.5% and "warning" at 79.5% of every limit, the boundary itself
\* apart, throughout the month; a limit of 0.00 is always ok.
THEOREM AlwaysThresholds == Spec => []StatusThresholds
<1>1. spent \in Nat /\ limit \in Nat => StatusThresholds
  <2>. SUFFICES ASSUME spent \in Nat, limit \in Nat PROVE StatusThresholds
    OBVIOUS
  <2>1. CASE limit = 0
    BY <2>1 DEF StatusThresholds, Percents, Status
  <2>2. CASE limit # 0
    BY <2>2, ExceededFrom, WarningFrom DEF StatusThresholds
  <2>. QED  BY <2>1, <2>2
<1>. QED  BY Amounts, <1>1, PTL

\* Spending never lowers the status of a limit.
THEOREM AlwaysEscalates == Spec => SpendingEscalates
<1>1. /\ spent \in Nat /\ limit \in Nat /\ [Spend]_<<spent, limit>>
      => [\A p \in Percents(spent, limit), q \in Percents(spent', limit') :
              Severity(Status(p)) <= Severity(Status(q))]_<<spent, limit>>
  <2>. SUFFICES ASSUME spent \in Nat, limit \in Nat, Spend,
                       NEW p \in Percents(spent, limit), NEW q \in Percents(spent', limit')
                PROVE  Severity(Status(p)) <= Severity(Status(q))
    OBVIOUS
  <2>1. spent' \in Nat /\ spent < spent' /\ limit' = limit
    BY DEF Spend
  <2>. QED  BY <2>1, MoreSpentEscalates
<1>. QED  BY Amounts, <1>1, PTL DEF Spec, SpendingEscalates

\* Storing an amount moves it by less than one hundredth, and storing it again not at all.
THEOREM StoredIsNear ==
    ASSUME NEW amount \in Nat
    PROVE  /\ Stored(amount) \in Nat /\ Stored(amount) - amount \in -4..5
           /\ Stored(Stored(amount)) = Stored(amount)
BY DEF Stored
=============================================================================
