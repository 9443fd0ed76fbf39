\* Every limit up to 2.50, and spending up to 3.00.
SPECIFICATION Spec
CONSTANTS
    MaxLimit = 250
    MaxSpent = 300
INVARIANTS PercentIsNearest StatusThresholds
PROPERTY SpendingEscalates
\* The month ends.
CHECK_DEADLOCK FALSE
