\* Two connections, and each of the three signals any number of times.
SPECIFICATION FairSpec
CONSTANTS
    Connections = {c1, c2}
    Signals = {"SIGTERM", "SIGINT", "SIGQUIT"}
INVARIANTS IInv RequestsHaveResources
PROPERTIES ClosesOnce ShutdownEnds
\* The process ends.
CHECK_DEADLOCK FALSE
