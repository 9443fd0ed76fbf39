\* A job of a queue that other workers run, too, and takes two at once, beside a listener, in a
\* process that may crash at any moment.
SPECIFICATION FairSpec
CONSTANTS
    None = None
    Nothing = Nothing
    j1 = j1
    j2 = j2
    Listeners <- OneListener
    BrokenListeners = {}
    EnabledConsumers = {}
    EnvGroupId = None
    EnvFromBeginning = FALSE
    MaxLog = 1
    MaxMoves = 0
    Queues <- TwoQueues
    BrokenQueues = {}
    JobDefinitions = {}
    Jobs = {j1}
    QueueOf <- OnePerQueue
    ConcurrencyOf <- TwoThenOne
    SharedQueues = {"q1"}
    Attempts = 2
    MaxStalls = 1
INVARIANTS IInv OverlapsFollowStalls HandlersHaveProducer
PROPERTY JobsEnd
