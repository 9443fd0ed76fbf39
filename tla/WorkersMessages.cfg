\* Two listeners of one topic in a process that may crash at any moment; a queue without jobs.
SPECIFICATION FairSpec
CONSTANTS
    None = None
    Nothing = Nothing
    j1 = j1
    j2 = j2
    Listeners <- TopicListeners
    BrokenListeners = {"C"}
    EnabledConsumers = {}
    EnvGroupId = None
    EnvFromBeginning = FALSE
    MaxLog = 2
    MaxMoves = 2
    Queues <- OneQueue
    BrokenQueues = {}
    JobDefinitions = {}
    Jobs = {}
    QueueOf <- OnePerQueue
    ConcurrencyOf <- TwoThenOne
    SharedQueues = {}
    Attempts = 1
    MaxStalls = 0
INVARIANTS IInv OffsetsCoverHandling
PROPERTY MessagesReachListeners
