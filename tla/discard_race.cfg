CONSTANTS
    p1 = p1
    Producers = {p1}
    Consumer = consumer
    Free = free
    NoMessage = noMessage
    EntryCount = 2
    CanSolo = TRUE
    ProducerPolls = 1
    ProducerUsesMutex = FALSE
    ConsumerPolls = 1
    ConsumerUsesMutex = FALSE
    DiscardMessages = TRUE
    MayTimeOut = FALSE
    Stoppable = {}
    MaxMessages = 4
    MaxAttach = 1
SPECIFICATION Spec
INVARIANTS
    FetchFindsMessage
CHECK_DEADLOCK FALSE
