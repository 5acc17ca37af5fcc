CONSTANTS
    p1 = p1
    Producers = {p1}
    Consumer = consumer
    Free = free
    NoMessage = noMessage
    EntryCount = 1
    CanSolo = TRUE
    ProducerPolls = 1
    ProducerUsesMutex = FALSE
    ConsumerPolls = 1
    ConsumerUsesMutex = TRUE
    DiscardMessages = FALSE
    MayTimeOut = FALSE
    Stoppable = {consumer}
    MaxMessages = 2
    MaxAttach = 1
SPECIFICATION Spec
INVARIANTS
    StopEndsGetNext
CHECK_DEADLOCK FALSE
