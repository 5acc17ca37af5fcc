CONSTANTS
    p1 = p1
    p2 = p2
    Producers = {p1, p2}
    Consumer = consumer
    Free = free
    NoMessage = noMessage
    EntryCount = 1
    CanSolo = FALSE
    ProducerPolls = 1
    ProducerUsesMutex = FALSE
    ConsumerPolls = 1
    ConsumerUsesMutex = TRUE
    DiscardMessages = FALSE
    MayTimeOut = TRUE
    Stoppable = {}
    MaxMessages = 2
    MaxAttach = 1
SPECIFICATION ReadingSpec
INVARIANTS
    NoLostConsumerWakeup
PROPERTIES
    EveryMessageDelivered
CHECK_DEADLOCK FALSE
