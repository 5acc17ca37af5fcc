CONSTANTS
    p1 = p1
    Producers = {p1}
    Consumer = consumer
    Free = free
    NoMessage = noMessage
    EntryCount = 1
    CanSolo = TRUE
    ProducerPolls = 1
    ProducerUsesMutex = TRUE
    ConsumerPolls = 1
    ConsumerUsesMutex = FALSE
    DiscardMessages = TRUE
    MayTimeOut = TRUE
    Stoppable = {}
    MaxMessages = 2
    MaxAttach = 1
SPECIFICATION TimelySpec
PROPERTIES
    ThrowsOnlyIfConsumed
CHECK_DEADLOCK FALSE
