CONSTANTS
    p1 = p1
    Producers = {p1}
    Consumer = consumer
    Free = free
    NoMessage = noMessage
    EntryCount = 2
    CanSolo = TRUE
    ProducerPolls = 1
    ProducerUsesMutex = TRUE
    ConsumerPolls = 1
    ConsumerUsesMutex = FALSE
    DiscardMessages = FALSE
    MayTimeOut = TRUE
    Stoppable = {p1, consumer}
    MaxMessages = 4
    MaxAttach = 2
SPECIFICATION TimelySpec
PROPERTIES
    ImplementsFifo
    StoppedPublishEnds
    StoppedGetNextEnds
CHECK_DEADLOCK FALSE
