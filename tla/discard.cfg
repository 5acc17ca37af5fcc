CONSTANTS
    p1 = p1
    p2 = p2
    p3 = p3
    Producers = {p1, p2, p3}
    Consumer = consumer
    Free = free
    NoMessage = noMessage
    EntryCount = 1
    CanSolo = FALSE
    ProducerPolls = 1
    ProducerUsesMutex = FALSE
    ConsumerPolls = 1
    ConsumerUsesMutex = FALSE
    DiscardMessages = TRUE
    MayTimeOut = FALSE
    Stoppable = {}
    MaxMessages = 1
    MaxAttach = 2
SPECIFICATION FairSpec
PROPERTIES
    PublishReturns
    PublishByOne
CHECK_DEADLOCK FALSE
