CONSTANTS
    p1 = p1
    p2 = p2
    Producers = {p1, p2}
    Consumer = consumer
    Free = free
    NoMessage = noMessage
    EntryCount = 1
    CanSolo = FALSE
    ProducerPolls = 1
    ProducerUsesMutex = TRUE
    ConsumerPolls = 1
    ConsumerUsesMutex = FALSE
    DiscardMessages = FALSE
    MayTimeOut = TRUE
    Stoppable = {p1}
    MaxMessages = 2
    MaxAttach = 1
SPECIFICATION Spec
INVARIANTS
    TypeOK
    Window
    NoEntryRace
    NoLostProducerWakeup
PROPERTIES
    ImplementsFifo
CHECK_DEADLOCK FALSE
