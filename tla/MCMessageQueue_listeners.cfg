SPECIFICATION Spec
CONSTANTS
    Listeners = {l1, l2}
    NoListener = NoListener
    Messages <- OneMessage
    GlobalListener = TRUE
    ListReferences = FALSE
    MaxHandles = 2
    MaxDepth = 2
    MaxMessages = 2
INVARIANTS
    ListenersAreRegisteredOnce
PROPERTIES
    CallsLiveListener
    ConsumesAllReceived
    ProcessMessagesReturns
