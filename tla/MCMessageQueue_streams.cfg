SPECIFICATION Spec
CONSTANTS
    Listeners = {l1}
    NoListener = NoListener
    Messages <- AllMessages
    GlobalListener = FALSE
    ListReferences = TRUE
    MaxHandles = 2
    MaxDepth = 2
    MaxMessages = 2
INVARIANTS
    TypeOK
    ReadsWhatWasWritten
