SPECIFICATION Spec
CONSTANTS
    Listeners = {l1, l2}
    NoListener = NoListener
    Messages <- OneMessage
    GlobalListener = FALSE
    ListReferences = TRUE
    MaxHandles = 2
    MaxDepth = 1
    MaxMessages = 1
PROPERTIES
    UnregistersItself
