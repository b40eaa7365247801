SPECIFICATION Spec
CONSTANTS
    NumLayers = 2
    Once = Once
    Loop = Loop
    Animations = {Once, Loop}
    EntryState = EntryState
    AnyState = AnyState
    None = None
    Machines <- MCMachines
    Frames = {0, 2}
    MaxExit = 4
    MaxIterations = 3
    MaxPasses = 2
INVARIANTS
    TypeOK
    InstancesOwned
    StopsWhenSettled
PROPERTIES
    NoTriggerMissed
    TransitionsEnd
