SPECIFICATION Spec
CONSTANTS
    RemoveEarly = TRUE
    NoTexture = NoTexture
    Terminate = Terminate
    MaxFrames = 4
INVARIANTS
    NothingInFlightAtDestruction
