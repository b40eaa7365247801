SPECIFICATION Spec
CONSTANTS
    RemoveEarly = FALSE
    NoTexture = NoTexture
    Terminate = Terminate
    MaxFrames = 4
INVARIANTS
    TexturesConserved
    ShownFrameIsComplete
    PixelsAreShownFrame
PROPERTIES
    EveryFrameInTurn
    EndReturns
    DestructionEnds
