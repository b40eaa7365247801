SPECIFICATION Spec
CONSTANTS
    N1 = N1
    N2 = N2
    N3 = N3
    N4 = N4
    Artboard = Artboard
    Joystick = Joystick
    None = None
    Nodes = {N1, N2, N3}
    Objects <- ThreeObjects
    Scenes <- MCScenes
    MaxSteps = 4
    MaxFeatures = 3
INVARIANTS
    TypeOK
    NothingStale
    NeverCutOff
PROPERTY
    UpdatedAfterDependencies
