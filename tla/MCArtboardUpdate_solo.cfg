SPECIFICATION Spec
CONSTANTS
    N1 = N1
    N2 = N2
    N3 = N3
    N4 = N4
    Artboard = Artboard
    Joystick = Joystick
    None = None
    Nodes = {N1, N2, N3, N4}
    Objects <- FourObjects
    Scenes <- SoloAsTarget
    MaxSteps = 4
    MaxFeatures = 3
PROPERTY
    ConstrainedIsMarked
