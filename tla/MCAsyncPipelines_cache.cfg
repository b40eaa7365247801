\* The manager may be destroyed, after which nothing happens.
CHECK_DEADLOCK FALSE
SPECIFICATION Spec
CONSTANTS
    uber = uber
    feather = feather
    clip = clip
    plain = plain
    rich = rich
    imageUber = imageUber
    image = image
    None = None
    Keys <- MCKeys
    Uber <- MCUber
    Vertices <- MCVertices
    Vertex <- MCVertex
    Modes = {"allowAsynchronous", "onlyUbershaders", "alwaysSynchronous"}
    Backends = {"threaded", "polled"}
INVARIANTS
    TypeOK
    EachJobInOnePlace
    ShaderBuiltOnce
PROPERTIES
    ImplementsCache
    PipelinesArrive
    ShutdownEnds
