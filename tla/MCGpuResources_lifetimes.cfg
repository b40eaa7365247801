CONSTANTS
    Resources = {r1, r2, r3, r4}
    BufferPool = bufferPool
    Images = {i1, i2, i3}
    None = none
    MaxPoolCount = 1
    MaxFrames = 5
SPECIFICATION Spec
SYMMETRY Alike
INVARIANTS
    NothingInUseIsDeleted
    NothingOverstays
PROPERTIES
    NothingInUseIsRewritten
\* The bound on the frames ends every behaviour.
CHECK_DEADLOCK FALSE
