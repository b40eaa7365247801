CONSTANTS
    MaxFiles = 2
    MaxArtboards = 2
    MaxStateMachines = 1
    MaxViewModels = 2
SPECIFICATION Spec
INVARIANTS
    NoOrphans
PROPERTIES
    DeletionsAreReported
    DependentsAreReportedFirst
    DeletedIsFinal
    ImplementsTree
