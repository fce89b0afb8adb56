SPECIFICATION Spec
CONSTANTS
    ada = ada
    ben = ben
    Nobody = nobody
    Users <- Two
    Things = {"spot", "wash"}
    Old = {"spot"}
    Depth = 10
    Chain = 64
    Late = FALSE
    Strays = FALSE
    Sizes <- Sessions
SYMMETRY Either
CHECK_DEADLOCK FALSE
INVARIANTS
    TypeOK
    FindsWhatThereIs
    ShowIsWhatStands
PROPERTIES
    ImplementsStacks
    RedoGivesBack
