SPECIFICATION Spec
CONSTANTS
    ada = ada
    ben = ben
    Nobody = nobody
    Users <- Alone
    Things = {"spot", "wash"}
    Old = {"spot"}
    Depth = 10
    Chain = 64
    Late = FALSE
    Strays = TRUE
    Sizes <- Returning
CHECK_DEADLOCK FALSE
PROPERTIES
    UndoneBranchIsGone
