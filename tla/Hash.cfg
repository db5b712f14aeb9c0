SPECIFICATION Spec
CONSTANTS
    Workers = {w1, w2, w3}
    Keys = {0, 1}
    Values = {1, 2}
    TableSize = 1
    MaxCalls = 4
SYMMETRY WorkerSymmetry
INVARIANT HashCorrect
PROPERTIES NodesStay
CHECK_DEADLOCK FALSE
