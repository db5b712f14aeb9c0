SPECIFICATION Spec
CONSTANTS
    Paths <- TwoNames
    Values = {1, 2}
    num_inodes = 3
    num_data_blocks = 4
    D_BLOCK = 1
    CELLS = 2
    MaxSize = 4
    RemoveUsed = FALSE
INVARIANTS ImageSound 
 
