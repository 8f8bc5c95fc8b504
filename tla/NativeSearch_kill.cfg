SPECIFICATION Spec
CONSTANTS
    ir0 = ir0
    ir1 = ir1
    ir2 = ir2
    ir3 = ir3
    noIR = noIR
    decoder = decoder
    encoder = encoder
    Architectures <- MCArchitectures
    Seed = ir0
    NoArchitecture = noIR
    Cells <- MCCells
    Scores = {0, 1}
    Opportunities = 3
    Ahead = 2
SYMMETRY Symmetry
INVARIANTS
    LineageInv
    LineageExplainsState
    ResultIsTrue
CHECK_DEADLOCK FALSE
