CONSTANTS
    n1 = n1
    n2 = n2
    NFat = 5
    BS = 2
    EPB = 1
    Names <- MCNames
    Chars <- MCChars
    Inputs <- MCInputs
SPECIFICATION Spec
VIEW FatView
INVARIANTS
    TypeOK
    ChainsDisjoint
    NoLeakedBlocks
    SizesFitChains
PROPERTIES
    SizesRefined
CHECK_DEADLOCK FALSE
