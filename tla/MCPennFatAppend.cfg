CONSTANTS
    n1 = n1
    n2 = n2
    NFat = 5
    BS = 2
    EPB = 1
    Names <- MCNames
    Chars <- MCChars
    Inputs <- MCInputs
SPECIFICATION Spec
PROPERTIES
    BytesRefined
CHECK_DEADLOCK FALSE
