CHECK_DEADLOCK FALSE
SYMMETRY Symmetry
SPECIFICATION Spec
CONSTANTS
    Threads = {t1, t2}
    Exported <- MCExported
    Conns = {1}
    Sizes = {2, 5}
    BufSize = 1
    MaxFragments = 2
    Nested <- MCNested
    Entries = 1
    MaxCalls = 3
INVARIANT RecordIsOfItsCall
INVARIANT LengthIsOfItsCall
INVARIANT MissingBytesAreCounted
 
