SPECIFICATION Spec
CONSTANTS
    Workers = {w1, w2}
    Names = {"a.com", "b.com", "9.9.9.9"}
    Literals = {"9.9.9.9"}
    V4 = {"1.1.1.1", "2.2.2.2", "9.9.9.9"}
    Other = {"v6"}
    Lists <- MCLists
    Unnamed = "unnamed"
    NoEntry = "none"
SYMMETRY MCWorkerSymmetry
INVARIANT TypeOK
INVARIANT AddressOfItsName
INVARIANT FirstAnswerStays
CHECK_DEADLOCK FALSE
