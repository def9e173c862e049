SPECIFICATION SigSpec
CONSTANTS
    P = 29
    L = 5
    D = 27
    BaseY = 23
    SignBit = 32
    Digests = {1, 5, 8}
INVARIANTS
    PythonExact
CHECK_DEADLOCK FALSE
