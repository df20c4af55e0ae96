CONSTANTS
    Byte = {r, n, x}
    CR = r
    LF = n
    Junk = Junk
    InitSize = 2
    Delta = 2
    MaxSize = 6
    MaxWrite = 3
SPECIFICATION LinesSpec
INVARIANTS FindsLine
PROPERTIES WritesInBlock IsByteQueue
