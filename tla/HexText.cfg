SPECIFICATION Spec
CONSTANTS
    Samples = {0, 10, 120, 48, 92, 255}
    MaxBytes = 3
    Room = 2
INVARIANTS
    EscapesMeanBytes
    PairsMeanBytes
    PrintedIsRead
