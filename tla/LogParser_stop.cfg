\* A "Stopping server" line after a player joined without a UUID message.
CONSTANTS
    n1 = n1
    n2 = n2
    Names <- MCNames
    Uuids = {1, 2}
    DayLen = 2
    Zone = 0
    MaxNow = 3
    MaxLines = 4
    Modes = {"main"}
    None = None
SYMMETRY NameSymmetry
SPECIFICATION Spec
PROPERTY StopFlushesEveryone
