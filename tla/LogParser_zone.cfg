\* main with logs_timezone one tick east of UTC: archive baselines are read
\* as UTC midnight, latest.log baselines as local midnight.
CONSTANTS
    n1 = n1
    n2 = n2
    Names <- MCNames
    Uuids = {1, 2}
    DayLen = 2
    Zone = 1
    MaxNow = 3
    MaxLines = 4
    Modes = {"main"}
    None = None
SYMMETRY NameSymmetry
SPECIFICATION Spec
INVARIANT SessionsNonNegative
