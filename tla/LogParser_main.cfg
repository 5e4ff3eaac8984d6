\* Both callers of parse_logs: main (archives by parse_logs<true,true>, then
\* latest.log by parse_lines) and the batch report (parse_logs<false,false>
\* with the final flush), with logs_timezone equal to UTC.
CONSTANTS
    n1 = n1
    n2 = n2
    Names <- MCNames
    Uuids = {1, 2}
    DayLen = 2
    Zone = 0
    MaxNow = 3
    MaxLines = 5
    Modes = {"main", "batch"}
    None = None
SYMMETRY NameSymmetry
SPECIFICATION Spec
INVARIANT TypeOK
INVARIANT TotalIsSum
INVARIANT SessionsNonNegative
INVARIANT SessionsBoundedByJoins
