\* Two players and two uuids over three ticks of live latest.log lines, and
\* two /graph invocations; the graph of a player online before their first
\* session ever closed.
CONSTANTS
    n1 = n1
    n2 = n2
    g1 = g1
    g2 = g2
    Names <- MCNames
    Uuids = {1, 2}
    MaxNow = 2
    MaxLines = 5
    None = None
    Invocations = {g1, g2}
    Window = 2
SYMMETRY NameSymmetry
SPECIFICATION Spec
INVARIANT GraphCreditsOnline
