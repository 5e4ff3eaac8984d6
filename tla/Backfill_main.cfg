\* Directories of up to four of the entries, files of up to one line, a
\* .gz that may be corrupt, both values of skip_latest_log (main and
\* playtime.cpp).
CONSTANTS
    Entries <- MCEntries
    BadDates = {3}
    MaxDir = 4
    MaxLines = 1
    None = None
SPECIFICATION Spec
INVARIANT TypeOK
INVARIANT ReadsAsSpecified
