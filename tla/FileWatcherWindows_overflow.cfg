\* latest.log and an archive, three changes, and a request buffer that
\* holds one entry, so that two recorded changes overflow it.
CONSTANTS
    latest_log = latest_log
    archive_log = archive_log
    Target = latest_log
    FileNames <- MCFileNames
    BufEntries = 1
    MaxChanges = 3
    None = None
SPECIFICATION Spec
INVARIANT ReportsAreFresh
