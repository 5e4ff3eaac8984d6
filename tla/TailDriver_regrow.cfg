\* latest.log is truncated once, on a single day; the server restarts only
\* after the driver handled its events.  A truncation followed by a write
\* before the next poll leaves the file no smaller than prev_size.
CONSTANTS
    latest_log = latest_log
    archive_log = archive_log
    other_log = other_log
    Target = latest_log
    Archive = archive_log
    Other = other_log
    FileNames <- MCFileNames
    TargetPrefixed <- MCTargetPrefixed
    LogNames <- MCLogNames
    BufEvents = 2
    None = None
    MaxWrites = 3
    MaxRotations = 1
    MaxDay = 0
    InitialLines = 0
    Anomalies = {"truncate"}
    MaxAnomalies = 1
    DrainedRotation = TRUE
SPECIFICATION Spec
INVARIANT CaughtUp
