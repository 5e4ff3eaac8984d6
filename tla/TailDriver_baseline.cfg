\* latest.log is truncated on a later day than the last rename.
CONSTANTS
    latest_log = latest_log
    archive_log = archive_log
    other_log = other_log
    Target = latest_log
    Archive = archive_log
    Other = other_log
    FileNames <- MCFileNames
    TargetPrefixed <- MCTargetPrefixed
    LogNames <- MCLogNames
    BufEvents = 2
    None = None
    MaxWrites = 3
    MaxRotations = 2
    MaxDay = 1
    InitialLines = 0
    Anomalies = {"truncate"}
    MaxAnomalies = 1
    DrainedRotation = TRUE
SPECIFICATION Spec
INVARIANT BaselineIsFileDay
