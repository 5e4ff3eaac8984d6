\* main() starts while latest.log already holds a line.
CONSTANTS
    latest_log = latest_log
    archive_log = archive_log
    other_log = other_log
    Target = latest_log
    Archive = archive_log
    Other = other_log
    FileNames <- MCFileNames
    TargetPrefixed <- MCTargetPrefixed
    LogNames <- MCLogNames
    BufEvents = 2
    None = None
    MaxWrites = 3
    MaxRotations = 2
    MaxDay = 0
    InitialLines = 1
    Anomalies = {}
    MaxAnomalies = 0
    DrainedRotation = TRUE
SPECIFICATION Spec
INVARIANT NoLineTwice
