\* Truncation and replacement of latest.log on a single day, with the
\* driver lagging behind the writer.
CONSTANTS
    latest_log = latest_log
    archive_log = archive_log
    other_log = other_log
    Target = latest_log
    Archive = archive_log
    Other = other_log
    FileNames <- MCFileNames
    TargetPrefixed <- MCTargetPrefixed
    LogNames <- MCLogNames
    BufEvents = 2
    None = None
    MaxWrites = 3
    MaxRotations = 2
    MaxDay = 0
    InitialLines = 0
    Anomalies = {"truncate", "replace"}
    MaxAnomalies = 1
    DrainedRotation = TRUE
SPECIFICATION Spec
INVARIANT NoLineTwice
PROPERTY TruncationRecovers
