\* Appends, midnight, two restarts with their renames and creates, and the
\* driver failing to poll; the server renames latest.log only once the
\* driver has handled its events.  Checked for safety and for eventual
\* catching up.
CONSTANTS
    latest_log = latest_log
    archive_log = archive_log
    other_log = other_log
    Target = latest_log
    Archive = archive_log
    Other = other_log
    FileNames <- MCFileNames
    TargetPrefixed <- MCTargetPrefixed
    LogNames <- MCLogNames
    BufEvents = 2
    None = None
    MaxWrites = 4
    MaxRotations = 2
    MaxDay = 1
    InitialLines = 0
    Anomalies = {}
    MaxAnomalies = 0
    DrainedRotation = TRUE
SPECIFICATION Spec
INVARIANT TypeOK
PROPERTY IngestSpec
INVARIANT CaughtUp
INVARIANT BaselineIsFileDay
