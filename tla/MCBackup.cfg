SPECIFICATION FairBackupSpec
CONSTANTS
    Runs = {cron, byHand, nextDay}
    None = None
INVARIANT TarUnderOwnSnapshot
PROPERTY SnapshotReleased
CHECK_DEADLOCK FALSE
