\* IngestManager under a launcher that may or may not set manager.fcm, a
\* budget of one retry, refused or timed-out connects, every argv shape.
CONSTANTS
    Retries = 1
    Errors <- MCRefusedOrTimeout
    MaxCount = 2
    Names <- MCIngestNames
    MaxServices = 2
    ConfigArgs <- MCAllArgs
    BackgroundAdd = FALSE
    Launchers <- MCAnyLauncher
    MonitorDaemon = TRUE
SPECIFICATION IngestSpec
INVARIANTS RunningMeansSubscribed ConfiguredBeforeActive
PROPERTIES ServedIfAlwaysUp StartupCompletes
