\* With an IngestMonitor that is not a daemon thread.
CONSTANTS
    Retries = 1
    Errors <- MCRefusedOrTimeout
    MaxCount = 2
    Names <- MCIngestNames
    MaxServices = 2
    ConfigArgs <- MCAllArgs
    BackgroundAdd = FALSE
    Launchers <- MCAnyLauncher
    MonitorDaemon = FALSE
SPECIFICATION IngestSpec
INVARIANTS NoPartialSuccess
