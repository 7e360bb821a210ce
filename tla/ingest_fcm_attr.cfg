\* IngestManager as it is in src/: nothing sets manager.fcm.
CONSTANTS
    Retries = 1
    Errors <- MCRefusedOrTimeout
    MaxCount = 2
    Names <- MCIngestNames
    MaxServices = 2
    ConfigArgs <- MCAllArgs
    BackgroundAdd = FALSE
    Launchers <- MCShipped
    MonitorDaemon = TRUE
SPECIFICATION IngestSpec
PROPERTIES ServedWhenReachable
