SPECIFICATION FairSpec
CONSTANTS
    UploadWaits = {u1}
    DownloadWaits = {}
    ResyncMode = "Manual"
    CancelWaitsOnNonfatalError = TRUE
    Policies = {"AfterChangesUploaded"}
    MaxCommits = 1
    MaxErrors = 0
    MaxDeaths = 2
    MaxStaleWaits = 1
    MaxIncidents = 2
PROPERTIES WaitsEnd DyingEnds
