SPECIFICATION Spec
CONSTANTS
    UploadWaits = {u1}
    DownloadWaits = {}
    ResyncMode = "Recover"
    CancelWaitsOnNonfatalError = TRUE
    Policies = {"Immediately", "LiveIndefinitely", "AfterChangesUploaded"}
    MaxCommits = 1
    MaxErrors = 1
    MaxDeaths = 2
    MaxStaleWaits = 1
    MaxIncidents = 3
INVARIANTS TypeOK SessionMatchesState QueuedWaitsAreRegistered CommitsAreAnnounced ResyncIsTransparent
PROPERTIES MovesAlongArrows WaitsAreNotDropped DyingUploadsFirst
