SPECIFICATION Spec
CONSTANTS
    UploadWaits = {u1, u2}
    DownloadWaits = {}
    ResyncMode = "Manual"
    CancelWaitsOnNonfatalError = TRUE
    Policies = {"AfterChangesUploaded"}
    MaxCommits = 1
    MaxErrors = 0
    MaxDeaths = 1
    MaxStaleWaits = 1
    MaxIncidents = 9
INVARIANTS UploadWaitsMeanUploaded
