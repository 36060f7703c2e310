\* Any two of two pulls, an export and a restore of one template, two requests at
\* a time, one crash; rows may fail to be written and connections may close.
CONSTANTS
    r1 = r1
    r2 = r2
    p1 = p1
    p2 = p2
    exportJob = exportJob
    restoreJob = restoreJob
    images = images
    template = template
    staging = staging
    environment = environment
    Requests = {r1, r2}
    Pulls = {p1, p2}
    Jobs = {exportJob, restoreJob}
    CancellableJobs = {exportJob}
    Resources <- MCResources
    DockerImages = images
    Needs <- MCNeeds
    NoOp = NoOp
    NoOne = NoOne
    Lost = Lost
    DbMayFail = TRUE
    ClientMayVanish = TRUE
    MaxOperations = 2
    MaxCrashes = 1
SPECIFICATION Spec
SYMMETRY MCSymmetry
INVARIANTS
    TypeOK
    Exclusion
    RunningIsCancellable
    TerminalMeansDone
    CancelledAfterCleanup
PROPERTIES
    ReopenedOnlyByLateCancel
    ReservationsAreExclusive
