\* Two of a pull, an export and a restore of one template, two requests at a time,
\* one crash; every row is written, no connection closes, and what is ready runs.
CONSTANTS
    r1 = r1
    r2 = r2
    p1 = p1
    p2 = p2
    exportJob = exportJob
    restoreJob = restoreJob
    images = images
    template = template
    staging = staging
    environment = environment
    Requests = {r1, r2}
    Pulls = {p1}
    Jobs = {exportJob, restoreJob}
    CancellableJobs = {exportJob}
    Resources <- MCResources
    DockerImages = images
    Needs <- MCNeeds
    NoOp = NoOp
    NoOne = NoOne
    Lost = Lost
    DbMayFail = FALSE
    ClientMayVanish = FALSE
    MaxOperations = 2
    MaxCrashes = 1
SPECIFICATION FairSpec
INVARIANTS
    NoOrphanReservation
    NoStaleChannel
    UnfinishedIsWorkedOn
PROPERTIES
    HandlersReturn
    ImagesAreFreed
    WorkSettles
