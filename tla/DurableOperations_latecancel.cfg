\* An export and a cancel request that read its row too early.
CONSTANTS
    r1 = r1
    r2 = r2
    p1 = p1
    p2 = p2
    exportJob = exportJob
    restoreJob = restoreJob
    images = images
    template = template
    staging = staging
    environment = environment
    Requests = {r1, r2}
    Pulls = {p1}
    Jobs = {exportJob}
    CancellableJobs = {exportJob}
    Resources <- MCResources
    DockerImages = images
    Needs <- MCNeeds
    NoOp = NoOp
    NoOne = NoOne
    Lost = Lost
    DbMayFail = FALSE
    ClientMayVanish = FALSE
    MaxOperations = 2
    MaxCrashes = 0
SPECIFICATION Spec
PROPERTIES
    TerminalIsFinal
