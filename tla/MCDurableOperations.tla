------------------------ MODULE MCDurableOperations ------------------------
(* Instances of DurableOperations: one pull or two, an export and a        *)
(* restore of one template, two requests at a time.                        *)
EXTENDS ReservationRefinement, TLC

CONSTANTS r1, r2, p1, p2, exportJob, restoreJob, images, template, staging, environment

MCNeeds ==
    [o \in Ops |->
        CASE o \in Pulls    -> {images}
          [] o = exportJob  -> {images, template, staging}
          [] o = restoreJob -> {template, environment}]

MCResources == {images, template, staging, environment}

PullSymmetry == Permutations(Pulls)
RequestSymmetry == Permutations(Requests)
MCSymmetry == PullSymmetry \cup RequestSymmetry
=============================================================================
