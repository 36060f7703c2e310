------------------------- MODULE DurableOperations -------------------------
(***************************************************************************)
(* The durable operations of the webtop-manager controller: rows of the    *)
(* SQLite table `operations`, the detached tokio tasks that work on them,  *)
(* the HTTP handlers that start and cancel them, and the three in-memory   *)
(* tables they share (AppState):                                           *)
(*                                                                         *)
(*   active_resources         the set of names reserved by somebody,       *)
(*   pull_cancellations       the cancel channels of image pulls,          *)
(*   operation_cancellations  the cancel channels of every cancellable     *)
(*                            operation.                                   *)
(*                                                                         *)
(* A handler is a future that is suspended at every await; `at[r]` is the  *)
(* await it is suspended at.  A task is a tokio::spawn'ed job; `task[o]`   *)
(* is its stage.  A crash loses everything but the rows and the partial    *)
(* files; the controller then boots through the steps of main().           *)
(***************************************************************************)
EXTENDS Naturals, FiniteSets

CONSTANTS
    Requests,        \* HTTP requests in flight at the same time
    Pulls,           \* pull ids, chosen by the desktop
    Jobs,            \* template operations, ids chosen by the controller
    CancellableJobs, \* the exports and imports among Jobs
    Resources,       \* names that can be reserved
    DockerImages,    \* the name "docker-images"
    Needs,           \* Needs[o]: the names operation o reserves
    NoOp,            \* a handler that works on no operation
    NoOne,           \* the pull_cancellations mutex is free
    DbMayFail,       \* may a write of a row fail?
    ClientMayVanish, \* may a connection close while its handler is running?
    MaxOperations,   \* bound on the operations that are begun
    MaxCrashes       \* bound on the crashes explored

Ops == Pulls \cup Jobs

ASSUME ConstantsAssumption ==
    /\ Pulls \cap Jobs = {}
    /\ CancellableJobs \subseteq Jobs
    /\ DockerImages \in Resources
    /\ Needs \in [Ops -> SUBSET Resources]
    /\ \A p \in Pulls : Needs[p] = {DockerImages}
    /\ \A j \in Jobs : Needs[j] # {}
    /\ NoOp \notin Ops
    /\ NoOne \notin Requests
    /\ DbMayFail \in BOOLEAN
    /\ ClientMayVanish \in BOOLEAN
    /\ MaxOperations \in Nat
    /\ MaxCrashes \in Nat

VARIABLES
    phase,       \* the durable rows: operation -> phase, "none" if no row
    active,      \* active_resources
    pullSenders, \* keys of pull_cancellations
    opSenders,   \* keys of operation_cancellations
    signalled,   \* operations whose watch channel holds `true`
    pullGuard,   \* the request that holds the pull_cancellations mutex
    at,          \* the await each request is suspended at
    on,          \* the operation each request works on
    task,        \* the stage of each operation's task
    outcome,     \* what the body returned, until the row is written
    residue,     \* a job's intermediate artifacts: "none", "made", or "stuck"
                 \*   if removing them was tried and failed
    boot,        \* where main() is
    todo,        \* rows main() still has to recover or to resume
    crashes      \* crashes so far (bounds the exploration)

rows     == phase
tables   == <<active, pullSenders, opSenders, signalled, pullGuard>>
handlers == <<at, on>>
tasks    == <<task, outcome, residue>>
lifetime == <<boot, todo, crashes>>
vars     == <<rows, tables, handlers, tasks, lifetime>>

-----------------------------------------------------------------------------
(* Vocabulary *)

Terminal == {"succeeded", "failed", "cancelled", "retryable"}
Phase    == Terminal \cup {"queued", "running", "verifying", "rollingBack"}

PullStages   == {"pullReserve", "pullLink", "pullOpLink", "pullInsert",
                 "undoPull", "undoOp", "undoReserve"}
JobStages    == {"jobCheck", "jobReserve", "jobInsert", "jobLink"}
ImageStages  == {"imageGuard", "imageDocker", "imageRelease"}
CancelPullStages == {"cancelPullSignal", "cancelPullSend", "cancelPullWrite"}
CancelOpStages   == {"cancelOpSignal", "cancelOpWrite"}
HandlerStage == {"idle"} \cup PullStages \cup JobStages
                    \cup ImageStages \cup CancelPullStages \cup CancelOpStages

Working   == {"spawned", "body"}
TaskStage == {"none", "drain", "cleanup", "finish", "unlinkPull", "unlinkOp",
              "release"} \cup Working
Outcome   == {"pending", "succeeded", "failed", "cancelled"}

Cancellable == Pulls \cup CancellableJobs

(* What a handler and what a task has reserved and not yet released. *)
HoldsImages == (PullStages \ {"pullReserve"}) \cup ImageStages
RequestHolds(r) ==
    IF at[r] \in HoldsImages THEN {DockerImages}
    ELSE IF at[r] \in {"jobInsert", "jobLink"} THEN Needs[on[r]]
    ELSE {}
TaskHolds(o) == IF task[o] = "none" THEN {} ELSE Needs[o]

(* The receiver end of the cancel channel: owned by the pull handler until *)
(* it spawns the task, then by the body of the task.                       *)
ReceiverAlive(o) ==
    \/ task[o] \in Working
    \/ \E r \in Requests :
          on[r] = o /\ at[r] \in {"pullInsert", "undoPull", "undoOp"}

Serving == boot = "serving"

Begun == {o \in Ops :
    phase[o] # "none" \/ \E r \in Requests : on[r] = o /\ at[r] \in PullStages \cup JobStages}
MayBegin(o) == o \in Begun \/ Cardinality(Begun) < MaxOperations

Goto(r, stage) == at' = [at EXCEPT ![r] = stage] /\ UNCHANGED on
Return(r) == at' = [at EXCEPT ![r] = "idle"] /\ on' = [on EXCEPT ![r] = NoOp]
Begin(r, stage, o) ==
    /\ Serving
    /\ at[r] = "idle"
    /\ at' = [at EXCEPT ![r] = stage]
    /\ on' = [on EXCEPT ![r] = o]

(* update_operation: an unconditional UPDATE of the row.  Most callers     *)
(* ignore its error.                                                       *)
UpdateOperation(o, new) == phase' = [phase EXCEPT ![o] = new]
TryUpdateOperation(o, new) ==
    UpdateOperation(o, new) \/ (DbMayFail /\ UNCHANGED phase)

(* tokio::spawn of the job of operation o.  A pull first writes its row; a *)
(* template job may end before it writes any.                              *)
Spawn(o) ==
    /\ task' = [task EXCEPT ![o] = IF o \in Pulls THEN "spawned" ELSE "body"]
    /\ outcome' = [outcome EXCEPT ![o] = "pending"]
    /\ UNCHANGED residue

-----------------------------------------------------------------------------
(* POST /v1/images/pull *)

\* The row exists already: the caller is given a stream that polls it.
PullReattach(r, p) ==
    /\ Serving
    /\ at[r] = "idle"
    /\ phase[p] # "none"
    /\ UNCHANGED vars

PullLookup(r, p) ==
    /\ phase[p] = "none"
    /\ MayBegin(p)
    /\ Begin(r, "pullReserve", p)
    /\ UNCHANGED <<rows, tables, tasks, lifetime>>

\* Mutant: a refused request gives the name back all the same.
PullReserveReleasesOnBusy(r) ==
    /\ at[r] = "pullReserve"
    /\ \/ /\ DockerImages \in active
          /\ active' = active \ {DockerImages}
          /\ Return(r)
       \/ /\ DockerImages \notin active
          /\ active' = active \cup {DockerImages}
          /\ Goto(r, "pullLink")
    /\ UNCHANGED <<rows, pullSenders, opSenders, signalled, pullGuard, tasks,
                   lifetime>>

PullReserve(r) ==
    /\ at[r] = "pullReserve"
    /\ \/ /\ DockerImages \in active
          /\ Return(r)
          /\ UNCHANGED active
       \/ /\ DockerImages \notin active
          /\ active' = active \cup {DockerImages}
          /\ Goto(r, "pullLink")
    /\ UNCHANGED <<rows, pullSenders, opSenders, signalled, pullGuard, tasks,
                   lifetime>>

PullLink(r) ==
    /\ at[r] = "pullLink"
    /\ pullGuard = NoOne
    /\ \/ /\ on[r] \in pullSenders
          /\ active' = active \ {DockerImages}
          /\ Return(r)
          /\ UNCHANGED <<pullSenders, signalled>>
       \/ /\ on[r] \notin pullSenders
          /\ pullSenders' = pullSenders \cup {on[r]}
          /\ signalled' = signalled \ {on[r]}
          /\ Goto(r, "pullOpLink")
          /\ UNCHANGED active
    /\ UNCHANGED <<rows, opSenders, pullGuard, tasks, lifetime>>

PullOpLink(r) ==
    /\ at[r] = "pullOpLink"
    /\ opSenders' = opSenders \cup {on[r]}
    /\ Goto(r, "pullInsert")
    /\ UNCHANGED <<rows, active, pullSenders, signalled, pullGuard, tasks,
                   lifetime>>

\* INSERT of the row and, in the same poll, the spawn of the job.  A second
\* row with the same id is refused by the primary key.
PullInsert(r) ==
    /\ at[r] = "pullInsert"
    /\ \/ /\ phase[on[r]] = "none"
          /\ UpdateOperation(on[r], "queued")
          /\ Spawn(on[r])
          /\ Return(r)
       \/ /\ phase[on[r]] # "none" \/ DbMayFail
          /\ Goto(r, "undoPull")
          /\ UNCHANGED <<rows, tasks>>
    /\ UNCHANGED <<tables, lifetime>>

PullUndoPullLink(r) ==
    /\ at[r] = "undoPull"
    /\ pullGuard = NoOne
    /\ pullSenders' = pullSenders \ {on[r]}
    /\ Goto(r, "undoOp")
    /\ UNCHANGED <<rows, active, opSenders, signalled, pullGuard, tasks,
                   lifetime>>

\* Mutant: the undo forgets operation_cancellations.
PullUndoOpLinkForgotten(r) ==
    /\ at[r] = "undoOp"
    /\ Goto(r, "undoReserve")
    /\ UNCHANGED <<rows, tables, tasks, lifetime>>

PullUndoOpLink(r) ==
    /\ at[r] = "undoOp"
    /\ opSenders' = opSenders \ {on[r]}
    /\ signalled' = signalled \ {on[r]}
    /\ Goto(r, "undoReserve")
    /\ UNCHANGED <<rows, active, pullSenders, pullGuard, tasks, lifetime>>

PullUndoReserve(r) ==
    /\ at[r] = "undoReserve"
    /\ active' = active \ {DockerImages}
    /\ Return(r)
    /\ UNCHANGED <<rows, pullSenders, opSenders, signalled, pullGuard, tasks,
                   lifetime>>

-----------------------------------------------------------------------------
(* POST of a template operation: create, restore, check, delete, export,   *)
(* import.  They differ in what they reserve and in being cancellable.     *)

\* The id is a fresh UUID, so nobody else works on j.
JobRequest(r, j) ==
    /\ phase[j] = "none"
    /\ \A q \in Requests : on[q] # j
    /\ MayBegin(j)
    /\ Begin(r, "jobCheck", j)
    /\ UNCHANGED <<rows, tables, tasks, lifetime>>

\* reserve_resources, first half: refuse while a pull is registered.
JobCheck(r) ==
    /\ at[r] = "jobCheck"
    /\ \/ /\ DockerImages \in Needs[on[r]]
          /\ pullGuard = NoOne
          /\ pullSenders # {}
          /\ Return(r)
       \/ /\ DockerImages \in Needs[on[r]]
          /\ pullGuard = NoOne
          /\ pullSenders = {}
          /\ Goto(r, "jobReserve")
       \/ /\ DockerImages \notin Needs[on[r]]
          /\ Goto(r, "jobReserve")
    /\ UNCHANGED <<rows, tables, tasks, lifetime>>

\* Mutant: `all` for `any` in the check of the names.
JobReserveUnlessAllTaken(r) ==
    /\ at[r] = "jobReserve"
    /\ \/ /\ Needs[on[r]] \subseteq active
          /\ Return(r)
          /\ UNCHANGED active
       \/ /\ ~(Needs[on[r]] \subseteq active)
          /\ active' = active \cup Needs[on[r]]
          /\ Goto(r, "jobInsert")
    /\ UNCHANGED <<rows, pullSenders, opSenders, signalled, pullGuard, tasks,
                   lifetime>>

\* reserve_resources, second half, under the lock of active_resources.
JobReserve(r) ==
    /\ at[r] = "jobReserve"
    /\ \/ /\ Needs[on[r]] \cap active # {}
          /\ Return(r)
          /\ UNCHANGED active
       \/ /\ Needs[on[r]] \cap active = {}
          /\ active' = active \cup Needs[on[r]]
          /\ Goto(r, "jobInsert")
    /\ UNCHANGED <<rows, pullSenders, opSenders, signalled, pullGuard, tasks,
                   lifetime>>

\* Mutant: the job is spawned before its sender is in the table.
JobInsertSpawnsFirst(r) ==
    /\ at[r] = "jobInsert"
    /\ UpdateOperation(on[r], "queued")
    /\ Spawn(on[r])
    /\ IF on[r] \in CancellableJobs THEN Goto(r, "jobLink") ELSE Return(r)
    /\ UNCHANGED <<tables, lifetime>>

\* When the INSERT fails the handler returns the error at once (`?`): what it
\* reserved stays reserved.
JobInsert(r) ==
    /\ at[r] = "jobInsert"
    /\ \/ /\ UpdateOperation(on[r], "queued")
          /\ \/ /\ on[r] \in CancellableJobs
                /\ Goto(r, "jobLink")
                /\ UNCHANGED tasks
             \/ /\ on[r] \notin CancellableJobs
                /\ Spawn(on[r])
                /\ Return(r)
       \/ /\ DbMayFail
          /\ Return(r)
          /\ UNCHANGED <<rows, tasks>>
    /\ UNCHANGED <<tables, lifetime>>

JobLink(r) ==
    /\ at[r] = "jobLink"
    /\ opSenders' = opSenders \cup {on[r]}
    /\ Spawn(on[r])
    /\ Return(r)
    /\ UNCHANGED <<rows, active, pullSenders, signalled, pullGuard, lifetime>>

-----------------------------------------------------------------------------
(* POST /v1/images/prune and DELETE of an official image.  Both keep the   *)
(* pull_cancellations mutex while Docker works.                            *)

ImageReserve(r) ==
    /\ Serving
    /\ at[r] = "idle"
    /\ \/ /\ DockerImages \in active
          /\ UNCHANGED <<active, handlers>>
       \/ /\ DockerImages \notin active
          /\ active' = active \cup {DockerImages}
          /\ Goto(r, "imageGuard")
    /\ UNCHANGED <<rows, pullSenders, opSenders, signalled, pullGuard, tasks,
                   lifetime>>

ImageGuard(r) ==
    /\ at[r] = "imageGuard"
    /\ pullGuard = NoOne
    /\ \/ /\ pullSenders # {}
          /\ active' = active \ {DockerImages}
          /\ Return(r)
          /\ UNCHANGED pullGuard
       \/ /\ pullSenders = {}
          /\ pullGuard' = r
          /\ Goto(r, "imageDocker")
          /\ UNCHANGED active
    /\ UNCHANGED <<rows, pullSenders, opSenders, signalled, tasks, lifetime>>

\* Mutant: the early return of an image in use leaves the name reserved.
ImageDockerEarlyReturnLeaks(r) ==
    /\ at[r] = "imageDocker"
    /\ pullGuard' = NoOne
    /\ Goto(r, "imageRelease") \/ Return(r)
    /\ UNCHANGED <<rows, active, pullSenders, opSenders, signalled, tasks,
                   lifetime>>

\* Docker has answered.  Deleting an image that is in use, or whose use
\* cannot be told, ends here; the guard falls when the handler returns.
ImageDocker(r) ==
    /\ at[r] = "imageDocker"
    /\ pullGuard' = NoOne
    /\ \/ /\ Goto(r, "imageRelease")
          /\ UNCHANGED active
       \/ /\ active' = active \ {DockerImages}
          /\ Return(r)
    /\ UNCHANGED <<rows, pullSenders, opSenders, signalled, tasks, lifetime>>

ImageRelease(r) ==
    /\ at[r] = "imageRelease"
    /\ active' = active \ {DockerImages}
    /\ Return(r)
    /\ UNCHANGED <<rows, pullSenders, opSenders, signalled, pullGuard, tasks,
                   lifetime>>

-----------------------------------------------------------------------------
(* DELETE /v1/images/pull/{id} and DELETE /v1/operations/{id} *)

\* The phase is read here and acted on two awaits later.
CancelPullRead(r, p) ==
    /\ phase[p] \notin Terminal
    /\ Begin(r, IF phase[p] = "none" THEN "cancelPullSend"
                                     ELSE "cancelPullSignal", p)
    /\ UNCHANGED <<rows, tables, tasks, lifetime>>

\* A terminal row, or one that is not cancellable: nothing is done.
CancelRefused(r, o) ==
    /\ Serving
    /\ at[r] = "idle"
    /\ phase[o] \in Terminal \/ o \notin Cancellable
    /\ UNCHANGED vars

\* The mutex is kept until the row is written: the guard is a temporary of
\* the `if let`.
CancelPullSignal(r) ==
    /\ at[r] \in {"cancelPullSignal", "cancelPullSend"}
    /\ pullGuard = NoOne
    /\ \/ /\ on[r] \notin pullSenders
          /\ Return(r)
          /\ UNCHANGED <<signalled, pullGuard>>
       \/ /\ on[r] \in pullSenders
          /\ signalled' = signalled \cup {on[r]}
          /\ \/ /\ at[r] = "cancelPullSend"
                /\ Return(r)
                /\ UNCHANGED pullGuard
             \/ /\ at[r] = "cancelPullSignal"
                /\ Goto(r, "cancelPullWrite")
                /\ pullGuard' = r
    /\ UNCHANGED <<rows, active, pullSenders, opSenders, tasks, lifetime>>

\* Mutant: the guard outlives the handler.
CancelPullWriteKeepsGuard(r) ==
    /\ at[r] = "cancelPullWrite"
    /\ TryUpdateOperation(on[r], "rollingBack")
    /\ Return(r)
    /\ UNCHANGED <<tables, tasks, lifetime>>

CancelPullWrite(r) ==
    /\ at[r] = "cancelPullWrite"
    /\ TryUpdateOperation(on[r], "rollingBack")
    /\ pullGuard' = NoOne
    /\ Return(r)
    /\ UNCHANGED <<active, pullSenders, opSenders, signalled, tasks, lifetime>>

CancelOpRead(r, o) ==
    /\ o \in Cancellable
    /\ phase[o] \notin Terminal \cup {"none"}
    /\ Begin(r, "cancelOpSignal", o)
    /\ UNCHANGED <<rows, tables, tasks, lifetime>>

CancelOpSignal(r) ==
    /\ at[r] = "cancelOpSignal"
    /\ \/ /\ on[r] \notin opSenders \/ ~ReceiverAlive(on[r])
          /\ Return(r)
          /\ UNCHANGED signalled
       \/ /\ on[r] \in opSenders
          /\ ReceiverAlive(on[r])
          /\ signalled' = signalled \cup {on[r]}
          /\ Goto(r, "cancelOpWrite")
    /\ UNCHANGED <<rows, active, pullSenders, opSenders, pullGuard, tasks,
                   lifetime>>

CancelOpWrite(r) ==
    /\ at[r] = "cancelOpWrite"
    /\ TryUpdateOperation(on[r], "rollingBack")
    /\ Return(r)
    /\ UNCHANGED <<tables, tasks, lifetime>>

-----------------------------------------------------------------------------
(* The connection of a handler closes: hyper drops the future at the await *)
(* it is suspended at, and with it the mutex guard.  A statement already   *)
(* handed to SQLite may or may not be executed.                            *)

StatementOf(r) ==
    CASE at[r] \in {"pullInsert", "jobInsert"} /\ phase[on[r]] = "none" ->
              [phase EXCEPT ![on[r]] = "queued"]
      [] at[r] \in {"cancelPullWrite", "cancelOpWrite"} ->
              [phase EXCEPT ![on[r]] = "rollingBack"]
      [] OTHER -> phase

Vanish(r) ==
    /\ ClientMayVanish
    /\ at[r] # "idle"
    /\ phase' \in {phase, StatementOf(r)}
    /\ pullGuard' = IF pullGuard = r THEN NoOne ELSE pullGuard
    /\ Return(r)
    /\ UNCHANGED <<active, pullSenders, opSenders, signalled, tasks, lifetime>>

-----------------------------------------------------------------------------
(* The tasks *)

Advance(o, from, to) ==
    /\ task[o] = from
    /\ task' = [task EXCEPT ![o] = to]

PullBegin(p) ==
    /\ Advance(p, "spawned", "body")
    /\ TryUpdateOperation(p, "running")
    /\ UNCHANGED <<tables, handlers, outcome, residue, lifetime>>

\* Mutant: the task that drains the progress channel is not awaited.
PullProgressDetached(p) ==
    /\ task[p] \in {"body", "drain", "finish", "unlinkPull"}
    /\ UpdateOperation(p, "running")
    /\ UNCHANGED <<tables, handlers, tasks, lifetime>>

\* The progress of a pull is written by a second task that drains the event
\* channel, so it may still be written after the body has returned.
PullProgress(p) ==
    /\ task[p] \in {"body", "drain"}
    /\ UpdateOperation(p, "running")
    /\ UNCHANGED <<tables, handlers, tasks, lifetime>>

JobProgress(j) ==
    /\ task[j] = "body"
    /\ \E new \in {"running", "verifying"} : UpdateOperation(j, new)
    /\ UNCHANGED <<tables, handlers, tasks, lifetime>>

\* A job leaves intermediate artifacts from its first file or tag on.
JobProduces(j) ==
    /\ task[j] = "body"
    /\ j \in CancellableJobs
    /\ residue' = [residue EXCEPT ![j] = "made"]
    /\ UNCHANGED <<rows, tables, handlers, task, outcome, lifetime>>

\* Mutant: what the body returned is dropped.
BodyEndsIgnored(o, result, next) ==
    /\ Advance(o, "body", next)
    /\ result = "cancelled" => o \in signalled
    /\ UNCHANGED outcome

\* The body returns.  It reports a cancellation only when the channel says so.
BodyEnds(o, result, next) ==
    /\ Advance(o, "body", next)
    /\ result = "cancelled" => o \in signalled
    /\ outcome' = [outcome EXCEPT ![o] = result]

\* Mutant: the row is written before the progress task has ended.
PullBodyEndsWritesRow(p) ==
    /\ \E result \in Outcome \ {"pending"} :
          /\ BodyEnds(p, result, "drain")
          /\ TryUpdateOperation(p, result)
    /\ UNCHANGED <<tables, handlers, residue, lifetime>>

PullBodyEnds(p) ==
    /\ \E result \in Outcome \ {"pending"} : BodyEnds(p, result, "drain")
    /\ UNCHANGED <<rows, tables, handlers, residue, lifetime>>

PullDrained(p) ==
    /\ Advance(p, "drain", "finish")
    /\ UNCHANGED <<rows, tables, handlers, outcome, residue, lifetime>>

\* Every error of a removal is ignored (`let _ =`): what cannot be removed stays,
\* and no one tries again before the next start.
RemoveArtifacts(j) ==
    \E left \in {"none", "stuck"} :
        residue' = [residue EXCEPT ![j] = IF @ = "made" THEN left ELSE @]

\* A completed job has published or removed its intermediate artifacts.
JobBodyEnds(j) ==
    /\ \E result \in Outcome \ {"pending"} :
          /\ result = "cancelled" => j \in CancellableJobs
          /\ BodyEnds(j, result, IF result = "succeeded" THEN "finish"
                                                         ELSE "cleanup")
          /\ IF result = "succeeded" THEN RemoveArtifacts(j) ELSE UNCHANGED residue
    /\ UNCHANGED <<rows, tables, handlers, lifetime>>

\* Mutant: the artifacts of a job that did not complete stay.
JobCleanupSkipped(j) ==
    /\ Advance(j, "cleanup", "finish")
    /\ UNCHANGED <<rows, tables, handlers, outcome, residue, lifetime>>

JobCleanup(j) ==
    /\ Advance(j, "cleanup", "finish")
    /\ RemoveArtifacts(j)
    /\ UNCHANGED <<rows, tables, handlers, outcome, lifetime>>

\* Mutant: only a success is written.
TaskFinishOnlySuccess(o) ==
    /\ Advance(o, "finish", IF o \in Pulls THEN "unlinkPull"
                            ELSE IF o \in CancellableJobs THEN "unlinkOp"
                            ELSE "release")
    /\ IF outcome[o] = "succeeded" THEN TryUpdateOperation(o, outcome[o])
                                   ELSE UNCHANGED phase
    /\ outcome' = [outcome EXCEPT ![o] = "pending"]
    /\ UNCHANGED <<tables, handlers, residue, lifetime>>

TaskFinish(o) ==
    /\ Advance(o, "finish", IF o \in Pulls THEN "unlinkPull"
                            ELSE IF o \in CancellableJobs THEN "unlinkOp"
                            ELSE "release")
    /\ TryUpdateOperation(o, outcome[o])
    /\ outcome' = [outcome EXCEPT ![o] = "pending"]
    /\ UNCHANGED <<tables, handlers, residue, lifetime>>

PullUnlink(p) ==
    /\ Advance(p, "unlinkPull", "unlinkOp")
    /\ pullGuard = NoOne
    /\ pullSenders' = pullSenders \ {p}
    /\ UNCHANGED <<rows, active, opSenders, signalled, pullGuard, handlers,
                   outcome, residue, lifetime>>

\* The last sender is dropped and the channel is gone.
OpUnlink(o) ==
    /\ Advance(o, "unlinkOp", "release")
    /\ opSenders' = opSenders \ {o}
    /\ signalled' = signalled \ {o}
    /\ UNCHANGED <<rows, active, pullSenders, pullGuard, handlers, outcome,
                   residue, lifetime>>

\* Mutant: the task ends without giving its names back.
TaskReleaseMissing(o) ==
    /\ Advance(o, "release", "none")
    /\ UNCHANGED <<rows, tables, handlers, outcome, residue, lifetime>>

TaskRelease(o) ==
    /\ Advance(o, "release", "none")
    /\ active' = active \ Needs[o]
    /\ UNCHANGED <<rows, pullSenders, opSenders, signalled, pullGuard,
                   handlers, outcome, residue, lifetime>>

-----------------------------------------------------------------------------
(* Crash of the controller and the steps of main() up to axum::serve *)

Crash ==
    /\ crashes < MaxCrashes
    /\ crashes' = crashes + 1
    /\ active' = {} /\ pullSenders' = {} /\ opSenders' = {}
    /\ signalled' = {} /\ pullGuard' = NoOne
    /\ at' = [r \in Requests |-> "idle"]
    /\ on' = [r \in Requests |-> NoOp]
    /\ task' = [o \in Ops |-> "none"]
    /\ outcome' = [o \in Ops |-> "pending"]
    /\ boot' = "recover"
    /\ todo' = {o \in Ops : phase[o] \notin Terminal \cup {"none"}}
    /\ UNCHANGED <<rows, residue>>

\* Mutant: only the pulls are looked for.
RecoverRowOfPull(o) ==
    /\ boot = "recover"
    /\ o \in todo
    /\ phase[o] # "queued" \/ o \notin Pulls
    /\ IF o \in Pulls THEN UpdateOperation(o, "queued") ELSE UNCHANGED phase
    /\ todo' = IF o \in Pulls THEN todo ELSE todo \ {o}
    /\ UNCHANGED <<tables, handlers, tasks, boot, crashes>>

\* recover_unfinished_operations, one row: a pull is queued again and stays in
\* the list to resume, anything else becomes retryable.
RecoverRow(o) ==
    /\ boot = "recover"
    /\ o \in todo
    /\ phase[o] # "queued" \/ o \notin Pulls
    /\ UpdateOperation(o, IF o \in Pulls THEN "queued" ELSE "retryable")
    /\ todo' = IF o \in Pulls THEN todo ELSE todo \ {o}
    /\ UNCHANGED <<tables, handlers, tasks, boot, crashes>>

\* Every row is recovered; cleanup_partial_files removes what has a partial
\* name in the two roots.  Artifacts that were renamed or tagged may stay, and
\* so may a file that cannot be removed.
CleanPartialFiles ==
    /\ boot = "recover"
    /\ \A o \in todo : o \in Pulls /\ phase[o] = "queued"
    /\ boot' = "resume"
    /\ \E left \in SUBSET Jobs :
          residue' = [j \in Jobs |-> IF j \in left THEN residue[j] ELSE "none"]
    /\ UNCHANGED <<rows, tables, handlers, task, outcome, todo, crashes>>

\* resume_interrupted_operations, one pull.  An earlier one may be running.
ResumePull(p) ==
    /\ boot = "resume"
    /\ p \in todo
    /\ todo' = todo \ {p}
    /\ \/ /\ DockerImages \in active \/ DbMayFail
          /\ TryUpdateOperation(p, "retryable")
          /\ UNCHANGED <<tables, tasks>>
       \/ /\ DockerImages \notin active
          /\ pullGuard = NoOne
          /\ active' = active \cup {DockerImages}
          /\ pullSenders' = pullSenders \cup {p}
          /\ opSenders' = opSenders \cup {p}
          /\ signalled' = signalled \ {p}
          /\ Spawn(p)
          /\ UNCHANGED <<rows, pullGuard>>
    /\ UNCHANGED <<handlers, boot, crashes>>

Serve ==
    /\ boot = "resume"
    /\ todo = {}
    /\ boot' = "serving"
    /\ UNCHANGED <<rows, tables, handlers, tasks, todo, crashes>>

-----------------------------------------------------------------------------
Init ==
    /\ phase = [o \in Ops |-> "none"]
    /\ active = {} /\ pullSenders = {} /\ opSenders = {}
    /\ signalled = {} /\ pullGuard = NoOne
    /\ at = [r \in Requests |-> "idle"]
    /\ on = [r \in Requests |-> NoOp]
    /\ task = [o \in Ops |-> "none"]
    /\ outcome = [o \in Ops |-> "pending"]
    /\ residue = [j \in Jobs |-> "none"]
    /\ boot = "serving" /\ todo = {} /\ crashes = 0

Arrives(r) ==
    \/ \E p \in Pulls : PullReattach(r, p) \/ PullLookup(r, p)
                          \/ CancelPullRead(r, p)
    \/ \E j \in Jobs : JobRequest(r, j)
    \/ \E o \in Ops : CancelOpRead(r, o) \/ CancelRefused(r, o)
    \/ ImageReserve(r)

Handle(r) ==
    \/ PullReserve(r) \/ PullLink(r) \/ PullOpLink(r) \/ PullInsert(r)
    \/ PullUndoPullLink(r) \/ PullUndoOpLink(r) \/ PullUndoReserve(r)
    \/ JobCheck(r) \/ JobReserve(r) \/ JobInsert(r) \/ JobLink(r)
    \/ ImageGuard(r) \/ ImageDocker(r) \/ ImageRelease(r)
    \/ CancelPullSignal(r) \/ CancelPullWrite(r)
    \/ CancelOpSignal(r) \/ CancelOpWrite(r)

PullWork(p) ==
    \/ PullBegin(p) \/ PullBodyEnds(p) \/ PullDrained(p) \/ PullUnlink(p)
JobWork(j) ==
    \/ JobBodyEnds(j) \/ JobCleanup(j)
TaskWork(o) ==
    \/ TaskFinish(o) \/ OpUnlink(o) \/ TaskRelease(o)

Boot ==
    \/ \E o \in Ops : RecoverRow(o)
    \/ CleanPartialFiles
    \/ \E p \in Pulls : ResumePull(p)
    \/ Serve

Next ==
    \/ \E r \in Requests : Arrives(r) \/ Handle(r) \/ Vanish(r)
    \/ \E p \in Pulls : PullWork(p) \/ PullProgress(p)
    \/ \E j \in Jobs : JobWork(j) \/ JobProgress(j) \/ JobProduces(j)
    \/ \E o \in Ops : TaskWork(o)
    \/ Crash
    \/ Boot

Spec == Init /\ [][Next]_vars

(* tokio polls every ready task and its Mutex hands the lock over in FIFO  *)
(* order, hence strong fairness for the steps that take a mutex.  That the *)
(* body of a job returns assumes that Docker and the worker answer.        *)
Fairness ==
    /\ \A r \in Requests : SF_vars(Handle(r))
    /\ \A p \in Pulls : SF_vars(PullWork(p))
    /\ \A j \in Jobs : WF_vars(JobWork(j))
    /\ \A o \in Ops : WF_vars(TaskWork(o))
    /\ WF_vars(Boot)

FairSpec == Spec /\ Fairness

-----------------------------------------------------------------------------
(* Properties *)

(* Every variable has the type of the Rust field or local it stands for.   *)
TypeOK ==
    /\ phase \in [Ops -> Phase \cup {"none"}]
    /\ active \subseteq Resources
    /\ pullSenders \subseteq Pulls
    /\ opSenders \subseteq Ops
    /\ signalled \subseteq Ops
    /\ pullGuard \in Requests \cup {NoOne}
    /\ at \in [Requests -> HandlerStage]
    /\ on \in [Requests -> Ops \cup {NoOp}]
    /\ \A r \in Requests :
          /\ at[r] \in PullStages \cup CancelPullStages => on[r] \in Pulls
          /\ at[r] \in JobStages => on[r] \in Jobs
          /\ at[r] \in CancelOpStages => on[r] \in Cancellable
    /\ task \in [Ops -> TaskStage]
    /\ outcome \in [Ops -> Outcome]
    /\ \A o \in Ops : task[o] \in {"drain", "cleanup", "finish"} =>
          outcome[o] # "pending"
    /\ residue \in [Jobs -> {"none", "made", "stuck"}]
    /\ boot \in {"recover", "resume", "serving"}
    /\ todo \subseteq Ops
    /\ crashes \in Nat

(* Whatever a handler or a task holds is in active_resources: nobody's     *)
(* release, undo or failed second attempt takes it away from him.          *)
HeldIsReserved ==
    /\ \A r \in Requests : RequestHolds(r) \subseteq active
    /\ \A o \in Ops : TaskHolds(o) \subseteq active

(* A reserved name has one holder: two pulls, a pull and a prune, two jobs *)
(* on one template are never inside their critical part together, over     *)
(* hand-overs from handler to task, undo paths and restarts.               *)
ResourceExclusion ==
    /\ \A r, q \in Requests : r # q => RequestHolds(r) \cap RequestHolds(q) = {}
    /\ \A o, u \in Ops : o # u => TaskHolds(o) \cap TaskHolds(u) = {}
    /\ \A r \in Requests, o \in Ops : RequestHolds(r) \cap TaskHolds(o) = {}

(* Nobody is inside a critical part with a name another one holds, and     *)
(* nobody has lost the reservation he relies on: over hand-overs, undo     *)
(* paths, failing writes, vanishing clients and restarts.                  *)
Exclusion == HeldIsReserved /\ ResourceExclusion

(* Nothing stays reserved without a holder, which would refuse every later *)
(* operation on it until the controller restarts.  It needs rows to be     *)
(* written and connections to stay open.                                   *)
NoOrphanReservation ==
    \A x \in active :
        \/ \E r \in Requests : x \in RequestHolds(r)
        \/ \E o \in Ops : x \in TaskHolds(o)

(* While a cancellable body runs, both cancel endpoints find its channel:  *)
(* no undo of another request and no unlink removed it.                    *)
RunningIsCancellable ==
    \A o \in Cancellable : task[o] \in Working =>
        /\ o \in opSenders
        /\ o \in Pulls => o \in pullSenders

(* A channel in a table belongs to somebody alive; a stale entry in        *)
(* pull_cancellations would refuse every image operation for good.         *)
NoStaleChannel ==
    \A o \in pullSenders \cup opSenders :
        \/ task[o] # "none"
        \/ \E r \in Requests : on[r] = o /\ RequestHolds(r) # {}

(* A row that says the operation is over is never still being worked on,   *)
(* cleaned up or about to be written by its task.                          *)
TerminalMeansDone ==
    \A o \in Ops : phase[o] \in Terminal =>
        task[o] \in {"none", "unlinkPull", "unlinkOp", "release"}

(* `cancelled`, with the words "intermediate artifacts removed", is        *)
(* persisted only after the removal of everything the job made has been    *)
(* tried.  That it has succeeded, as docs/security.md has it, the code     *)
(* does not see to: it ignores the errors of the removal.                  *)
CancelledAfterCleanup ==
    \A j \in Jobs : phase[j] = "cancelled" => residue[j] # "made"

(* While the controller serves, a row that is queued, running or verifying *)
(* has a task, or a handler that is about to spawn it: nobody polls a row  *)
(* that no one will ever finish.                                           *)
UnfinishedIsWorkedOn ==
    Serving => \A o \in Ops : phase[o] \in {"queued", "running", "verifying"} =>
        \/ task[o] # "none"
        \/ \E r \in Requests : on[r] = o /\ at[r] = "jobLink"

(* A terminal row changes only when a cancel request that read it before   *)
(* it was terminal writes rollingBack over it.                             *)
ReopenedOnlyByLateCancel ==
    [][\A o \in Ops : phase[o] \in Terminal /\ phase'[o] # phase[o] =>
          /\ phase'[o] = "rollingBack"
          /\ \E r \in Requests :
                on[r] = o /\ at[r] \in {"cancelPullWrite", "cancelOpWrite"}]_vars

(* docs/v1-status.md promises template operations a "restart-safe terminal *)
(* state": a terminal row of a template operation stays as it is.          *)
TerminalIsFinal ==
    [][\A j \in Jobs : phase[j] \in Terminal => phase'[j] = phase[j]]_vars

(* Every request is answered: no handler waits for ever for a mutex.       *)
HandlersReturn == \A r \in Requests : []<>(at[r] = "idle")

(* "docker-images" never stays reserved for ever.                          *)
ImagesAreFreed == []<>(DockerImages \notin active)

(* An operation somebody works on gets a terminal row, restarts included.  *)
WorkSettles == \A o \in Ops : task[o] = "body" ~> phase[o] \in Terminal
=============================================================================
