--------------------------- MODULE TemplateStore ---------------------------
(***************************************************************************)
(* The template jobs of the controller and what they leave behind.         *)
(*                                                                         *)
(* A template is a row of the table `templates`, an image tag and a        *)
(* snapshot file.  Five jobs work on templates:                            *)
(*                                                                         *)
(*   create   archives and commits a stopped environment,                  *)
(*   import   loads a staged package,                                      *)
(*   export   saves a template into a staged package,                      *)
(*   restore  makes an environment from a template,                        *)
(*   delete   removes a template.                                          *)
(*                                                                         *)
(* The rows are SQLite's, the tags and containers Docker's, the files lie  *)
(* in the snapshot, staging and environment roots: nothing makes a change  *)
(* of two of them atomic.  `parts[o]` is what operation o has made and     *)
(* what is still there.  A job carries the id of what it makes: a create   *)
(* and an import the template's, a restore the environment's, an export    *)
(* the package's.                                                          *)
(*                                                                         *)
(* How a job reserves names, gets its cancel channel and writes its row    *)
(* step by step is the subject of DurableOperations; here a reservation is *)
(* one step and lasts until the job is done.                               *)
(***************************************************************************)
EXTENDS Naturals, FiniteSets

CONSTANTS
    Creates, Imports, Exports, Deletes, Restores,  \* the jobs
    BaseEnvs,    \* environments made from an official image
    Images,      \* the name "docker-images"
    Nothing,     \* a job without target, a template without parent
    Modes        \* what may happen in a behaviour, and how often

Ops          == Creates \cup Imports \cup Exports \cup Deletes \cup Restores
Templates    == Creates \cup Imports
Environments == BaseEnvs \cup Restores
Transfers    == Imports \cup Exports

(* storage   a write to SQLite or to the state directory fails             *)
(* removal   a removal whose error the code ignores (`let _ =`) fails      *)
(* worker    the worker process dies without removing its temporary file   *)
(* inspect   Docker does not answer about a container it has just started  *)
Fault == {"storage", "removal", "worker", "inspect"}

(* jobs and envs are the jobs and the first environments of a behaviour,   *)
(* faults what may go wrong besides a job's own errors, crashes the bound  *)
(* on the crashes of the controller.                                       *)
Mode == [jobs : SUBSET Ops, envs : SUBSET BaseEnvs,
         faults : SUBSET Fault, crashes : Nat]

ASSUME TemplateStoreAssumption ==
    /\ Creates \cap (Imports \cup Exports \cup Deletes \cup Restores \cup BaseEnvs) = {}
    /\ Imports \cap (Exports \cup Deletes \cup Restores \cup BaseEnvs) = {}
    /\ Exports \cap (Deletes \cup Restores \cup BaseEnvs) = {}
    /\ Deletes \cap (Restores \cup BaseEnvs) = {}
    /\ Restores \cap BaseEnvs = {}
    /\ Images \notin Ops \cup BaseEnvs
    /\ Nothing \notin Ops \cup BaseEnvs \cup {Images}
    /\ \A m \in Modes : m \in Mode

VARIABLES
    step,         \* where each job is
    target,       \* the template or environment a job works on
    outcome,      \* how a job ended, until then "pending"
    parts,        \* artifacts made by each job that are still there
    templates,    \* rows of `templates`
    environments, \* rows of `environments`
    containers,   \* environments whose container exists
    running,      \* environments whose container runs
    visit,        \* lifecycle request in flight for each environment
    stop,         \* transfers whose cancel channel holds `true`
    mode,         \* the member of Modes that holds
    crashes       \* crashes so far

jobs == <<step, target, outcome>>
envs == <<environments, containers, running>>
fixed == <<mode, crashes>>
vars == <<jobs, parts, templates, envs, visit, stop, fixed>>

-----------------------------------------------------------------------------
(* Vocabulary *)

Idle      == {"none", "reserving", "done"}
CreateStep  == {"archiving", "archived", "committed"}
ImportStep  == {"extracted", "loaded", "tagged", "retagged", "copying",
                "copied", "published"}
ExportStep  == {"saving", "packing", "packed"}
DeleteStep  == {"untagged", "unsnapped"}
RestoreStep == {"unpacking", "unpacked", "started"}
Step == Idle \cup {"begun", "cleanTags", "cleanFiles", "finish"} \cup CreateStep
            \cup ImportStep \cup ExportStep \cup DeleteStep \cup RestoreStep

Part    == {"package", "packagePartial", "workDir", "stagingTag",
            "templateTag", "snapshotPartial", "snapshot", "configDir"}
Whole   == {"templateTag", "snapshot"}
Outcome == {"pending", "succeeded", "failed", "cancelled", "retryable"}
Visit   == {"none", "start", "stop", "remove", "removeRow"}

Active(o) == step[o] \notin Idle

\* Mutant: a restore reserves the new environment only.
NeedsWithoutSource(o) ==
    {o} \cup (IF target[o] = Nothing \/ o \in Restores THEN {} ELSE {target[o]})
        \cup (IF o \in Restores THEN {} ELSE {Images})

(* What reserve_resources is given for each kind of job. *)
Needs(o) ==
    {o} \cup (IF target[o] = Nothing THEN {} ELSE {target[o]})
        \cup (IF o \in Restores THEN {} ELSE {Images})
Busy == UNION {Needs(o) : o \in {u \in Ops : Active(u)}}

(* The template an environment was restored from, the parent of a created  *)
(* template.                                                               *)
TemplateOf(e) == IF e \in Restores THEN target[e] ELSE Nothing
Parent(t)     == IF t \in Creates THEN TemplateOf(target[t]) ELSE Nothing
Children(t)   == {c \in templates : Parent(c) = t}

To(o, next)     == step' = [step EXCEPT ![o] = next]
\* Mutant: the result of the job is dropped.
EndsSilently(o, result) == To(o, "finish") /\ UNCHANGED outcome

Ends(o, result) == /\ To(o, "finish")
                   /\ outcome' = [outcome EXCEPT ![o] = result]
Has(o, made)    == parts' = [parts EXCEPT ![o] = made]
Adds(o, p)      == Has(o, parts[o] \cup {p})
Renames(o, p, q) == Has(o, (parts[o] \ {p}) \cup {q})

(* A removal whose error is dropped. *)
Drops(o, gone) ==
    \E left \in (IF "removal" \in mode.faults THEN SUBSET (gone \cap parts[o])
                                         ELSE {{}}) :
        Has(o, (parts[o] \ gone) \cup left)

-----------------------------------------------------------------------------
(* Requests.  What they read is read before the reservation. *)

Requested(o, t) ==
    /\ o \in mode.jobs
    /\ step[o] = "none"
    /\ To(o, "reserving")
    /\ target' = [target EXCEPT ![o] = t]
    /\ UNCHANGED <<outcome, parts, templates, envs, visit, stop, fixed>>

RequestCreate(c, e) ==
    /\ e \in environments \cap containers
    /\ e \notin running
    /\ Requested(c, e)

RequestImport(i) ==
    /\ "package" \in parts[i]
    /\ Requested(i, Nothing)

RequestExport(x, t) ==
    /\ t \in templates
    /\ Requested(x, t)

RequestRestore(r, t) ==
    /\ t \in templates
    /\ "templateTag" \in parts[t]
    /\ Requested(r, t)

RequestDelete(d, t) ==
    /\ t \in templates
    /\ \A e \in environments : TemplateOf(e) # t
    /\ Children(t) = {}
    /\ Requested(d, t)

\* A refused request may be sent again.
Reserve(o) ==
    /\ step[o] = "reserving"
    /\ \/ /\ Needs(o) \cap Busy = {}
          /\ To(o, "begun")
          /\ UNCHANGED target
       \/ /\ Needs(o) \cap Busy # {}
          /\ To(o, "none")
          /\ target' = [target EXCEPT ![o] = Nothing]
    /\ UNCHANGED <<outcome, parts, templates, envs, visit, stop, fixed>>

Cancel(o) ==
    /\ Active(o)
    /\ stop' = stop \cup {o}
    /\ UNCHANGED <<jobs, parts, templates, envs, visit, fixed>>

\* The row gets its terminal phase, the names are released.
Finish(o) ==
    /\ step[o] = "finish"
    /\ To(o, "done")
    /\ stop' = stop \ {o}
    /\ UNCHANGED <<target, outcome, parts, templates, envs, visit, fixed>>

-----------------------------------------------------------------------------
(* create_template_job *)

\* The environment is looked up again; the worker opens its temporary file.
CreateArchive(c) ==
    /\ step[c] = "begun"
    /\ \/ /\ target[c] \in (environments \cap containers) \ running
          /\ To(c, "archiving")
          /\ Adds(c, "snapshotPartial")
          /\ UNCHANGED outcome
       \/ /\ Ends(c, "failed")
          /\ UNCHANGED parts
    /\ UNCHANGED <<target, templates, envs, visit, stop, fixed>>

CreateArchived(c) ==
    /\ step[c] = "archiving"
    /\ \/ /\ To(c, "archived")
          /\ Renames(c, "snapshotPartial", "snapshot")
          /\ UNCHANGED outcome
       \/ /\ Ends(c, "failed")
          /\ \/ Has(c, parts[c] \ {"snapshotPartial"})
             \/ "worker" \in mode.faults /\ UNCHANGED parts
             \/ "worker" \in mode.faults /\ Renames(c, "snapshotPartial", "snapshot")
    /\ UNCHANGED <<target, templates, envs, visit, stop, fixed>>

\* An error of update_operation leaves the job at once (`?`), one of Docker
\* after the removal of the snapshot.
CreateCommit(c) ==
    /\ step[c] = "archived"
    /\ \/ /\ target[c] \in containers
          /\ To(c, "committed")
          /\ Adds(c, "templateTag")
          /\ UNCHANGED outcome
       \/ /\ Ends(c, "failed")
          /\ \/ Drops(c, {"snapshot"})
             \/ "storage" \in mode.faults /\ UNCHANGED parts
    /\ UNCHANGED <<target, templates, envs, visit, stop, fixed>>

\* The row is refused when the name is taken or the parent is gone.
CreatePublish(c) ==
    /\ step[c] = "committed"
    /\ \/ /\ Parent(c) \in templates \cup {Nothing}
          /\ templates' = templates \cup {c}
          /\ Ends(c, "succeeded")
          /\ UNCHANGED parts
       \/ /\ Ends(c, "failed")
          /\ \/ Drops(c, Whole)
             \/ "storage" \in mode.faults /\ UNCHANGED parts
          /\ UNCHANGED templates
    /\ UNCHANGED <<target, envs, visit, stop, fixed>>

-----------------------------------------------------------------------------
(* import_job and export_job *)

\* An error, or the cancel channel, which is looked at before every stage.
\* Once its row is inserted an import completes.
GivesUp(o) ==
    /\ To(o, IF o \in Imports THEN "cleanTags" ELSE "cleanFiles")
    /\ \E result \in {"failed", "cancelled"} :
          /\ result = "cancelled" => o \in stop
          /\ outcome' = [outcome EXCEPT ![o] = result]

\* Mutant: the cancel channel is looked at once more after the insert.
TransferGivesUpLate(o) ==
    /\ step[o] \in ({"begun"} \cup ExportStep \cup ImportStep) \ {"copying"}
    /\ GivesUp(o)
    /\ UNCHANGED <<target, parts, templates, envs, visit, stop, fixed>>

TransferGivesUp(o) ==
    /\ step[o] \in ({"begun"} \cup ExportStep \cup ImportStep)
                       \ {"copying", "published"}
    /\ GivesUp(o)
    /\ UNCHANGED <<target, parts, templates, envs, visit, stop, fixed>>

ImportExtract(i) ==
    /\ step[i] = "begun"
    /\ "package" \in parts[i]
    /\ To(i, "extracted")
    /\ Adds(i, "workDir")
    /\ UNCHANGED <<target, outcome, templates, envs, visit, stop, fixed>>

\* Docker may have tagged the image when its stream is abandoned.
ImportLoad(i) ==
    /\ step[i] = "extracted"
    /\ Adds(i, "stagingTag")
    /\ \/ To(i, "loaded") /\ UNCHANGED outcome
       \/ GivesUp(i)
    /\ UNCHANGED <<target, templates, envs, visit, stop, fixed>>

ImportTag(i) ==
    /\ step[i] = "loaded"
    /\ To(i, "tagged")
    /\ Adds(i, "templateTag")
    /\ UNCHANGED <<target, outcome, templates, envs, visit, stop, fixed>>

ImportUntag(i) ==
    /\ step[i] = "tagged"
    /\ To(i, "retagged")
    /\ Drops(i, {"stagingTag"})
    /\ UNCHANGED <<target, outcome, templates, envs, visit, stop, fixed>>

ImportCopy(i) ==
    /\ step[i] = "retagged"
    /\ To(i, "copying")
    /\ Adds(i, "snapshotPartial")
    /\ UNCHANGED <<target, outcome, templates, envs, visit, stop, fixed>>

ImportCopied(i) ==
    /\ step[i] = "copying"
    /\ \/ /\ To(i, "copied")
          /\ Renames(i, "snapshotPartial", "snapshot")
          /\ UNCHANGED outcome
       \/ /\ GivesUp(i)
          /\ Drops(i, {"snapshotPartial"})
    /\ UNCHANGED <<target, templates, envs, visit, stop, fixed>>

ImportPublish(i) ==
    /\ step[i] = "copied"
    /\ To(i, "published")
    /\ templates' = templates \cup {i}
    /\ UNCHANGED <<target, outcome, parts, envs, visit, stop, fixed>>

ImportDiscard(i) ==
    /\ step[i] = "published"
    /\ Ends(i, "succeeded")
    /\ Drops(i, {"workDir", "package"})
    /\ UNCHANGED <<target, templates, envs, visit, stop, fixed>>

ExportSave(x) ==
    /\ step[x] = "begun"
    /\ To(x, "saving")
    /\ Adds(x, "workDir")
    /\ UNCHANGED <<target, outcome, templates, envs, visit, stop, fixed>>

\* The image has been saved and the snapshot has the recorded hash.
ExportPack(x) ==
    /\ step[x] = "saving"
    /\ Whole \subseteq parts[target[x]]
    /\ To(x, "packing")
    /\ Adds(x, "packagePartial")
    /\ UNCHANGED <<target, outcome, templates, envs, visit, stop, fixed>>

ExportPacked(x) ==
    /\ step[x] = "packing"
    /\ "snapshot" \in parts[target[x]]
    /\ To(x, "packed")
    /\ Renames(x, "packagePartial", "package")
    /\ UNCHANGED <<target, outcome, templates, envs, visit, stop, fixed>>

ExportDone(x) ==
    /\ step[x] = "packed"
    /\ Ends(x, "succeeded")
    /\ Drops(x, {"workDir"})
    /\ UNCHANGED <<target, templates, envs, visit, stop, fixed>>

-----------------------------------------------------------------------------
(* What the task of a transfer removes when the job did not complete *)

\* Mutant: only the tag of the staging repository is removed.
CleanTagsStagingOnly(i) ==
    /\ step[i] = "cleanTags"
    /\ To(i, "cleanFiles")
    /\ Drops(i, {"stagingTag"})
    /\ UNCHANGED <<target, outcome, templates, envs, visit, stop, fixed>>

CleanTags(i) ==
    /\ step[i] = "cleanTags"
    /\ To(i, "cleanFiles")
    /\ Drops(i, {"stagingTag", "templateTag"})
    /\ UNCHANGED <<target, outcome, templates, envs, visit, stop, fixed>>

CleanFiles(o) ==
    /\ step[o] = "cleanFiles"
    /\ To(o, "finish")
    /\ Drops(o, {"package", "packagePartial", "workDir", "snapshotPartial",
                 "snapshot"})
    /\ UNCHANGED <<target, outcome, templates, envs, visit, stop, fixed>>

-----------------------------------------------------------------------------
(* create_environment_job: a template restored into a new environment *)

RestoreUnpack(r) ==
    /\ step[r] = "begun"
    /\ \/ /\ "snapshot" \in parts[target[r]]
          /\ To(r, "unpacking")
          /\ Adds(r, "configDir")
          /\ UNCHANGED outcome
       \/ /\ Ends(r, "failed")
          /\ \/ UNCHANGED parts
             \/ "storage" \in mode.faults /\ Adds(r, "configDir")
    /\ UNCHANGED <<target, templates, envs, visit, stop, fixed>>

\* The update of the row between the worker and Docker returns its error.
RestoreUnpacked(r) ==
    /\ step[r] = "unpacking"
    /\ \/ /\ "snapshot" \in parts[target[r]]
          /\ To(r, "unpacked")
          /\ UNCHANGED <<outcome, parts>>
       \/ /\ Ends(r, "failed")
          /\ \/ Drops(r, {"configDir"})
             \/ "storage" \in mode.faults /\ UNCHANGED parts
    /\ UNCHANGED <<target, templates, envs, visit, stop, fixed>>

\* When the port of the started container cannot be read, the directories
\* are removed and the container is not.
RestoreStart(r) ==
    /\ step[r] = "unpacked"
    /\ \/ /\ "templateTag" \in parts[target[r]]
          /\ containers' = containers \cup {r}
          /\ running' = running \cup {r}
          /\ \/ /\ To(r, "started")
                /\ UNCHANGED <<outcome, parts>>
             \/ /\ "inspect" \in mode.faults
                /\ Ends(r, "failed")
                /\ Drops(r, {"configDir"})
       \/ /\ Ends(r, "failed")
          /\ Drops(r, {"configDir"})
          /\ UNCHANGED <<containers, running>>
    /\ UNCHANGED <<target, templates, environments, visit, stop, fixed>>

RestoreRecord(r) ==
    /\ step[r] = "started"
    /\ \/ /\ environments' = environments \cup {r}
          /\ Ends(r, "succeeded")
          /\ UNCHANGED <<parts, containers, running>>
       \/ /\ Ends(r, "failed")
          /\ Drops(r, {"configDir"})
          /\ \/ /\ containers' = containers \ {r}
                /\ running' = running \ {r}
             \/ /\ "removal" \in mode.faults
                /\ UNCHANGED <<containers, running>>
          /\ UNCHANGED environments
    /\ UNCHANGED <<target, templates, visit, stop, fixed>>

-----------------------------------------------------------------------------
(* The task of delete_template *)

\* Mutant: the image is removed with force.
DeleteUntagForced(d) ==
    /\ step[d] = "begun"
    /\ To(d, "untagged")
    /\ Has(target[d], parts[target[d]] \ {"templateTag"})
    /\ UNCHANGED <<target, outcome, templates, envs, visit, stop, fixed>>

\* Docker refuses to remove the image of a container.
DeleteUntag(d) ==
    /\ step[d] = "begun"
    /\ \/ /\ \/ "templateTag" \notin parts[target[d]]
             \/ \A e \in containers : TemplateOf(e) # target[d]
          /\ To(d, "untagged")
          /\ Has(target[d], parts[target[d]] \ {"templateTag"})
          /\ UNCHANGED outcome
       \/ /\ Ends(d, "failed")
          /\ UNCHANGED parts
    /\ UNCHANGED <<target, templates, envs, visit, stop, fixed>>

DeleteSnapshot(d) ==
    /\ step[d] = "untagged"
    /\ \/ /\ To(d, "unsnapped")
          /\ Has(target[d], parts[target[d]] \ {"snapshot"})
          /\ UNCHANGED outcome
       \/ /\ "removal" \in mode.faults
          /\ Ends(d, "failed")
          /\ UNCHANGED parts
    /\ UNCHANGED <<target, templates, envs, visit, stop, fixed>>

\* ON DELETE RESTRICT: the row of a parent stays.
DeleteRow(d) ==
    /\ step[d] = "unsnapped"
    /\ \/ /\ Children(target[d]) = {}
          /\ templates' = templates \ {target[d]}
          /\ Ends(d, "succeeded")
       \/ /\ Children(target[d]) # {} \/ "storage" \in mode.faults
          /\ Ends(d, "failed")
          /\ UNCHANGED templates
    /\ UNCHANGED <<target, parts, envs, visit, stop, fixed>>

-----------------------------------------------------------------------------
(* start, stop, restart and delete of an environment: whether it is busy   *)
(* is asked once, at the beginning.                                        *)

EnvRequest(e) ==
    /\ visit[e] = "none"
    /\ e \in environments
    /\ e \notin Busy
    /\ \E v \in {"start", "stop", "remove"} : visit' = [visit EXCEPT ![e] = v]
    /\ UNCHANGED <<jobs, parts, templates, envs, stop, fixed>>

\* start and restart
EnvStart(e) ==
    /\ visit[e] = "start"
    /\ visit' = [visit EXCEPT ![e] = "none"]
    /\ running' = running \cup ({e} \cap containers)
    /\ UNCHANGED <<jobs, parts, templates, environments, containers, stop,
                   fixed>>

EnvStop(e) ==
    /\ visit[e] = "stop"
    /\ visit' = [visit EXCEPT ![e] = "none"]
    /\ running' = running \ {e}
    /\ UNCHANGED <<jobs, parts, templates, environments, containers, stop,
                   fixed>>

\* The container is stopped and removed, its data only on demand.  Docker
\* refuses what is not there.
EnvRemove(e) ==
    /\ visit[e] = "remove"
    /\ \/ /\ e \in containers
          /\ \/ visit' = [visit EXCEPT ![e] = "removeRow"]
             \/ "storage" \in mode.faults /\ visit' = [visit EXCEPT ![e] = "none"]
          /\ containers' = containers \ {e}
          /\ running' = running \ {e}
          /\ \/ UNCHANGED parts
             \/ e \in Restores /\ Has(e, parts[e] \ {"configDir"})
       \/ /\ e \notin containers
          /\ visit' = [visit EXCEPT ![e] = "none"]
          /\ UNCHANGED <<parts, containers, running>>
    /\ UNCHANGED <<jobs, templates, environments, stop, fixed>>

EnvRemoveRow(e) ==
    /\ visit[e] = "removeRow"
    /\ visit' = [visit EXCEPT ![e] = "none"]
    /\ \/ environments' = environments \ {e}
       \/ "storage" \in mode.faults /\ UNCHANGED environments
    /\ UNCHANGED <<jobs, parts, templates, containers, running, stop, fixed>>

-----------------------------------------------------------------------------
\* The controller dies and comes back: the rows of active jobs become
\* retryable, cleanup_partial_files looks at the names in the two roots.
CrashAndRestart ==
    /\ crashes < mode.crashes
    /\ crashes' = crashes + 1
    /\ step' = [o \in Ops |-> IF Active(o) THEN "done"
                              ELSE IF step[o] = "reserving" THEN "none"
                              ELSE step[o]]
    /\ target' = [o \in Ops |-> IF step[o] = "reserving" THEN Nothing
                                ELSE target[o]]
    /\ outcome' = [o \in Ops |-> IF Active(o) THEN "retryable" ELSE outcome[o]]
    /\ parts' = [o \in Ops |-> parts[o] \ {"workDir", "packagePartial"}]
    /\ visit' = [e \in Environments |-> "none"]
    /\ stop' = {}
    /\ UNCHANGED <<templates, envs, mode>>

Init ==
    /\ mode \in Modes
    /\ step = [o \in Ops |-> "none"]
    /\ target = [o \in Ops |-> Nothing]
    /\ outcome = [o \in Ops |-> "pending"]
    /\ parts = [o \in Ops |-> IF o \in Imports \cap mode.jobs THEN {"package"} ELSE {}]
    /\ templates = {}
    /\ environments = mode.envs
    /\ containers = mode.envs
    /\ running = {}
    /\ visit = [e \in Environments |-> "none"]
    /\ stop = {}
    /\ crashes = 0

Create(c) ==
    \/ \E e \in Environments : RequestCreate(c, e)
    \/ CreateArchive(c) \/ CreateArchived(c) \/ CreateCommit(c)
    \/ CreatePublish(c)
Import(i) ==
    \/ RequestImport(i)
    \/ ImportExtract(i) \/ ImportLoad(i) \/ ImportTag(i)
    \/ ImportUntag(i) \/ ImportCopy(i) \/ ImportCopied(i) \/ ImportPublish(i)
    \/ ImportDiscard(i) \/ CleanTags(i)
Export(x) ==
    \/ \E t \in Templates : RequestExport(x, t)
    \/ ExportSave(x) \/ ExportPack(x) \/ ExportPacked(x) \/ ExportDone(x)
Restore(r) ==
    \/ \E t \in Templates : RequestRestore(r, t)
    \/ RestoreUnpack(r) \/ RestoreUnpacked(r) \/ RestoreStart(r)
    \/ RestoreRecord(r)
Delete(d) ==
    \/ \E t \in Templates : RequestDelete(d, t)
    \/ DeleteUntag(d) \/ DeleteSnapshot(d) \/ DeleteRow(d)
Environment(e) ==
    EnvRequest(e) \/ EnvStart(e) \/ EnvStop(e) \/ EnvRemove(e) \/ EnvRemoveRow(e)

Next ==
    \/ \E c \in Creates : Create(c)
    \/ \E i \in Imports : Import(i)
    \/ \E x \in Exports : Export(x)
    \/ \E r \in Restores : Restore(r)
    \/ \E d \in Deletes : Delete(d)
    \/ \E o \in Transfers : TransferGivesUp(o) \/ CleanFiles(o) \/ Cancel(o)
    \/ \E o \in Ops : Reserve(o) \/ Finish(o)
    \/ \E e \in Environments : Environment(e)
    \/ CrashAndRestart

Spec == Init /\ [][Next]_vars
-----------------------------------------------------------------------------
(* Properties *)

(* Every variable holds what the rows, the Docker daemon and the file      *)
(* system can hold; a job that is over has an outcome.                     *)
TypeOK ==
    /\ step \in [Ops -> Step]
    /\ target \in [Ops -> Templates \cup Environments \cup {Nothing}]
    /\ outcome \in [Ops -> Outcome]
    /\ \A o \in Ops : step[o] \in {"cleanTags", "cleanFiles", "finish", "done"}
                         <=> outcome[o] # "pending"
    /\ parts \in [Ops -> SUBSET Part]
    /\ templates \subseteq Templates
    /\ environments \subseteq Environments
    /\ running \subseteq containers /\ containers \subseteq Environments
    /\ visit \in [Environments -> Visit]
    /\ stop \subseteq Transfers
    /\ crashes \in Nat

(* A row of `templates` has its image tag and its snapshot, unless a       *)
(* delete of that template has begun: no clean-up of a job that failed,    *)
(* was cancelled or was cut off by a crash takes a published part away.    *)
PublishedIsWhole ==
    \A t \in templates :
        \/ Whole \subseteq parts[t]
        \/ \E d \in Deletes : target[d] = t /\ step[d] \notin {"none", "reserving"}

(* A container made from a template keeps the image it was made from,      *)
(* whatever the template's delete read before it was made.                 *)
DependantsKeepTheirImage ==
    \A e \in containers : TemplateOf(e) # Nothing =>
        "templateTag" \in parts[TemplateOf(e)]

(* What a job leaves when it is over is what it published: with no fault   *)
(* and no crash, every error and every cancellation leaves nothing.        *)
Rightful(o) ==
    IF o \in templates THEN Whole
    ELSE IF outcome[o] # "succeeded" THEN {}
    ELSE IF o \in Exports THEN {"package"}
    ELSE IF o \in Restores THEN {"configDir"}
    ELSE {}
NoOrphans == mode.faults = {} /\ mode.crashes = 0 =>
    /\ \A o \in Ops : step[o] = "done" => parts[o] \subseteq Rightful(o)
    /\ \A e \in containers : e \in environments \/ (e \in Restores /\ Active(e))

(* docs/security.md: "Environment lifecycle and deletion are rejected      *)
(* while that environment is being snapshotted or restored": what is being *)
(* archived and committed does not run.                                    *)
SnapshotIsOfStopped ==
    \A c \in Creates : step[c] \in CreateStep => target[c] \notin running
=============================================================================
