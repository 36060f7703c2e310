------------------------ MODULE TemplateStoreProofs ------------------------
(***************************************************************************)
(* Proofs about TemplateStore, for any jobs, environments and modes.       *)
(***************************************************************************)
EXTENDS CatalogRefinement, TLAPS

USE DEF jobs, envs, fixed

-----------------------------------------------------------------------------
(* The types *)

Early == {"none", "reserving", "begun"}
Ended == {"finish", "done"}

\* Each kind of job has steps of its own.
Phased ==
    /\ \A c \in Creates : step[c] \in Early \cup Ended \cup CreateStep
    /\ \A i \in Imports :
          step[i] \in Early \cup Ended \cup ImportStep \cup {"cleanTags", "cleanFiles"}
    /\ \A x \in Exports : step[x] \in Early \cup Ended \cup ExportStep \cup {"cleanFiles"}
    /\ \A d \in Deletes : step[d] \in Early \cup Ended \cup DeleteStep
    /\ \A r \in Restores : step[r] \in Early \cup Ended \cup RestoreStep

Base == TypeOK /\ Phased

\* No job is of two kinds, and Nothing is none.
LEMMA Kinds ==
    /\ Creates \cap Imports = {} /\ Creates \cap Exports = {} /\ Creates \cap Deletes = {}
    /\ Creates \cap Restores = {} /\ Imports \cap Exports = {} /\ Imports \cap Deletes = {}
    /\ Imports \cap Restores = {} /\ Exports \cap Deletes = {} /\ Exports \cap Restores = {}
    /\ Deletes \cap Restores = {} /\ BaseEnvs \cap Ops = {}
    /\ Nothing \notin Ops \cup BaseEnvs \cup {Images} /\ Images \notin Ops \cup BaseEnvs
BY TemplateStoreAssumption DEF Ops

\* What has been made is changed for one operation.
LEMMA HasParts ==
    ASSUME TypeOK, NEW o, NEW made \in SUBSET Part, Has(o, made)
    PROVE  /\ parts' \in [Ops -> SUBSET Part]
           /\ o \in Ops => parts'[o] = made
           /\ \A p \in Ops : p # o => parts'[p] = parts[p]
BY DEF TypeOK, Has

\* A removal leaves at most what was to be removed.
LEMMA DropsParts ==
    ASSUME TypeOK, NEW o \in Ops, NEW gone, Drops(o, gone)
    PROVE  /\ parts' \in [Ops -> SUBSET Part]
           /\ parts'[o] \subseteq parts[o] /\ parts[o] \ gone \subseteq parts'[o]
           /\ mode.faults = {} => parts'[o] = parts[o] \ gone
           /\ \A p \in Ops : p # o => parts'[p] = parts[p]
<1>1. PICK left \in SUBSET (gone \cap parts[o]) :
          /\ Has(o, (parts[o] \ gone) \cup left)
          /\ mode.faults = {} => left = {}
  BY DEF Drops
<1>2. (parts[o] \ gone) \cup left \in SUBSET Part
  BY DEF TypeOK
<1> QED BY <1>1, <1>2, HasParts

Over == {"cleanTags", "cleanFiles", "finish", "done"}

\* One job moves on, and gets its outcome when it is over.
JobStep(o, s) ==
    /\ To(o, s)
    /\ \/ UNCHANGED outcome /\ (s \in Over <=> step[o] \in Over)
       \/ s \in Over /\ \E how \in Outcome \ {"pending"} :
                            outcome' = [outcome EXCEPT ![o] = how]

\* A job moves within the steps of its kind.
LEMMA Moves ==
    ASSUME Base, NEW o \in Ops, NEW s \in Step, JobStep(o, s),
           \/ s \in Early \cup Ended
           \/ o \in Creates /\ s \in CreateStep
           \/ o \in Imports /\ s \in ImportStep \cup {"cleanTags", "cleanFiles"}
           \/ o \in Exports /\ s \in ExportStep \cup {"cleanFiles"}
           \/ o \in Deletes /\ s \in DeleteStep
           \/ o \in Restores /\ s \in RestoreStep
    PROVE  /\ step' \in [Ops -> Step] /\ Phased'
           /\ step'[o] = s /\ \A p \in Ops : p # o => step'[p] = step[p]
           /\ outcome' \in [Ops -> Outcome]
           /\ \A p \in Ops : p # o => outcome'[p] = outcome[p]
           /\ \A p \in Ops : step'[p] \in Over <=> outcome'[p] # "pending"
<1>1. /\ step' \in [Ops -> Step] /\ step'[o] = s
      /\ \A p \in Ops : p # o => step'[p] = step[p]
  BY DEF JobStep, To, Base, TypeOK
<1>2. Phased'
  BY <1>1, Kinds DEF Base, Phased, Ops
<1>3. /\ outcome' \in [Ops -> Outcome]
      /\ \A p \in Ops : p # o => outcome'[p] = outcome[p]
      /\ outcome'[o] # "pending" <=> s \in Over
  BY DEF JobStep, Base, TypeOK, Over
<1> QED BY <1>1, <1>2, <1>3 DEF Base, TypeOK, Over

\* What is made is changed for one job, or for the template it deletes.
Makes(o) ==
    \/ UNCHANGED parts
    \/ \E made \in SUBSET Part : Has(o, made)
    \/ \E gone : Drops(o, gone)

\* The parts of the others stay as they are.
LEMMA MakesParts ==
    ASSUME TypeOK, NEW o, Makes(o), o \in Ops
    PROVE  /\ parts' \in [Ops -> SUBSET Part]
           /\ \A p \in Ops : p # o => parts'[p] = parts[p]
<1>1. CASE UNCHANGED parts
  BY <1>1 DEF TypeOK
<1>2. ASSUME NEW made \in SUBSET Part, Has(o, made)
      PROVE  /\ parts' \in [Ops -> SUBSET Part]
             /\ \A p \in Ops : p # o => parts'[p] = parts[p]
  BY <1>2, HasParts
<1>3. ASSUME NEW gone, Drops(o, gone)
      PROVE  /\ parts' \in [Ops -> SUBSET Part]
             /\ \A p \in Ops : p # o => parts'[p] = parts[p]
  BY <1>3, DropsParts
<1> QED BY <1>1, <1>2, <1>3 DEF Makes

\* The rest of the types.
LEMMA RestOK ==
    ASSUME Base, step' \in [Ops -> Step] /\ Phased', outcome' \in [Ops -> Outcome],
           \A p \in Ops : step'[p] \in Over <=> outcome'[p] # "pending",
           parts' \in [Ops -> SUBSET Part],
           target' \in [Ops -> Templates \cup Environments \cup {Nothing}],
           templates' \subseteq Templates, environments' \subseteq Environments,
           running' \subseteq containers', containers' \subseteq Environments,
           visit' \in [Environments -> Visit], stop' \subseteq Transfers, crashes' \in Nat
    PROVE  Base'
BY DEF Base, TypeOK, Over

\* A create goes on.
LEMMA CreateBase ==
    ASSUME Base, NEW c \in Creates,
           CreateArchive(c) \/ CreateArchived(c) \/ CreateCommit(c) \/ CreatePublish(c)
    PROVE  Base'
<1>1. c \in Ops /\ c \in Templates /\ TypeOK
  BY DEF Base, Ops, Templates
<1>2. \E s \in Ended \cup CreateStep : JobStep(c, s)
  BY <1>1 DEF CreateArchive, CreateArchived, CreateCommit, CreatePublish, Ends, JobStep,
              CreateStep, Ended, Over, Outcome
<1>3. Makes(c)
  BY <1>1 DEF CreateArchive, CreateArchived, CreateCommit, CreatePublish, Makes, Adds, Renames,
              TypeOK, Part
<1>4. /\ templates' \subseteq Templates
      /\ UNCHANGED <<target, envs, visit, stop, fixed>>
  BY <1>1 DEF CreateArchive, CreateArchived, CreateCommit, CreatePublish, TypeOK
<1> QED BY <1>1, <1>2, <1>3, <1>4, Moves, MakesParts, RestOK DEF Step, Early, Ended, Idle, TypeOK

\* An import goes on.
LEMMA ImportBase ==
    ASSUME Base, NEW i \in Imports,
           \/ ImportExtract(i) \/ ImportLoad(i) \/ ImportTag(i) \/ ImportUntag(i)
           \/ ImportCopy(i) \/ ImportCopied(i) \/ ImportPublish(i) \/ ImportDiscard(i)
           \/ CleanTags(i)
    PROVE  Base'
<1>1. i \in Ops /\ i \in Templates /\ TypeOK
  BY DEF Base, Ops, Templates
<1>2. \E s \in Ended \cup ImportStep \cup {"cleanTags", "cleanFiles"} : JobStep(i, s)
  BY <1>1 DEF ImportExtract, ImportLoad, ImportTag, ImportUntag, ImportCopy, ImportCopied,
              ImportPublish, ImportDiscard, CleanTags, GivesUp, Ends, JobStep,
              ImportStep, Ended, Over, Outcome
<1>3. Makes(i)
  BY <1>1 DEF ImportExtract, ImportLoad, ImportTag, ImportUntag, ImportCopy, ImportCopied,
              ImportPublish, ImportDiscard, CleanTags, Makes, Adds, Renames, TypeOK, Part
<1>4. /\ templates' \subseteq Templates
      /\ UNCHANGED <<target, envs, visit, stop, fixed>>
  BY <1>1 DEF ImportExtract, ImportLoad, ImportTag, ImportUntag, ImportCopy, ImportCopied,
              ImportPublish, ImportDiscard, CleanTags, TypeOK
<1> QED BY <1>1, <1>2, <1>3, <1>4, Moves, MakesParts, RestOK DEF Step, Early, Ended, Idle, TypeOK

\* A transfer gives up, and removes its files.
LEMMA TransferBase ==
    ASSUME Base, NEW o \in Transfers, TransferGivesUp(o) \/ CleanFiles(o)
    PROVE  Base'
<1>1. o \in Ops /\ (o \in Imports \/ o \in Exports) /\ TypeOK
  BY DEF Base, Ops, Transfers
<1>2. \E s \in Ended \cup {"cleanTags", "cleanFiles"} :
          JobStep(o, s) /\ (s = "cleanTags" => o \in Imports)
  BY <1>1 DEF TransferGivesUp, CleanFiles, GivesUp, JobStep, Ended, ExportStep, ImportStep,
              Over, Outcome
<1>3. Makes(o)
  BY <1>1 DEF TransferGivesUp, CleanFiles, Makes
<1>4. UNCHANGED <<target, templates, envs, visit, stop, fixed>>
  BY DEF TransferGivesUp, CleanFiles
<1> QED BY <1>1, <1>2, <1>3, <1>4, Moves, MakesParts, RestOK DEF Step, Early, Ended, Idle, TypeOK

\* An export goes on.
LEMMA ExportBase ==
    ASSUME Base, NEW x \in Exports,
           ExportSave(x) \/ ExportPack(x) \/ ExportPacked(x) \/ ExportDone(x)
    PROVE  Base'
<1>1. x \in Ops /\ TypeOK
  BY DEF Base, Ops
<1>2. \E s \in Ended \cup ExportStep : JobStep(x, s)
  BY <1>1 DEF ExportSave, ExportPack, ExportPacked, ExportDone, Ends, JobStep,
              ExportStep, Ended, Over, Outcome
<1>3. Makes(x)
  BY <1>1 DEF ExportSave, ExportPack, ExportPacked, ExportDone, Makes, Adds, Renames,
              TypeOK, Part
<1>4. UNCHANGED <<target, templates, envs, visit, stop, fixed>>
  BY DEF ExportSave, ExportPack, ExportPacked, ExportDone
<1> QED BY <1>1, <1>2, <1>3, <1>4, Moves, MakesParts, RestOK DEF Step, Early, Ended, Idle, TypeOK

\* A restore goes on.
LEMMA RestoreBase ==
    ASSUME Base, NEW r \in Restores,
           RestoreUnpack(r) \/ RestoreUnpacked(r) \/ RestoreStart(r) \/ RestoreRecord(r)
    PROVE  Base'
<1>1. r \in Ops /\ r \in Environments /\ TypeOK
  BY DEF Base, Ops, Environments
<1>2. \E s \in Ended \cup RestoreStep : JobStep(r, s)
  BY <1>1 DEF RestoreUnpack, RestoreUnpacked, RestoreStart, RestoreRecord, Ends, JobStep,
              RestoreStep, Ended, Over, Outcome
<1>3. Makes(r)
  BY <1>1 DEF RestoreUnpack, RestoreUnpacked, RestoreStart, RestoreRecord, Makes, Adds,
              TypeOK, Part
<1>4. /\ UNCHANGED <<target, templates, visit, stop, fixed>>
      /\ environments' \subseteq Environments
      /\ running' \subseteq containers' /\ containers' \subseteq Environments
  BY <1>1 DEF RestoreUnpack, RestoreUnpacked, RestoreStart, RestoreRecord, TypeOK
<1> QED BY <1>1, <1>2, <1>3, <1>4, Moves, MakesParts, RestOK DEF Step, Early, Ended, Idle, TypeOK

\* A delete goes on: the parts it changes are its template's.
LEMMA DeleteBase ==
    ASSUME Base, NEW d \in Deletes, DeleteUntag(d) \/ DeleteSnapshot(d) \/ DeleteRow(d)
    PROVE  Base'
<1>1. d \in Ops /\ TypeOK
  BY DEF Base, Ops
<1>2. \E s \in Ended \cup DeleteStep : JobStep(d, s)
  BY <1>1 DEF DeleteUntag, DeleteSnapshot, DeleteRow, Ends, JobStep,
              DeleteStep, Ended, Over, Outcome
<1>3. parts' \in [Ops -> SUBSET Part]
  <2>1. \/ UNCHANGED parts
        \/ \E p \in Part : parts' = [parts EXCEPT ![target[d]] = @ \ {p}]
    BY <1>1 DEF DeleteUntag, DeleteSnapshot, DeleteRow, Has, Part
  <2> QED BY <1>1, <2>1 DEF TypeOK
<1>4. /\ UNCHANGED <<target, envs, visit, stop, fixed>>
      /\ templates' \subseteq Templates
  BY <1>1 DEF DeleteUntag, DeleteSnapshot, DeleteRow, TypeOK
<1> QED BY <1>1, <1>2, <1>3, <1>4, Moves, RestOK DEF Step, Early, Ended, Idle, TypeOK

\* A request is read.
LEMMA RequestBase ==
    ASSUME Base, NEW o \in Ops, NEW t \in Templates \cup Environments \cup {Nothing},
           Requested(o, t)
    PROVE  Base'
<1>1. TypeOK /\ JobStep(o, "reserving")
  BY DEF Base, Requested, JobStep, Over
<1>2. /\ target' \in [Ops -> Templates \cup Environments \cup {Nothing}]
      /\ UNCHANGED <<parts, templates, envs, visit, stop, fixed>>
  BY <1>1 DEF Requested, TypeOK
<1> QED BY <1>1, <1>2, Moves, RestOK DEF Step, Early, Idle, TypeOK

\* A job begins or is refused, and ends.
LEMMA ReserveBase ==
    ASSUME Base, NEW o \in Ops, Reserve(o) \/ Finish(o) PROVE Base'
<1>1. TypeOK /\ \E s \in Early \cup Ended : JobStep(o, s)
  BY DEF Base, Reserve, Finish, JobStep, Over, Early, Ended
<1>2. /\ target' \in [Ops -> Templates \cup Environments \cup {Nothing}]
      /\ UNCHANGED <<parts, templates, envs, visit, fixed>> /\ stop' \subseteq Transfers
  BY <1>1 DEF Reserve, Finish, TypeOK
<1> QED BY <1>1, <1>2, Moves, RestOK DEF Step, Early, Ended, Idle, TypeOK

\* A start, stop or removal of an environment.
LEMMA EnvironmentBase ==
    ASSUME Base, NEW e \in Environments, Environment(e) PROVE Base'
<1>1. TypeOK
  BY DEF Base
<1>2. parts' \in [Ops -> SUBSET Part]
  <2>1. UNCHANGED parts \/ (e \in Restores /\ Has(e, parts[e] \ {"configDir"}))
    BY DEF Environment, EnvRequest, EnvStart, EnvStop, EnvRemove, EnvRemoveRow
  <2> QED BY <1>1, <2>1, HasParts DEF TypeOK, Ops
<1>3. /\ visit' \in [Environments -> Visit] /\ environments' \subseteq Environments
      /\ running' \subseteq containers' /\ containers' \subseteq Environments
      /\ UNCHANGED <<jobs, templates, stop, fixed>>
  BY <1>1 DEF Environment, EnvRequest, EnvStart, EnvStop, EnvRemove, EnvRemoveRow, TypeOK, Visit
<1>4. Phased'
  BY <1>3 DEF Base, Phased
<1> QED BY <1>1, <1>2, <1>3, <1>4, RestOK DEF TypeOK, Over

\* A crash: the jobs under way become retryable.
LEMMA CrashBase == ASSUME Base, CrashAndRestart PROVE Base'
<1>1. TypeOK
  BY DEF Base
<1>2. /\ step' \in [Ops -> Step] /\ outcome' \in [Ops -> Outcome]
      /\ \A o \in Ops : step'[o] \in {"none", "done"} /\ (step[o] = "none" => step'[o] = "none")
      /\ \A p \in Ops : step'[p] \in Over <=> outcome'[p] # "pending"
  BY <1>1 DEF CrashAndRestart, TypeOK, Active, Idle, Step, Outcome, Over
<1>3. Phased'
  BY <1>2 DEF Phased, Ops, Early, Ended
<1>4. /\ target' \in [Ops -> Templates \cup Environments \cup {Nothing}]
      /\ parts' \in [Ops -> SUBSET Part]
      /\ visit' \in [Environments -> Visit] /\ stop' = {} /\ crashes' \in Nat
      /\ UNCHANGED <<templates, envs, mode>>
  BY <1>1 DEF CrashAndRestart, TypeOK, Visit
<1> QED BY <1>1, <1>2, <1>3, <1>4, RestOK DEF TypeOK

\* The first states are well-typed.
LEMMA InitBase == Init => Base
BY TemplateStoreAssumption
   DEF Init, Base, TypeOK, Phased, Step, Idle, Outcome, Visit, Mode, Part, Early, Ops, Environments

\* Every step keeps the types and the steps of each kind.
LEMMA NextBase == Base /\ [Next]_vars => Base'
<1> SUFFICES ASSUME Base, [Next]_vars PROVE Base'
  OBVIOUS
<1>1. ASSUME NEW c \in Creates, Create(c) PROVE Base'
  BY <1>1, CreateBase, RequestBase DEF Create, RequestCreate, Ops
<1>2. ASSUME NEW i \in Imports, Import(i) PROVE Base'
  BY <1>2, ImportBase, RequestBase DEF Import, RequestImport, Ops
<1>3. ASSUME NEW x \in Exports, Export(x) PROVE Base'
  BY <1>3, ExportBase, RequestBase DEF Export, RequestExport, Ops
<1>4. ASSUME NEW r \in Restores, Restore(r) PROVE Base'
  BY <1>4, RestoreBase, RequestBase DEF Restore, RequestRestore, Ops
<1>5. ASSUME NEW d \in Deletes, Delete(d) PROVE Base'
  BY <1>5, DeleteBase, RequestBase DEF Delete, RequestDelete, Ops
<1>6. ASSUME NEW o \in Transfers, Cancel(o) PROVE Base'
  BY <1>6, RestOK DEF Cancel, Base, TypeOK, Phased, Over
<1>7. CASE UNCHANGED vars
  BY <1>7, RestOK DEF vars, Base, TypeOK, Phased, Over
<1> QED BY <1>1, <1>2, <1>3, <1>4, <1>5, <1>6, <1>7, TransferBase, ReserveBase,
           EnvironmentBase, CrashBase DEF Next

\* The types, and that each kind of job keeps to its own steps.
THEOREM BaseCorrect == Spec => []Base
BY InitBase, NextBase, PTL DEF Spec

\* Rows, tags, files and jobs keep their types, and a job that is over has an outcome.
THEOREM TypeCorrect == Spec => []TypeOK
<1>1. Base => TypeOK
  BY DEF Base
<1> QED BY <1>1, BaseCorrect, PTL

-----------------------------------------------------------------------------
(* Templates and those who use them *)

Uses == Exports \cup Deletes \cup Restores

\* The job that makes a template takes nothing of it away any more once others can
\* know of it.
Settled(t) == step[t] \in Ended \cup {"published"}
Targets ==
    /\ \A o \in Uses : target[o] # Nothing => target[o] \in Templates /\ Settled(target[o])
    /\ \A o \in Uses : step[o] # "none" => target[o] # Nothing
    /\ \A t \in templates : Settled(t)

\* What the job of a template has made when it publishes the row.
MadeBy(o) ==
    /\ step[o] \in {"archived", "committed", "copied"} => "snapshot" \in parts[o]
    /\ step[o] \in {"committed", "tagged", "retagged", "copying", "copied"} =>
          "templateTag" \in parts[o]
Made == \A o \in Templates : MadeBy(o)

\* Jobs that are under way have no name in common.
Apart == \A o, p \in Ops : Active(o) /\ Active(p) /\ o # p => Needs(o) \cap Needs(p) = {}

\* A delete takes apart what nobody works on any more.
Taken ==
    \A d \in Deletes :
        /\ Active(d) => step[target[d]] = "done"
        /\ step[d] \in DeleteStep => "templateTag" \notin parts[target[d]]
        /\ step[d] = "unsnapped" => "snapshot" \notin parts[target[d]]

\* A container belongs to a restore that has come that far.
Launched == \A r \in Restores \cap containers : step[r] \in {"started"} \cup Ended

Core ==
    /\ Targets /\ Made /\ Apart /\ Taken /\ Launched
    /\ PublishedIsWhole /\ DependantsKeepTheirImage

\* A job other than a delete goes on: it changes what it has made itself, and
\* nothing of a template once that is settled.
Advances(o) ==
    /\ Active(o) /\ Active(o)'
    /\ \A p \in Ops : p # o => step'[p] = step[p] /\ parts'[p] = parts[p]
    /\ UNCHANGED target
    /\ Settled(o) => Settled(o)' /\ parts'[o] \cap Whole = parts[o] \cap Whole
    /\ templates \subseteq templates' /\ templates' \subseteq templates \cup {o}
    /\ o \in templates' \ templates => o \in Templates /\ Settled(o)' /\ Whole \subseteq parts'[o]
    /\ MadeBy(o)'

\* A restore makes a container of a template that has its image.
Launches(o) ==
    /\ containers' \subseteq containers \cup {o}
    /\ o \in containers' /\ o \in Restores => step'[o] \in {"started"} \cup Ended
    /\ o \in containers' \ containers =>
          o \in Restores /\ "templateTag" \in parts[target[o]]

\* A job that goes on keeps the invariant: nobody else works on what it changes.
LEMMA AdvancesCore ==
    ASSUME Base, Core, NEW o \in Ops \ Deletes, Advances(o), Launches(o)
    PROVE  Core'
<1>1. /\ Active(o) /\ Active(o)' /\ UNCHANGED target
      /\ \A p \in Ops : p # o => step'[p] = step[p] /\ parts'[p] = parts[p]
  BY DEF Advances
<1>2. /\ \A p \in Ops : Active(p)' <=> Active(p)
      /\ \A p \in Ops : Needs(p)' = Needs(p)
      /\ \A t \in Ops : Settled(t) => Settled(t)'
      /\ \A t \in Ops : Settled(t) => parts[t] \cap Whole \subseteq parts'[t]
      /\ Templates \subseteq Ops
  BY <1>1 DEF Active, Needs, Settled, Advances, Templates, Ops
<1>3. Targets'
  <2>1. \A p \in Uses : step'[p] # "none" => target'[p] # Nothing
    BY <1>1 DEF Core, Targets, Uses, Ops, Active, Idle
  <2>2. \A t \in templates' : Settled(t)'
    BY <1>2 DEF Core, Targets, Advances, Base, TypeOK
  <2> QED BY <1>1, <1>2, <2>1, <2>2 DEF Core, Targets
<1>4. Made'
  BY <1>1, <1>2 DEF Core, Made, MadeBy, Advances
<1>5. Apart'
  BY <1>2 DEF Core, Apart
<1>6. Taken'
  <2> SUFFICES ASSUME NEW d \in Deletes
               PROVE  /\ Active(d)' => step'[target'[d]] = "done"
                      /\ step'[d] \in DeleteStep => "templateTag" \notin parts'[target'[d]]
                      /\ step'[d] = "unsnapped" => "snapshot" \notin parts'[target'[d]]
    BY DEF Taken
  <2>1. d \in Ops /\ d # o /\ step'[d] = step[d]
    BY <1>1 DEF Ops
  <2>2. step[d] \in DeleteStep => Active(d)
    BY DEF DeleteStep, Active, Idle
  <2>3. Active(d) => target[d] \in Ops /\ step[target[d]] = "done" /\ target[d] # o
    BY <1>1, <1>2 DEF Core, Targets, Taken, Uses, Active, Idle
  <2> QED BY <1>1, <1>2, <2>1, <2>2, <2>3 DEF Core, Taken, DeleteStep
<1>7. Launched'
  BY <1>1 DEF Core, Launched, Launches, Ops
<1>8. PublishedIsWhole'
  <2> SUFFICES ASSUME NEW t \in templates'
               PROVE  \/ Whole \subseteq parts'[t]
                      \/ \E d \in Deletes :
                            target'[d] = t /\ step'[d] \notin {"none", "reserving"}
    BY DEF PublishedIsWhole
  <2>1. CASE t \notin templates
    BY <2>1 DEF Advances
  <2>2. CASE t \in templates
    <3>1. t \in Ops /\ Settled(t)
      BY <1>2, <2>2 DEF Core, Targets, Base, TypeOK
    <3>2. Whole \subseteq parts[t] => Whole \subseteq parts'[t]
      BY <1>2, <3>1
    <3>3. \A d \in Deletes : step'[d] = step[d] /\ target'[d] = target[d]
      BY <1>1 DEF Ops
    <3> QED BY <2>2, <3>2, <3>3 DEF Core, PublishedIsWhole
  <2> QED BY <2>1, <2>2
<1>9. DependantsKeepTheirImage'
  <2> SUFFICES ASSUME NEW e \in containers', e \in Restores, target[e] # Nothing
               PROVE  "templateTag" \in parts'[target[e]]
    BY <1>1 DEF DependantsKeepTheirImage, TemplateOf
  <2>1. "templateTag" \in parts[target[e]]
    BY DEF Launches, Core, DependantsKeepTheirImage, TemplateOf
  <2>2. target[e] \in Ops /\ Settled(target[e])
    BY <1>2 DEF Core, Targets, Uses
  <2> QED BY <1>2, <2>1, <2>2 DEF Whole
<1> QED BY <1>3, <1>4, <1>5, <1>6, <1>7, <1>8, <1>9 DEF Core

\* A create has made tag and snapshot when it inserts the row.
LEMMA CreateCore ==
    ASSUME Base, Core, NEW c \in Creates,
           CreateArchive(c) \/ CreateArchived(c) \/ CreateCommit(c) \/ CreatePublish(c)
    PROVE  Core' /\ Advances(c)
<1>1. /\ c \in Ops \ Deletes /\ c \in Templates /\ TypeOK /\ MadeBy(c) /\ c \notin Restores
  BY Kinds DEF Base, Ops, Templates, Core, Made
<1>2. UNCHANGED <<target, containers>>
  BY DEF CreateArchive, CreateArchived, CreateCommit, CreatePublish
<1>3. /\ step[c] \in {"begun"} \cup CreateStep
      /\ \E s \in {"finish"} \cup CreateStep : To(c, s)
      /\ Makes(c)
  BY <1>1 DEF CreateArchive, CreateArchived, CreateCommit, CreatePublish, Ends, CreateStep,
              Makes, Adds, Renames, TypeOK, Part
<1>4. /\ \A p \in Ops : p # c => step'[p] = step[p] /\ parts'[p] = parts[p]
      /\ Active(c) /\ Active(c)' /\ ~Settled(c)
  BY <1>1, <1>3, MakesParts DEF To, TypeOK, Active, Idle, Settled, Ended, CreateStep
<1>5. MadeBy(c)'
  BY <1>1 DEF CreateArchive, CreateArchived, CreateCommit, CreatePublish, Ends, To, Has, Adds,
              Renames, MadeBy, TypeOK
<1>6. /\ templates \subseteq templates' /\ templates' \subseteq templates \cup {c}
      /\ c \in templates' \ templates => Settled(c)' /\ Whole \subseteq parts'[c]
  BY <1>1 DEF CreateArchive, CreateArchived, CreateCommit, CreatePublish, Ends, To, MadeBy,
              Whole, Settled, Ended, TypeOK
<1>7. Advances(c)
  BY <1>1, <1>2, <1>4, <1>5, <1>6 DEF Advances
<1>8. Launches(c)
  BY <1>1, <1>2 DEF Launches
<1> QED BY <1>1, <1>7, <1>8, AdvancesCore

\* An import has made tag and snapshot when it inserts the row.
LEMMA ImportCore ==
    ASSUME Base, Core, NEW i \in Imports,
           \/ ImportExtract(i) \/ ImportLoad(i) \/ ImportTag(i) \/ ImportUntag(i)
           \/ ImportCopy(i) \/ ImportCopied(i) \/ ImportPublish(i) \/ ImportDiscard(i)
           \/ CleanTags(i)
    PROVE  Core' /\ Advances(i)
<1>1. i \in Ops \ Deletes /\ i \in Templates /\ TypeOK /\ MadeBy(i) /\ i \notin Restores
  BY Kinds DEF Base, Ops, Templates, Core, Made
<1>2. UNCHANGED <<target, containers>>
  BY DEF ImportExtract, ImportLoad, ImportTag, ImportUntag, ImportCopy, ImportCopied,
         ImportPublish, ImportDiscard, CleanTags
<1>3. /\ step[i] \in {"begun", "cleanTags"} \cup ImportStep
      /\ \E s \in {"finish", "cleanTags", "cleanFiles"} \cup ImportStep : To(i, s)
      /\ Makes(i)
  BY <1>1 DEF ImportExtract, ImportLoad, ImportTag, ImportUntag, ImportCopy, ImportCopied,
              ImportPublish, ImportDiscard, CleanTags, GivesUp, Ends, ImportStep,
              Makes, Adds, Renames, TypeOK, Part
<1>4. /\ \A p \in Ops : p # i => step'[p] = step[p] /\ parts'[p] = parts[p]
      /\ Active(i) /\ Active(i)' /\ (Settled(i) => step[i] = "published")
  BY <1>1, <1>3, MakesParts DEF To, TypeOK, Active, Idle, Settled, Ended, ImportStep
<1>5. MadeBy(i)' /\ (Settled(i) => Settled(i)' /\ parts'[i] \cap Whole = parts[i] \cap Whole)
  <2>1. CASE ImportUntag(i)
    <3>1. step[i] = "tagged" /\ step'[i] = "retagged"
      BY <1>1, <2>1 DEF ImportUntag, To, TypeOK
    <3>2. parts[i] \ {"stagingTag"} \subseteq parts'[i]
      BY <1>1, <2>1, DropsParts DEF ImportUntag
    <3> QED BY <1>1, <3>1, <3>2 DEF MadeBy, Settled, Ended
  <2>2. CASE ImportDiscard(i)
    <3>1. step[i] = "published" /\ step'[i] = "finish"
      BY <1>1, <2>2 DEF ImportDiscard, Ends, To, TypeOK
    <3>2. parts[i] \ {"workDir", "package"} \subseteq parts'[i] /\ parts'[i] \subseteq parts[i]
      BY <1>1, <2>2, DropsParts DEF ImportDiscard
    <3> QED BY <3>1, <3>2 DEF MadeBy, Settled, Ended, Whole
  <2>3. CASE CleanTags(i)
    BY <1>1, <2>3 DEF CleanTags, To, TypeOK, MadeBy, Settled, Ended
  <2>4. CASE ImportCopied(i)
    <3>1. CASE To(i, "copied") /\ Renames(i, "snapshotPartial", "snapshot")
      BY <1>1, <2>4, <3>1 DEF ImportCopied, To, Renames, Has, MadeBy, Settled, Ended, TypeOK
    <3>2. CASE GivesUp(i)
      BY <1>1, <2>4, <3>2 DEF ImportCopied, GivesUp, To, MadeBy, Settled, Ended, TypeOK
    <3> QED BY <2>4, <3>1, <3>2 DEF ImportCopied
  <2>5. CASE ImportExtract(i) \/ ImportLoad(i) \/ ImportTag(i) \/ ImportCopy(i) \/ ImportPublish(i)
    BY <1>1, <2>5
       DEF ImportExtract, ImportLoad, ImportTag, ImportCopy, ImportPublish, GivesUp, To, Adds, Has,
           MadeBy, Settled, Ended, TypeOK
  <2> QED BY <2>1, <2>2, <2>3, <2>4, <2>5
<1>6. /\ templates \subseteq templates' /\ templates' \subseteq templates \cup {i}
      /\ i \in templates' \ templates => Settled(i)' /\ Whole \subseteq parts'[i]
  BY <1>1 DEF ImportExtract, ImportLoad, ImportTag, ImportUntag, ImportCopy, ImportCopied,
              ImportPublish, ImportDiscard, CleanTags, To, MadeBy, Whole, Settled, TypeOK
<1>7. Advances(i)
  BY <1>1, <1>2, <1>4, <1>5, <1>6 DEF Advances
<1>8. Launches(i)
  BY <1>1, <1>2 DEF Launches
<1> QED BY <1>1, <1>7, <1>8, AdvancesCore

\* A transfer that gives up has inserted no row.
LEMMA TransferCore ==
    ASSUME Base, Core, NEW o \in Transfers, TransferGivesUp(o) \/ CleanFiles(o)
    PROVE  Core' /\ Advances(o)
<1>1. o \in Ops \ Deletes /\ o \notin Restores /\ TypeOK
  BY Kinds DEF Base, Ops, Transfers
<1>2. UNCHANGED <<target, templates, containers>>
  BY DEF TransferGivesUp, CleanFiles
<1>3. /\ step[o] \in ({"begun", "cleanFiles"} \cup ExportStep \cup ImportStep) \ {"published"}
      /\ \E s \in {"finish", "cleanTags", "cleanFiles"} : To(o, s)
      /\ Makes(o)
  BY DEF TransferGivesUp, CleanFiles, GivesUp, ExportStep, ImportStep, Makes
<1>4. /\ \A p \in Ops : p # o => step'[p] = step[p] /\ parts'[p] = parts[p]
      /\ Active(o) /\ Active(o)' /\ ~Settled(o) /\ MadeBy(o)'
  BY <1>1, <1>3, MakesParts
     DEF To, TypeOK, Active, Idle, Settled, Ended, ImportStep, ExportStep, MadeBy
<1>5. o \notin templates
  BY <1>4 DEF Core, Targets
<1>6. Advances(o) /\ Launches(o)
  BY <1>1, <1>2, <1>4, <1>5 DEF Advances, Launches
<1> QED BY <1>1, <1>6, AdvancesCore

\* An export changes its own files only.
LEMMA ExportCore ==
    ASSUME Base, Core, NEW x \in Exports,
           ExportSave(x) \/ ExportPack(x) \/ ExportPacked(x) \/ ExportDone(x)
    PROVE  Core' /\ Advances(x)
<1>1. x \in Ops \ Deletes /\ x \notin Restores /\ TypeOK
  BY Kinds DEF Base, Ops
<1>2. UNCHANGED <<target, templates, containers>>
  BY DEF ExportSave, ExportPack, ExportPacked, ExportDone
<1>3. /\ step[x] \in {"begun"} \cup ExportStep
      /\ \E s \in {"finish"} \cup ExportStep : To(x, s)
      /\ Makes(x)
  BY <1>1 DEF ExportSave, ExportPack, ExportPacked, ExportDone, Ends, ExportStep,
              Makes, Adds, Renames, TypeOK, Part
<1>4. /\ \A p \in Ops : p # x => step'[p] = step[p] /\ parts'[p] = parts[p]
      /\ Active(x) /\ Active(x)' /\ ~Settled(x) /\ MadeBy(x)'
  BY <1>1, <1>3, MakesParts
     DEF To, TypeOK, Active, Idle, Settled, Ended, ExportStep, MadeBy
<1>5. x \notin templates
  BY <1>4 DEF Core, Targets
<1>6. Advances(x) /\ Launches(x)
  BY <1>1, <1>2, <1>4, <1>5 DEF Advances, Launches
<1> QED BY <1>1, <1>6, AdvancesCore

\* A restore makes its container from an image that is there.
LEMMA RestoreCore ==
    ASSUME Base, Core, NEW r \in Restores,
           RestoreUnpack(r) \/ RestoreUnpacked(r) \/ RestoreStart(r) \/ RestoreRecord(r)
    PROVE  Core' /\ Advances(r)
<1>1. r \in Ops \ Deletes /\ TypeOK
  BY Kinds DEF Base, Ops
<1>2. UNCHANGED <<target, templates>>
  BY DEF RestoreUnpack, RestoreUnpacked, RestoreStart, RestoreRecord
<1>3. /\ step[r] \in {"begun"} \cup RestoreStep
      /\ \E s \in {"finish"} \cup RestoreStep : To(r, s)
      /\ Makes(r)
  BY <1>1 DEF RestoreUnpack, RestoreUnpacked, RestoreStart, RestoreRecord, Ends, RestoreStep,
              Makes, Adds, TypeOK, Part
<1>4. /\ \A p \in Ops : p # r => step'[p] = step[p] /\ parts'[p] = parts[p]
      /\ Active(r) /\ Active(r)' /\ ~Settled(r) /\ MadeBy(r)'
  BY <1>1, <1>3, MakesParts
     DEF To, TypeOK, Active, Idle, Settled, Ended, RestoreStep, MadeBy
<1>5. r \notin templates
  BY <1>4 DEF Core, Targets
<1>6. Advances(r)
  BY <1>1, <1>2, <1>4, <1>5 DEF Advances
<1>7. Launches(r)
  BY <1>1 DEF RestoreUnpack, RestoreUnpacked, RestoreStart, RestoreRecord, Ends, To, TypeOK,
              Launches, Ended, Core, Launched
<1> QED BY <1>1, <1>6, <1>7, AdvancesCore

\* A delete takes apart a template that nobody else works on.
LEMMA DeleteCore ==
    ASSUME Base, Core, NEW d \in Deletes, DeleteUntag(d) \/ DeleteSnapshot(d) \/ DeleteRow(d)
    PROVE  Core'
<1> DEFINE t == target[d]
<1>1. d \in Ops /\ d \notin Templates /\ d \notin Restores /\ TypeOK
  BY Kinds DEF Base, Ops, Templates
<1>2. /\ UNCHANGED <<target, containers>>
      /\ step[d] \in {"begun"} \cup DeleteStep
      /\ \E s \in {"finish"} \cup DeleteStep : To(d, s)
  BY <1>1 DEF DeleteUntag, DeleteSnapshot, DeleteRow, Ends, DeleteStep
<1>3. /\ \A p \in Ops : p # d => step'[p] = step[p]
      /\ Active(d) /\ step'[d] \in {"finish"} \cup DeleteStep
  BY <1>1, <1>2 DEF To, TypeOK, Active, Idle, DeleteStep
<1>4. t \in Ops /\ t # d /\ t \in Templates /\ step[t] = "done" /\ step'[t] = "done"
  BY <1>1, <1>3 DEF Core, Targets, Taken, Uses, Active, Idle, Templates, Ops
<1>5. /\ \A p \in Ops : p # t => parts'[p] = parts[p]
      /\ \A p \in Ops : parts'[p] \subseteq parts[p]
      /\ DeleteUntag(d) /\ step'[d] = "untagged" => "templateTag" \notin parts'[t]
      /\ DeleteSnapshot(d) /\ step'[d] = "unsnapped" => "snapshot" \notin parts'[t]
      /\ step'[d] = "untagged" => DeleteUntag(d)
      /\ step'[d] = "unsnapped" => DeleteSnapshot(d)
      /\ ~DeleteUntag(d) /\ "templateTag" \in parts[t] => "templateTag" \in parts'[t]
  BY <1>1, <1>4 DEF DeleteUntag, DeleteSnapshot, DeleteRow, Has, Ends, To, TypeOK
<1>6. /\ \A p \in Ops : Active(p)' <=> Active(p)
      /\ \A p \in Ops : Needs(p)' = Needs(p)
      /\ \A p \in Templates : Settled(p)' <=> Settled(p)
      /\ Templates \subseteq Ops /\ Uses \subseteq Ops
  BY <1>1, <1>2, <1>3 DEF Active, Needs, Settled, Templates, Ops, Uses, Idle, DeleteStep
<1> HIDE DEF t
<1>7. templates' \subseteq templates
  BY DEF DeleteUntag, DeleteSnapshot, DeleteRow
<1>8. Targets'
  BY <1>2, <1>3, <1>6, <1>7 DEF Core, Targets, Base, TypeOK, Active, Idle
<1>9. Made'
  BY <1>1, <1>3, <1>4, <1>5, <1>6 DEF Core, Made, MadeBy
<1>10. Apart'
  BY <1>6 DEF Core, Apart
<1>11. Taken'
  <2> SUFFICES ASSUME NEW f \in Deletes
               PROVE  /\ Active(f)' => step'[target'[f]] = "done"
                      /\ step'[f] \in DeleteStep => "templateTag" \notin parts'[target'[f]]
                      /\ step'[f] = "unsnapped" => "snapshot" \notin parts'[target'[f]]
    BY DEF Taken
  <2>1. f \in Ops /\ (Active(f) => target[f] \in Ops /\ target[f] # d)
    BY <1>1, <1>6 DEF Core, Targets, Uses, Active, Idle, Ops
  <2>2. step[f] \in DeleteStep => Active(f)
    BY DEF DeleteStep, Active, Idle
  <2>3. CASE f # d
    BY <1>2, <1>3, <1>5, <1>6, <2>1, <2>2, <2>3 DEF Core, Taken, DeleteStep
  <2>4. CASE f = d
    <3>1. target'[d] = t /\ step'[t] = "done"
      BY <1>2, <1>4 DEF t
    <3>2. step'[d] = "unsnapped" => "templateTag" \notin parts[t]
      BY <1>5 DEF DeleteSnapshot, Core, Taken, DeleteStep, t
    <3> QED BY <1>4, <1>5, <2>4, <3>1, <3>2 DEF DeleteStep
  <2> QED BY <2>3, <2>4
<1>12. Launched'
  BY <1>1, <1>2, <1>3 DEF Core, Launched, Ops
<1>13. PublishedIsWhole'
  <2> SUFFICES ASSUME NEW u \in templates'
               PROVE  \/ Whole \subseteq parts'[u]
                      \/ \E f \in Deletes :
                            target'[f] = u /\ step'[f] \notin {"none", "reserving"}
    BY DEF PublishedIsWhole
  <2>1. CASE u = t
    BY <1>2, <1>3, <2>1 DEF t, DeleteStep
  <2>2. CASE u # t
    <3>1. u \in templates /\ u \in Ops
      BY <1>6, <1>7 DEF Base, TypeOK
    <3>2. \A f \in Deletes : step[f] \notin {"none", "reserving"} =>
                                 step'[f] \notin {"none", "reserving"}
      BY <1>3 DEF Ops, DeleteStep
    <3> QED BY <1>2, <1>5, <2>2, <3>1, <3>2 DEF Core, PublishedIsWhole
  <2> QED BY <2>1, <2>2
<1>14. DependantsKeepTheirImage'
  <2> SUFFICES ASSUME NEW e \in containers, TemplateOf(e) # Nothing
               PROVE  "templateTag" \in parts'[TemplateOf(e)]
    BY <1>2 DEF DependantsKeepTheirImage, TemplateOf
  <2>1. "templateTag" \in parts[TemplateOf(e)] /\ TemplateOf(e) \in Ops
    BY <1>6 DEF Core, DependantsKeepTheirImage, TemplateOf, Targets, Uses
  <2>2. CASE TemplateOf(e) # t
    BY <1>5, <2>1, <2>2
  <2>3. CASE TemplateOf(e) = t /\ ~DeleteUntag(d)
    BY <1>5, <2>1, <2>3
  <2>4. CASE TemplateOf(e) = t /\ DeleteUntag(d)
    BY <2>1, <2>4 DEF DeleteUntag, t
  <2> QED BY <2>2, <2>3, <2>4
<1> QED BY <1>8, <1>9, <1>10, <1>11, <1>12, <1>13, <1>14 DEF Core

\* A job that is asked for has nothing to lose yet.
LEMMA RequestCore ==
    ASSUME Base, Core, NEW o \in Ops, NEW t, Requested(o, t), o \in Uses => t \in templates
    PROVE  Core'
<1>1. /\ TypeOK /\ step[o] = "none" /\ step'[o] = "reserving" /\ target'[o] = t
      /\ \A p \in Ops : p # o => step'[p] = step[p] /\ target'[p] = target[p]
      /\ UNCHANGED <<parts, templates, containers>>
  BY DEF Base, TypeOK, Requested, To
<1>2. /\ \A p \in Ops : Active(p)' <=> Active(p)
      /\ \A p \in Ops : Active(p) => p # o /\ Needs(p)' = Needs(p)
      /\ \A p \in Ops : Settled(p)' <=> Settled(p)
      /\ Templates \subseteq Ops /\ Uses \subseteq Ops
  BY <1>1 DEF Active, Needs, Settled, Templates, Ops, Uses, Idle, Ended
<1>3. \A e \in containers : e \in Restores => e # o /\ e \in Ops
  BY <1>1 DEF Core, Launched, Ended, Ops
<1>4. Targets'
  <2>1. \A p \in Uses : target'[p] # Nothing => target'[p] \in Templates /\ Settled(target'[p])
    BY <1>1, <1>2 DEF Core, Targets, Base, TypeOK
  <2>2. \A p \in Uses : step'[p] # "none" => target'[p] # Nothing
    BY <1>1, <1>2, Kinds DEF Core, Targets, Base, TypeOK
  <2> QED BY <1>1, <1>2, <2>1, <2>2 DEF Core, Targets, Base, TypeOK
<1>5. Made'
  BY <1>1, <1>2 DEF Core, Made, MadeBy
<1>6. Apart'
  BY <1>2 DEF Core, Apart
<1>7. Taken'
  <2> SUFFICES ASSUME NEW d \in Deletes
               PROVE  /\ Active(d)' => step'[target'[d]] = "done"
                      /\ step'[d] \in DeleteStep => "templateTag" \notin parts'[target'[d]]
                      /\ step'[d] = "unsnapped" => "snapshot" \notin parts'[target'[d]]
    BY DEF Taken
  <2>1. d \in Ops /\ (Active(d) => target[d] \in Ops)
    BY <1>1, <1>2 DEF Core, Targets, Uses, Active, Idle, Ops
  <2>2. /\ step'[d] \in DeleteStep => step[d] \in DeleteStep /\ Active(d)
        /\ step'[d] = "unsnapped" => step[d] = "unsnapped"
    BY <1>1, <2>1 DEF DeleteStep, Active, Idle
  <2> QED BY <1>1, <1>2, <2>1, <2>2 DEF Core, Taken, DeleteStep
<1>8. Launched'
  BY <1>1, <1>3 DEF Core, Launched
<1>9. PublishedIsWhole'
  BY <1>1 DEF Core, PublishedIsWhole, Ops
<1>10. DependantsKeepTheirImage'
  BY <1>1, <1>3 DEF Core, DependantsKeepTheirImage, TemplateOf
<1> QED BY <1>4, <1>5, <1>6, <1>7, <1>8, <1>9, <1>10 DEF Core

\* A job that begins has a target nobody works on; one that is refused forgets its own.
LEMMA ReserveCore == ASSUME Base, Core, NEW o \in Ops, Reserve(o) PROVE Core'
<1>1. /\ TypeOK /\ step[o] = "reserving" /\ step'[o] \in {"none", "begun"}
      /\ \A p \in Ops : p # o => step'[p] = step[p] /\ target'[p] = target[p]
      /\ step'[o] = "begun" => target'[o] = target[o] /\ Needs(o) \cap Busy = {}
      /\ step'[o] = "none" => target'[o] = Nothing
      /\ UNCHANGED <<parts, templates, containers>>
  BY DEF Base, TypeOK, Reserve, To
<1>2. /\ \A p \in Ops : p # o => (Active(p)' <=> Active(p)) /\ Needs(p)' = Needs(p)
      /\ Active(o)' <=> step'[o] = "begun"
      /\ Active(o)' => Needs(o)' = Needs(o)
      /\ \A p \in Ops : Settled(p)' <=> Settled(p)
      /\ Templates \subseteq Ops /\ Uses \subseteq Ops
  BY <1>1 DEF Active, Needs, Settled, Templates, Ops, Uses, Idle, Ended
<1>3. \A e \in containers : e \in Restores => e # o /\ e \in Ops
  BY <1>1 DEF Core, Launched, Ended, Ops
<1>4. Targets'
  BY <1>1, <1>2 DEF Core, Targets, Base, TypeOK
<1>5. Made'
  BY <1>1, <1>2 DEF Core, Made, MadeBy
<1>6. \A p \in Ops : Active(p) => Needs(p) \subseteq Busy /\ p \in Busy
  BY DEF Busy, Needs
<1>7. Apart'
  <2>1. \A p \in Ops : Active(o)' /\ Active(p) => Needs(o) \cap Needs(p) = {}
    BY <1>1, <1>2, <1>6
  <2> QED BY <1>2, <2>1 DEF Core, Apart
<1>8. Taken'
  <2> SUFFICES ASSUME NEW d \in Deletes
               PROVE  /\ Active(d)' => step'[target'[d]] = "done"
                      /\ step'[d] \in DeleteStep => "templateTag" \notin parts'[target'[d]]
                      /\ step'[d] = "unsnapped" => "snapshot" \notin parts'[target'[d]]
    BY DEF Taken
  <2>1. CASE d # o
    <3>1. d \in Ops /\ (Active(d) => target[d] \in Ops)
      BY <1>2 DEF Core, Targets, Uses, Active, Idle, Ops
    <3>2. /\ step'[d] \in DeleteStep => step[d] \in DeleteStep /\ Active(d)
          /\ step'[d] = "unsnapped" => step[d] = "unsnapped"
      BY <1>1, <2>1, <3>1 DEF DeleteStep, Active, Idle
    <3> QED BY <1>1, <1>2, <2>1, <3>1, <3>2 DEF Core, Taken, DeleteStep
  <2>2. CASE d = o
    <3>1. target[o] \in Templates /\ Settled(target[o]) /\ target[o] \in Ops
      BY <1>1, <1>2, <2>2 DEF Core, Targets, Uses
    <3>2. target[o] \in Needs(o)
      BY <3>1, Kinds DEF Needs
    <3>3. step'[o] = "begun" => ~Active(target[o])
      BY <1>1, <1>6, <3>1, <3>2
    <3>4. step'[o] = "begun" => step[target[o]] = "done"
      BY <3>1, <3>3 DEF Settled, Active, Idle, Ended
    <3> QED BY <1>1, <1>2, <2>2, <3>1, <3>4 DEF DeleteStep
  <2> QED BY <2>1, <2>2
<1>9. Launched'
  BY <1>1, <1>3 DEF Core, Launched
<1>10. PublishedIsWhole'
  BY <1>1 DEF Core, PublishedIsWhole, Ops
<1>11. DependantsKeepTheirImage'
  BY <1>1, <1>3 DEF Core, DependantsKeepTheirImage, TemplateOf
<1> QED BY <1>4, <1>5, <1>7, <1>8, <1>9, <1>10, <1>11 DEF Core

\* A job that ends releases its names.
LEMMA FinishCore == ASSUME Base, Core, NEW o \in Ops, Finish(o) PROVE Core'
<1>1. /\ TypeOK /\ step[o] = "finish" /\ step'[o] = "done"
      /\ \A p \in Ops : p # o => step'[p] = step[p]
      /\ UNCHANGED <<target, parts, templates, containers>>
  BY DEF Base, TypeOK, Finish, To
<1>2. /\ \A p \in Ops : Active(p)' <=> Active(p) /\ p # o
      /\ \A p \in Ops : Needs(p)' = Needs(p)
      /\ \A p \in Ops : Settled(p)' <=> Settled(p)
      /\ Templates \subseteq Ops /\ Uses \subseteq Ops
  BY <1>1 DEF Active, Needs, Settled, Templates, Ops, Uses, Idle, Ended
<1>3. Targets'
  BY <1>1, <1>2 DEF Core, Targets, Base, TypeOK
<1>4. Made'
  BY <1>1, <1>2 DEF Core, Made, MadeBy
<1>5. Apart'
  BY <1>2 DEF Core, Apart
<1>6. Taken'
  <2> SUFFICES ASSUME NEW d \in Deletes
               PROVE  /\ Active(d)' => step'[target'[d]] = "done"
                      /\ step'[d] \in DeleteStep => "templateTag" \notin parts'[target'[d]]
                      /\ step'[d] = "unsnapped" => "snapshot" \notin parts'[target'[d]]
    BY DEF Taken
  <2>1. d \in Ops /\ (Active(d) => target[d] \in Ops)
    BY <1>2 DEF Core, Targets, Uses, Active, Idle, Ops
  <2>2. /\ step'[d] \in DeleteStep => step[d] \in DeleteStep
        /\ step'[d] = "unsnapped" => step[d] = "unsnapped"
    BY <1>1, <2>1 DEF DeleteStep
  <2> QED BY <1>1, <1>2, <2>1, <2>2 DEF Core, Taken
<1>7. Launched'
  BY <1>1 DEF Core, Launched, Ended, Ops
<1>8. PublishedIsWhole'
  BY <1>1 DEF Core, PublishedIsWhole, Ops
<1>9. DependantsKeepTheirImage'
  BY <1>1 DEF Core, DependantsKeepTheirImage, TemplateOf
<1> QED BY <1>3, <1>4, <1>5, <1>6, <1>7, <1>8, <1>9 DEF Core

\* Steps beside the jobs: they may take a directory of an environment and containers.
LEMMA BesideCore ==
    ASSUME Base, Core, UNCHANGED <<jobs, templates>>, containers' \subseteq containers,
           \A p \in Ops : parts'[p] \subseteq parts[p] /\ parts[p] \cap Whole \subseteq parts'[p]
    PROVE  Core'
<1>1. /\ \A p \in Ops : (Active(p)' <=> Active(p)) /\ Needs(p)' = Needs(p)
      /\ \A p \in Ops : Settled(p)' <=> Settled(p)
      /\ Templates \subseteq Ops /\ Uses \subseteq Ops
  BY DEF Active, Needs, Settled, Templates, Ops, Uses
<1>2. Targets'
  BY <1>1 DEF Core, Targets, Base, TypeOK
<1>3. Made'
  BY <1>1 DEF Core, Made, MadeBy, Whole
<1>4. Apart'
  BY <1>1 DEF Core, Apart
<1>5. Taken'
  <2>1. \A d \in Deletes : d \in Ops /\ (Active(d) => target[d] \in Ops)
    BY <1>1 DEF Core, Targets, Uses, Active, Idle, Ops
  <2>2. \A d \in Deletes : step[d] \in DeleteStep => Active(d)
    BY DEF DeleteStep, Active, Idle
  <2> QED BY <1>1, <2>1, <2>2 DEF Core, Taken, DeleteStep
<1>6. Launched'
  BY DEF Core, Launched
<1>7. PublishedIsWhole'
  BY <1>1 DEF Core, PublishedIsWhole, Base, TypeOK
<1>8. DependantsKeepTheirImage'
  <2> SUFFICES ASSUME NEW e \in containers, e \in Restores, target[e] # Nothing
               PROVE  "templateTag" \in parts'[target[e]]
    BY DEF DependantsKeepTheirImage, TemplateOf
  <2>1. target[e] \in Ops
    BY <1>1 DEF Core, Targets, Uses
  <2>2. "templateTag" \in parts[target[e]]
    BY DEF Core, DependantsKeepTheirImage, TemplateOf
  <2> QED BY <2>1, <2>2 DEF Whole
<1> QED BY <1>2, <1>3, <1>4, <1>5, <1>6, <1>7, <1>8 DEF Core

\* A removal of an environment takes a container and its directory.
LEMMA EnvironmentCore == ASSUME Base, Core, NEW e \in Environments, Environment(e) PROVE Core'
<1>1. /\ UNCHANGED <<jobs, templates>> /\ containers' \subseteq containers
      /\ UNCHANGED parts \/ (e \in Restores /\ Has(e, parts[e] \ {"configDir"}))
  BY DEF Environment, EnvRequest, EnvStart, EnvStop, EnvRemove, EnvRemoveRow
<1>2. \A p \in Ops : parts'[p] \subseteq parts[p] /\ parts[p] \cap Whole \subseteq parts'[p]
  BY <1>1, HasParts DEF Base, TypeOK, Ops, Whole
<1> QED BY <1>1, <1>2, BesideCore

\* A crash ends the jobs under way; what is published and what was asked of it stay.
LEMMA CrashCore == ASSUME Base, Core, CrashAndRestart PROVE Core'
<1>1. /\ TypeOK /\ UNCHANGED <<templates, containers>>
      /\ \A o \in Ops : /\ step'[o] \in {"none", "done"}
                        /\ step'[o] = "done" <=> step[o] \notin {"none", "reserving"}
                        /\ target'[o] = IF step[o] = "reserving" THEN Nothing ELSE target[o]
                        /\ parts'[o] = parts[o] \ {"workDir", "packagePartial"}
  BY DEF Base, TypeOK, CrashAndRestart, Active, Idle
<1>2. /\ \A p \in Ops : ~Active(p)'
      /\ \A p \in Ops : Settled(p) => Settled(p)'
      /\ Templates \subseteq Ops /\ Uses \subseteq Ops
  BY <1>1 DEF Active, Settled, Templates, Ops, Uses, Idle, Ended
<1>3. Targets'
  BY <1>1, <1>2 DEF Core, Targets, Base, TypeOK
<1>4. Made' /\ Apart' /\ Taken'
  BY <1>1, <1>2 DEF Made, MadeBy, Apart, Taken, DeleteStep, Ops
<1>5. Launched'
  BY <1>1 DEF Core, Launched, Ended, Ops
<1>6. PublishedIsWhole'
  <2> SUFFICES ASSUME NEW t \in templates
               PROVE  \/ Whole \subseteq parts'[t]
                      \/ \E d \in Deletes :
                            target'[d] = t /\ step'[d] \notin {"none", "reserving"}
    BY <1>1 DEF PublishedIsWhole
  <2>1. t \in Ops
    BY <1>1, <1>2 DEF TypeOK
  <2>2. CASE Whole \subseteq parts[t]
    BY <1>1, <2>1, <2>2 DEF Whole
  <2>3. ASSUME NEW d \in Deletes, target[d] = t, step[d] \notin {"none", "reserving"}
        PROVE  target'[d] = t /\ step'[d] \notin {"none", "reserving"}
    BY <1>1, <2>3 DEF Ops
  <2> QED BY <2>2, <2>3 DEF Core, PublishedIsWhole
<1>7. DependantsKeepTheirImage'
  <2> SUFFICES ASSUME NEW e \in containers, e \in Restores, target'[e] # Nothing
               PROVE  "templateTag" \in parts'[target'[e]]
    BY <1>1 DEF DependantsKeepTheirImage, TemplateOf
  <2>1. target'[e] = target[e] /\ target[e] \in Ops
    BY <1>1, <1>2 DEF Core, Targets, Uses
  <2>2. "templateTag" \in parts[target[e]]
    BY <2>1 DEF Core, DependantsKeepTheirImage, TemplateOf
  <2> QED BY <1>1, <2>1, <2>2
<1> QED BY <1>3, <1>4, <1>5, <1>6, <1>7 DEF Core

\* At first there are no templates.
LEMMA InitCore == Init => Core
<1> SUFFICES ASSUME Init PROVE Core
  OBVIOUS
<1>1. /\ \A o \in Ops : step[o] = "none" /\ target[o] = Nothing
      /\ templates = {} /\ containers \cap Restores = {}
      /\ Uses \subseteq Ops /\ Templates \subseteq Ops
  BY TemplateStoreAssumption, Kinds DEF Init, Mode, Uses, Templates, Ops
<1>2. Targets /\ Made /\ Apart /\ Taken /\ Launched
  BY <1>1 DEF Targets, Made, MadeBy, Apart, Active, Idle, Taken, DeleteStep, Launched, Uses, Ops
<1>3. PublishedIsWhole /\ DependantsKeepTheirImage
  BY <1>1 DEF PublishedIsWhole, DependantsKeepTheirImage, TemplateOf
<1> QED BY <1>2, <1>3 DEF Core

\* Every step keeps the invariant.
LEMMA NextCore == Base /\ Core /\ [Next]_vars => Core'
<1> SUFFICES ASSUME Base, Core, [Next]_vars PROVE Core'
  OBVIOUS
<1>1. ASSUME NEW c \in Creates, Create(c) PROVE Core'
  <2>1. c \in Ops \ Uses
    BY Kinds DEF Ops, Uses
  <2> QED BY <1>1, <2>1, CreateCore, RequestCore DEF Create, RequestCreate
<1>2. ASSUME NEW i \in Imports, Import(i) PROVE Core'
  <2>1. i \in Ops \ Uses
    BY Kinds DEF Ops, Uses
  <2> QED BY <1>2, <2>1, ImportCore, RequestCore DEF Import, RequestImport
<1>3. ASSUME NEW x \in Exports, Export(x) PROVE Core'
  BY <1>3, ExportCore, RequestCore DEF Export, RequestExport, Ops
<1>4. ASSUME NEW r \in Restores, Restore(r) PROVE Core'
  BY <1>4, RestoreCore, RequestCore DEF Restore, RequestRestore, Ops
<1>5. ASSUME NEW d \in Deletes, Delete(d) PROVE Core'
  BY <1>5, DeleteCore, RequestCore DEF Delete, RequestDelete, Ops
<1>6. ASSUME NEW o \in Transfers, Cancel(o) PROVE Core'
  BY <1>6, BesideCore DEF Cancel
<1>7. CASE UNCHANGED vars
  BY <1>7, BesideCore DEF vars
<1> QED BY <1>1, <1>2, <1>3, <1>4, <1>5, <1>6, <1>7, TransferCore, ReserveCore, FinishCore,
           EnvironmentCore, CrashCore DEF Next

\* The inductive invariant.
THEOREM CoreCorrect == Spec => [](Base /\ Core)
<1>1. Init => Base /\ Core
  BY InitBase, InitCore
<1>2. Base /\ Core /\ [Next]_vars => (Base /\ Core)'
  BY NextBase, NextCore
<1> QED BY <1>1, <1>2, PTL DEF Spec

\* A row of `templates` has its image tag and its snapshot until a delete of it has begun.
THEOREM PublishedIsWholeCorrect == Spec => []PublishedIsWhole
<1>1. Base /\ Core => PublishedIsWhole
  BY DEF Core
<1> QED BY <1>1, CoreCorrect, PTL

\* A container made from a template keeps the image it was made from.
THEOREM DependantsKeepTheirImageCorrect == Spec => []DependantsKeepTheirImage
<1>1. Base /\ Core => DependantsKeepTheirImage
  BY DEF Core
<1> QED BY <1>1, CoreCorrect, PTL

-----------------------------------------------------------------------------
(* What is left where nothing fails *)

\* What a job has made so far.
CreateMade(c) ==
    /\ step[c] \in Early => parts[c] = {}
    /\ step[c] = "archiving" => parts[c] \subseteq {"snapshotPartial"}
    /\ step[c] = "archived" => parts[c] \subseteq {"snapshot"}
    /\ step[c] = "committed" => parts[c] \subseteq Whole
ImportMade(i) ==
    /\ "configDir" \notin parts[i]
    /\ step[i] \in Early => parts[i] \subseteq {"package"}
    /\ step[i] = "extracted" => parts[i] \subseteq {"package", "workDir"}
    /\ step[i] \in {"loaded", "tagged"} =>
          parts[i] \subseteq {"package", "workDir", "stagingTag", "templateTag"}
    /\ step[i] = "retagged" => parts[i] \subseteq {"package", "workDir", "templateTag"}
    /\ step[i] = "copying" =>
          parts[i] \subseteq {"package", "workDir", "templateTag", "snapshotPartial"}
    /\ step[i] \in {"copied", "published"} => parts[i] \subseteq {"package", "workDir"} \cup Whole
    /\ step[i] = "published" => i \in templates
    /\ step[i] = "cleanFiles" => {"stagingTag", "templateTag"} \cap parts[i] = {}
ExportMade(x) ==
    /\ step[x] \in Early => parts[x] = {}
    /\ step[x] = "saving" => parts[x] \subseteq {"workDir"}
    /\ step[x] = "packing" => parts[x] \subseteq {"workDir", "packagePartial"}
    /\ step[x] = "packed" => parts[x] \subseteq {"workDir", "package"}
    /\ step[x] = "cleanFiles" => parts[x] \subseteq {"workDir", "packagePartial", "package"}
    /\ step[x] \in Ended =>
          parts[x] \subseteq {"package"} /\ (outcome[x] # "succeeded" => parts[x] = {})
RestoreMade(r) ==
    /\ step[r] \in Early => parts[r] = {}
    /\ step[r] \in RestoreStep => parts[r] \subseteq {"configDir"}
    /\ step[r] \in Ended =>
          parts[r] \subseteq {"configDir"} /\ (outcome[r] # "succeeded" => parts[r] = {})
TemplateMade(t) ==
    step[t] \in Ended => parts[t] \subseteq Whole /\ (t \notin templates => parts[t] = {})
HasMade(o) ==
    /\ o \in Creates => CreateMade(o)
    /\ o \in Imports => ImportMade(o)
    /\ o \in Templates => TemplateMade(o)
    /\ o \in Exports => ExportMade(o)
    /\ o \in Restores => RestoreMade(o)
    /\ o \in Deletes => parts[o] = {}
Within == \A o \in Ops : HasMade(o)

\* A container has its row or a restore about to insert it, also while its environment
\* is removed.
Paired ==
    /\ \A e \in containers : e \in environments \/ (e \in Restores /\ step[e] = "started")
    /\ \A e \in Environments : visit[e] = "removeRow" => e \notin containers
    /\ \A r \in Restores : r \in environments \/ visit[r] # "none" => step[r] \in Ended

Undisturbed == mode.faults = {} /\ mode.crashes = 0
Tidy == Undisturbed => Within /\ Paired

\* A step of one job leaves the others what they have, or takes of it; a template whose
\* row goes has nothing any more.
LEMMA WithinFrame ==
    ASSUME Base, Within, NEW o \in Ops, HasMade(o)',
           \A p \in Ops \ {o} :
              /\ step'[p] = step[p] /\ outcome'[p] = outcome[p] /\ parts'[p] \subseteq parts[p]
              /\ p \in templates' => p \in templates
              /\ p \in templates \ templates' => step[p] = "done" /\ parts'[p] = {}
    PROVE  Within'
<1> SUFFICES ASSUME NEW p \in Ops, p # o PROVE HasMade(p)'
  BY DEF Within
<1>1. /\ step'[p] = step[p] /\ outcome'[p] = outcome[p] /\ parts'[p] \subseteq parts[p]
      /\ p \in templates' => p \in templates
      /\ p \in templates \ templates' => step[p] = "done" /\ parts'[p] = {}
      /\ HasMade(p)
  BY DEF Within
<1>2. p \in Creates => CreateMade(p)'
  BY <1>1 DEF HasMade, CreateMade
<1>3. p \in Imports => ImportMade(p)'
  BY <1>1 DEF HasMade, ImportMade
<1>4. p \in Templates => TemplateMade(p)'
  BY <1>1 DEF HasMade, TemplateMade
<1>5. p \in Exports => ExportMade(p)'
  BY <1>1 DEF HasMade, ExportMade
<1>6. p \in Restores => RestoreMade(p)'
  BY <1>1 DEF HasMade, RestoreMade
<1> QED BY <1>1, <1>2, <1>3, <1>4, <1>5, <1>6 DEF HasMade

\* A step of a job, and what it must show of its own parts.
LEMMA WithinStep ==
    ASSUME Base, Within, NEW o \in Ops, NEW s \in Step, JobStep(o, s),
           \A p \in Ops : p # o => parts'[p] = parts[p],
           templates \subseteq templates', templates' \subseteq templates \cup {o},
           HasMade(o)'
    PROVE  Within'
<1>1. \A p \in Ops : p # o => step'[p] = step[p] /\ outcome'[p] = outcome[p]
  BY DEF JobStep, To, Base, TypeOK
<1> QED BY <1>1, WithinFrame

\* A create leaves its template or nothing.
LEMMA CreateWithin ==
    ASSUME Base, Core, Within, mode.faults = {}, NEW c \in Creates,
           CreateArchive(c) \/ CreateArchived(c) \/ CreateCommit(c) \/ CreatePublish(c)
    PROVE  Within'
<1>1. /\ c \in Ops /\ c \in Templates /\ TypeOK /\ CreateMade(c)
      /\ c \notin Imports \cup Exports \cup Restores \cup Deletes
  BY Kinds DEF Base, Ops, Templates, Within, HasMade
<1>2. \E s \in Step : JobStep(c, s)
  BY <1>1 DEF CreateArchive, CreateArchived, CreateCommit, CreatePublish, Ends, JobStep,
              CreateStep, Step, Over, Outcome
<1>3. Makes(c)
  BY <1>1 DEF CreateArchive, CreateArchived, CreateCommit, CreatePublish, Makes, Adds, Renames,
              TypeOK, Part
<1>4. templates \subseteq templates' /\ templates' \subseteq templates \cup {c}
  BY DEF CreateArchive, CreateArchived, CreateCommit, CreatePublish
<1>5. HasMade(c)'
  <2>1. CASE CreateArchive(c)
    BY <1>1, <2>1
       DEF CreateArchive, Ends, To, Adds, Has, TypeOK, HasMade, CreateMade, TemplateMade,
           Early, Ended
  <2>2. CASE CreateArchived(c)
    BY <1>1, <2>2
       DEF CreateArchived, Ends, To, Renames, Has, TypeOK, HasMade, CreateMade, TemplateMade,
           Early, Ended
  <2>3. CASE CreateCommit(c)
    <3>1. CASE To(c, "committed") /\ Adds(c, "templateTag")
      BY <1>1, <2>3, <3>1
         DEF CreateCommit, To, Adds, Has, TypeOK, HasMade, CreateMade, TemplateMade, Early, Ended,
             Whole
    <3>2. CASE Ends(c, "failed") /\ Drops(c, {"snapshot"})
      <4>1. parts'[c] = {}
        BY <1>1, <2>3, <3>2, DropsParts DEF CreateCommit, CreateMade
      <4> QED BY <1>1, <3>2, <4>1
                 DEF Ends, To, TypeOK, HasMade, CreateMade, TemplateMade, Early, Ended
    <3> QED BY <2>3, <3>1, <3>2 DEF CreateCommit
  <2>4. CASE CreatePublish(c)
    <3>1. CASE templates' = templates \cup {c} /\ Ends(c, "succeeded") /\ UNCHANGED parts
      BY <1>1, <2>4, <3>1
         DEF CreatePublish, Ends, To, TypeOK, HasMade, CreateMade, TemplateMade, Early, Ended
    <3>2. CASE Ends(c, "failed") /\ Drops(c, Whole)
      <4>1. parts'[c] = {}
        BY <1>1, <2>4, <3>2, DropsParts DEF CreatePublish, CreateMade
      <4> QED BY <1>1, <3>2, <4>1
                 DEF Ends, To, TypeOK, HasMade, CreateMade, TemplateMade, Early, Ended
    <3> QED BY <2>4, <3>1, <3>2 DEF CreatePublish
  <2> QED BY <2>1, <2>2, <2>3, <2>4
<1> QED BY <1>1, <1>2, <1>3, <1>4, <1>5, MakesParts, WithinStep

\* An import leaves its template or nothing.
LEMMA ImportWithin ==
    ASSUME Base, Core, Within, mode.faults = {}, NEW i \in Imports,
           \/ ImportExtract(i) \/ ImportLoad(i) \/ ImportTag(i) \/ ImportUntag(i)
           \/ ImportCopy(i) \/ ImportCopied(i) \/ ImportPublish(i) \/ ImportDiscard(i)
           \/ CleanTags(i)
    PROVE  Within'
<1>1. /\ i \in Ops /\ i \in Templates /\ TypeOK /\ ImportMade(i)
      /\ i \notin Creates \cup Exports \cup Restores \cup Deletes
  BY Kinds DEF Base, Ops, Templates, Within, HasMade
<1>2. \E s \in Step : JobStep(i, s)
  BY <1>1 DEF ImportExtract, ImportLoad, ImportTag, ImportUntag, ImportCopy, ImportCopied,
              ImportPublish, ImportDiscard, CleanTags, GivesUp, Ends, JobStep,
              ImportStep, Step, Over, Outcome
<1>3. Makes(i)
  BY <1>1 DEF ImportExtract, ImportLoad, ImportTag, ImportUntag, ImportCopy, ImportCopied,
              ImportPublish, ImportDiscard, CleanTags, Makes, Adds, Renames, TypeOK, Part
<1>4. templates \subseteq templates' /\ templates' \subseteq templates \cup {i}
  BY DEF ImportExtract, ImportLoad, ImportTag, ImportUntag, ImportCopy, ImportCopied,
         ImportPublish, ImportDiscard, CleanTags
<1>5. HasMade(i)'
  <2> SUFFICES ImportMade(i)' /\ TemplateMade(i)'
    BY <1>1 DEF HasMade
  <2>1. CASE ImportUntag(i)
    <3>1. step[i] = "tagged" /\ step'[i] = "retagged" /\ parts'[i] = parts[i] \ {"stagingTag"}
      BY <1>1, <2>1, DropsParts DEF ImportUntag, To, TypeOK
    <3> QED BY <1>1, <3>1 DEF ImportMade, TemplateMade, Early, Ended
  <2>2. CASE ImportDiscard(i)
    <3>1. /\ step[i] = "published" /\ step'[i] = "finish" /\ templates' = templates
          /\ parts'[i] = parts[i] \ {"workDir", "package"}
      BY <1>1, <2>2, DropsParts DEF ImportDiscard, Ends, To, TypeOK
    <3> QED BY <1>1, <3>1 DEF ImportMade, TemplateMade, Early, Ended
  <2>3. CASE CleanTags(i)
    <3>1. step'[i] = "cleanFiles" /\ parts'[i] = parts[i] \ {"stagingTag", "templateTag"}
      BY <1>1, <2>3, DropsParts DEF CleanTags, To, TypeOK
    <3> QED BY <1>1, <3>1 DEF ImportMade, TemplateMade, Early, Ended
  <2>4. CASE ImportCopied(i)
    <3>1. CASE To(i, "copied") /\ Renames(i, "snapshotPartial", "snapshot")
      BY <1>1, <2>4, <3>1
         DEF ImportCopied, To, Renames, Has, TypeOK, ImportMade, TemplateMade, Early, Ended, Whole
    <3>2. CASE GivesUp(i) /\ Drops(i, {"snapshotPartial"})
      <4>1. step'[i] = "cleanTags" /\ parts'[i] \subseteq parts[i]
        BY <1>1, <3>2, DropsParts DEF GivesUp, To, TypeOK
      <4> QED BY <1>1, <4>1 DEF ImportMade, TemplateMade, Early, Ended
    <3> QED BY <2>4, <3>1, <3>2 DEF ImportCopied
  <2>5. CASE ImportExtract(i) \/ ImportLoad(i) \/ ImportTag(i) \/ ImportCopy(i)
    <3>1. CASE ImportLoad(i)
      BY <1>1, <3>1
         DEF ImportLoad, GivesUp, To, Adds, Has, TypeOK, ImportMade, TemplateMade, Early, Ended
    <3>2. CASE ImportExtract(i) \/ ImportTag(i) \/ ImportCopy(i)
      BY <1>1, <3>2
         DEF ImportExtract, ImportTag, ImportCopy, To, Adds, Has, TypeOK, ImportMade,
             TemplateMade, Early, Ended
    <3> QED BY <2>5, <3>1, <3>2
  <2>6. CASE ImportPublish(i)
    BY <1>1, <2>6 DEF ImportPublish, To, TypeOK, ImportMade, TemplateMade, Early, Ended
  <2> QED BY <2>1, <2>2, <2>3, <2>4, <2>5, <2>6
<1> QED BY <1>1, <1>2, <1>3, <1>4, <1>5, MakesParts, WithinStep

\* A transfer that gives up leaves nothing.
LEMMA TransferWithin ==
    ASSUME Base, Core, Within, mode.faults = {}, NEW o \in Transfers,
           TransferGivesUp(o) \/ CleanFiles(o)
    PROVE  Within'
<1>1. /\ o \in Ops /\ TypeOK /\ o \in Imports \cup Exports /\ HasMade(o)
      /\ o \notin Creates \cup Restores \cup Deletes
      /\ o \in Imports => o \in Templates /\ o \notin Exports
      /\ o \in Exports => o \notin Templates
  BY Kinds DEF Base, Ops, Templates, Transfers, Within
<1>2. \E s \in Step : JobStep(o, s)
  BY <1>1 DEF TransferGivesUp, CleanFiles, GivesUp, JobStep, Step, Idle, ExportStep, ImportStep,
              Over, Outcome
<1>3. Makes(o) /\ UNCHANGED templates
  BY <1>1 DEF TransferGivesUp, CleanFiles, Makes
<1>4. HasMade(o)'
  <2>1. CASE TransferGivesUp(o)
    <3>1. /\ step[o] \in ({"begun"} \cup ExportStep \cup ImportStep) \ {"copying", "published"}
          /\ step'[o] = IF o \in Imports THEN "cleanTags" ELSE "cleanFiles"
          /\ parts' = parts
      BY <1>1, <2>1 DEF TransferGivesUp, GivesUp, To, TypeOK
    <3>2. CASE o \in Imports
      BY <1>1, <3>1, <3>2 DEF HasMade, ImportMade, TemplateMade, Early, Ended
    <3>3. CASE o \in Exports
      BY <1>1, <3>1, <3>3
         DEF HasMade, ExportMade, Early, Ended, ExportStep, ImportStep, Base, Phased
    <3> QED BY <1>1, <3>2, <3>3
  <2>2. CASE CleanFiles(o)
    <3>1. /\ step[o] = "cleanFiles" /\ step'[o] = "finish"
          /\ parts'[o] = parts[o] \ {"package", "packagePartial", "workDir", "snapshotPartial",
                                     "snapshot"}
      BY <1>1, <2>2, DropsParts DEF CleanFiles, To, TypeOK
    <3>2. CASE o \in Imports
      <4>1. parts'[o] = {}
        BY <1>1, <3>1, <3>2 DEF HasMade, ImportMade, TypeOK, Part
      <4> QED BY <1>1, <3>1, <3>2, <4>1 DEF HasMade, ImportMade, TemplateMade, Early, Ended
    <3>3. CASE o \in Exports
      <4>1. parts'[o] = {}
        BY <1>1, <3>1, <3>3 DEF HasMade, ExportMade
      <4> QED BY <1>1, <3>1, <3>3, <4>1 DEF HasMade, ExportMade, Early, Ended
    <3> QED BY <1>1, <3>2, <3>3
  <2> QED BY <2>1, <2>2
<1> QED BY <1>1, <1>2, <1>3, <1>4, MakesParts, WithinStep

\* An export leaves its package or nothing.
LEMMA ExportWithin ==
    ASSUME Base, Core, Within, mode.faults = {}, NEW x \in Exports,
           ExportSave(x) \/ ExportPack(x) \/ ExportPacked(x) \/ ExportDone(x)
    PROVE  Within'
<1>1. /\ x \in Ops /\ TypeOK /\ ExportMade(x)
      /\ x \notin Creates \cup Imports \cup Restores \cup Deletes \cup Templates
  BY Kinds DEF Base, Ops, Templates, Within, HasMade
<1>2. \E s \in Step : JobStep(x, s)
  BY <1>1 DEF ExportSave, ExportPack, ExportPacked, ExportDone, Ends, JobStep,
              ExportStep, Step, Over, Outcome
<1>3. Makes(x) /\ UNCHANGED templates
  BY <1>1 DEF ExportSave, ExportPack, ExportPacked, ExportDone, Makes, Adds, Renames, TypeOK, Part
<1>4. ExportMade(x)'
  <2>1. CASE ExportSave(x) \/ ExportPack(x) \/ ExportPacked(x)
    BY <1>1, <2>1
       DEF ExportSave, ExportPack, ExportPacked, To, Adds, Renames, Has, TypeOK, ExportMade,
           Early, Ended
  <2>2. CASE ExportDone(x)
    <3>1. /\ step[x] = "packed" /\ step'[x] = "finish" /\ outcome'[x] = "succeeded"
          /\ parts'[x] = parts[x] \ {"workDir"}
      BY <1>1, <2>2, DropsParts DEF ExportDone, Ends, To, TypeOK
    <3> QED BY <1>1, <3>1 DEF ExportMade, Early, Ended
  <2> QED BY <2>1, <2>2
<1>5. HasMade(x)'
  BY <1>1, <1>4 DEF HasMade
<1> QED BY <1>1, <1>2, <1>3, <1>5, MakesParts, WithinStep

\* A restore leaves the directory of its environment or nothing.
LEMMA RestoreWithin ==
    ASSUME Base, Core, Within, mode.faults = {}, NEW r \in Restores,
           RestoreUnpack(r) \/ RestoreUnpacked(r) \/ RestoreStart(r) \/ RestoreRecord(r)
    PROVE  Within'
<1>1. /\ r \in Ops /\ TypeOK /\ RestoreMade(r)
      /\ r \notin Creates \cup Imports \cup Exports \cup Deletes \cup Templates
  BY Kinds DEF Base, Ops, Templates, Within, HasMade
<1>2. \E s \in Step : JobStep(r, s)
  BY <1>1 DEF RestoreUnpack, RestoreUnpacked, RestoreStart, RestoreRecord, Ends, JobStep,
              RestoreStep, Step, Over, Outcome
<1>3. Makes(r) /\ UNCHANGED templates
  BY <1>1 DEF RestoreUnpack, RestoreUnpacked, RestoreStart, RestoreRecord, Makes, Adds,
              TypeOK, Part
<1>4. RestoreMade(r)'
  <2>1. CASE /\ step[r] \in RestoreStep /\ Ends(r, "failed") /\ Drops(r, {"configDir"})
    <3>1. parts'[r] = {}
      BY <1>1, <2>1, DropsParts DEF RestoreMade
    <3> QED BY <1>1, <2>1, <3>1 DEF Ends, To, TypeOK, RestoreMade, Early, Ended, RestoreStep
  <2>2. CASE /\ step[r] = "begun" /\ Ends(r, "failed") /\ UNCHANGED parts
    BY <1>1, <2>2 DEF Ends, To, TypeOK, RestoreMade, Early, Ended, RestoreStep
  <2>3. CASE step[r] = "begun" /\ To(r, "unpacking") /\ Adds(r, "configDir")
    BY <1>1, <2>3 DEF To, Adds, Has, TypeOK, RestoreMade, Early, Ended, RestoreStep
  <2>4. CASE /\ step[r] \in RestoreStep /\ UNCHANGED parts
             /\ \/ To(r, "unpacked") \/ To(r, "started")
                \/ Ends(r, "succeeded")
    BY <1>1, <2>4 DEF Ends, To, TypeOK, RestoreMade, Early, Ended, RestoreStep
  <2> QED BY <2>1, <2>2, <2>3, <2>4
             DEF RestoreUnpack, RestoreUnpacked, RestoreStart, RestoreRecord, RestoreStep
<1>5. HasMade(r)'
  BY <1>1, <1>4 DEF HasMade
<1> QED BY <1>1, <1>2, <1>3, <1>5, MakesParts, WithinStep

\* A template whose row goes has lost its tag and its snapshot before.
LEMMA DeleteWithin ==
    ASSUME Base, Core, Within, mode.faults = {}, NEW d \in Deletes,
           DeleteUntag(d) \/ DeleteSnapshot(d) \/ DeleteRow(d)
    PROVE  Within'
<1> DEFINE t == target[d]
<1>1. /\ d \in Ops /\ TypeOK /\ parts[d] = {}
      /\ d \notin Creates \cup Imports \cup Exports \cup Restores \cup Templates
  BY Kinds DEF Base, Ops, Templates, Within, HasMade
<1>2. \E s \in Step : JobStep(d, s)
  BY <1>1 DEF DeleteUntag, DeleteSnapshot, DeleteRow, Ends, JobStep,
              DeleteStep, Step, Over, Outcome
<1>3. \A p \in Ops : p # d => step'[p] = step[p] /\ outcome'[p] = outcome[p]
  BY <1>1, <1>2 DEF JobStep, To, TypeOK
<1>4. Active(d)
  BY DEF DeleteUntag, DeleteSnapshot, DeleteRow, Active, Idle
<1>5. t \in Ops /\ t # d /\ t \in Templates /\ step[t] = "done" /\ TemplateMade(t)
  BY <1>1, <1>4 DEF Core, Targets, Taken, Uses, Active, Idle, Templates, Ops, Within, HasMade
<1>6. \A p \in Ops : parts'[p] \subseteq parts[p]
  BY <1>1, <1>5 DEF DeleteUntag, DeleteSnapshot, DeleteRow, Has, TypeOK
<1>7. HasMade(d)'
  BY <1>1, <1>6 DEF HasMade
<1>8. /\ templates' \subseteq templates
      /\ \A p \in templates \ templates' : p = t /\ step[t] = "done" /\ parts'[t] = {}
  <2>1. CASE ~DeleteRow(d)
    BY <2>1 DEF DeleteUntag, DeleteSnapshot
  <2>2. CASE DeleteRow(d)
    <3>1. parts[t] \subseteq Whole
      BY <1>5 DEF TemplateMade, Ended
    <3>2. "templateTag" \notin parts[t] /\ "snapshot" \notin parts[t]
      BY <2>2 DEF DeleteRow, Core, Taken, DeleteStep
    <3>3. parts[t] = {}
      BY <3>1, <3>2 DEF Whole
    <3> QED BY <1>5, <2>2, <3>3 DEF DeleteRow
  <2> QED BY <2>1, <2>2
<1> HIDE DEF t
<1> QED BY <1>1, <1>3, <1>6, <1>7, <1>8, WithinFrame

\* A request, a reservation and the end of a job.
LEMMA ReserveWithin ==
    ASSUME Base, Within, NEW o \in Ops,
           (\E t : Requested(o, t)) \/ Reserve(o) \/ Finish(o)
    PROVE  Within'
<1>1. /\ TypeOK /\ UNCHANGED <<outcome, parts, templates>>
      /\ \A p \in Ops : p # o => step'[p] = step[p]
      /\ \/ step[o] \in Early /\ step'[o] \in Early
         \/ step[o] \in Ended /\ step'[o] \in Ended
  BY DEF Base, TypeOK, Requested, Reserve, Finish, To, Early, Ended
<1>2. HasMade(o)'
  BY <1>1 DEF Within, HasMade, CreateMade, ImportMade, ExportMade, RestoreMade, TemplateMade,
              Early, Ended, RestoreStep
<1> QED BY <1>1, <1>2, WithinFrame

\* Steps beside the jobs take parts, and add none.
LEMMA BesideWithin ==
    ASSUME Base, Within, UNCHANGED <<jobs, templates>>,
           \A p \in Ops : parts'[p] \subseteq parts[p]
    PROVE  Within'
<1> SUFFICES ASSUME NEW p \in Ops PROVE HasMade(p)'
  BY DEF Within
<1>1. HasMade(p)
  BY DEF Within
<1>2. p \in Creates => CreateMade(p)'
  BY <1>1 DEF HasMade, CreateMade
<1>3. p \in Imports => ImportMade(p)'
  BY <1>1 DEF HasMade, ImportMade
<1>4. p \in Templates => TemplateMade(p)'
  BY <1>1 DEF HasMade, TemplateMade
<1>5. p \in Exports => ExportMade(p)'
  BY <1>1 DEF HasMade, ExportMade
<1>6. p \in Restores => RestoreMade(p)'
  BY <1>1 DEF HasMade, RestoreMade
<1> QED BY <1>1, <1>2, <1>3, <1>4, <1>5, <1>6 DEF HasMade

\* The directory of an environment may go.
LEMMA EnvironmentWithin ==
    ASSUME Base, Within, NEW e \in Environments, Environment(e)
    PROVE  Within'
<1>1. /\ UNCHANGED <<jobs, templates>>
      /\ UNCHANGED parts \/ (e \in Restores /\ Has(e, parts[e] \ {"configDir"}))
  BY DEF Environment, EnvRequest, EnvStart, EnvStop, EnvRemove, EnvRemoveRow
<1>2. \A p \in Ops : parts'[p] \subseteq parts[p]
  BY <1>1, HasParts DEF Base, TypeOK, Ops
<1> QED BY <1>1, <1>2, BesideWithin

\* A step of a job that leaves containers and rows alone and does not leave "started".
LEMMA PairedFrame ==
    ASSUME Base, Paired, UNCHANGED <<envs, visit>>,
           \A r \in Restores : /\ step[r] = "started" => step'[r] = "started"
                               /\ step[r] \in Ended => step'[r] \in Ended
    PROVE  Paired'
BY DEF Paired

\* A job that has no container to record.
LEMMA JobPaired ==
    ASSUME Base, Paired, NEW o \in Ops, NEW s \in Step, To(o, s), UNCHANGED <<envs, visit>>,
           o \in Restores => step[o] # "started" /\ (step[o] \in Ended => s \in Ended)
    PROVE  Paired'
<1>1. step'[o] = s /\ \A p \in Ops : p # o => step'[p] = step[p]
  BY DEF To, Base, TypeOK
<1> QED BY <1>1, PairedFrame DEF Ops

\* A restore inserts the row of its container or removes the container.
LEMMA RestorePaired ==
    ASSUME Base, Paired, mode.faults = {}, NEW r \in Restores,
           RestoreUnpack(r) \/ RestoreUnpacked(r) \/ RestoreStart(r) \/ RestoreRecord(r)
    PROVE  Paired'
<1>1. r \in Ops /\ r \in Environments /\ TypeOK
  BY DEF Base, Ops, Environments
<1>2. /\ step[r] \notin Ended /\ r \notin environments /\ visit[r] = "none"
      /\ UNCHANGED visit
  BY <1>1 DEF RestoreUnpack, RestoreUnpacked, RestoreStart, RestoreRecord, Ended, Paired
<1>3. \A p \in Ops : p # r => step'[p] = step[p]
  BY <1>1 DEF RestoreUnpack, RestoreUnpacked, RestoreStart, RestoreRecord, Ends, To, TypeOK
<1>4. \A e \in containers' : e \in environments' \/ (e \in Restores /\ step'[e] = "started")
  BY <1>1, <1>3 DEF RestoreUnpack, RestoreUnpacked, RestoreStart, RestoreRecord, Ends, To, TypeOK,
                    Paired, Ops
<1>5. containers' \subseteq containers \cup {r}
  BY DEF RestoreUnpack, RestoreUnpacked, RestoreStart, RestoreRecord
<1>6. environments' = environments \/ (environments' = environments \cup {r} /\ step'[r] \in Ended)
  BY <1>1 DEF RestoreUnpack, RestoreUnpacked, RestoreStart, RestoreRecord, Ends, To, TypeOK, Ended
<1> QED BY <1>1, <1>2, <1>3, <1>4, <1>5, <1>6 DEF Paired, Ops

\* The container of an environment goes before its row.
LEMMA EnvironmentPaired ==
    ASSUME Base, Paired, NEW e \in Environments, Environment(e) PROVE Paired'
<1>1. TypeOK /\ UNCHANGED jobs
  BY DEF Base, Environment, EnvRequest, EnvStart, EnvStop, EnvRemove, EnvRemoveRow
<1>2. CASE EnvRequest(e)
  <2>1. e \in environments /\ UNCHANGED envs
    BY <1>2 DEF EnvRequest
  <2>2. visit'[e] # "removeRow" /\ \A f \in Environments : f # e => visit'[f] = visit[f]
    BY <1>1, <1>2 DEF EnvRequest, TypeOK
  <2> QED BY <1>1, <2>1, <2>2 DEF Paired, Environments
<1>3. CASE EnvStart(e) \/ EnvStop(e)
  <2>1. /\ UNCHANGED <<environments, containers>>
        /\ visit'[e] = "none" /\ \A f \in Environments : f # e => visit'[f] = visit[f]
    BY <1>1, <1>3 DEF EnvStart, EnvStop, TypeOK
  <2> QED BY <1>1, <2>1 DEF Paired, Environments
<1>4. CASE EnvRemove(e)
  <2>1. /\ UNCHANGED environments /\ containers' = containers \ {e} /\ visit[e] # "none"
        /\ \A f \in Environments : f # e => visit'[f] = visit[f]
    BY <1>1, <1>4 DEF EnvRemove, TypeOK
  <2> QED BY <1>1, <2>1 DEF Paired, Environments
<1>5. CASE EnvRemoveRow(e)
  <2>1. /\ UNCHANGED containers /\ environments \ {e} \subseteq environments'
        /\ environments' \subseteq environments /\ visit[e] = "removeRow" /\ visit'[e] = "none"
        /\ \A f \in Environments : f # e => visit'[f] = visit[f]
    BY <1>1, <1>5 DEF EnvRemoveRow, TypeOK
  <2> QED BY <1>1, <2>1 DEF Paired, Environments
<1> QED BY <1>2, <1>3, <1>4, <1>5 DEF Environment

\* At first there are the packages to be imported, and nothing else.
LEMMA InitTidy == Init => Tidy
<1> SUFFICES ASSUME Init PROVE Within /\ Paired
  BY DEF Tidy
<1>1. /\ \A o \in Ops : step[o] = "none" /\ (o \notin Imports => parts[o] = {})
      /\ \A o \in Ops : parts[o] \subseteq {"package"}
      /\ containers = environments /\ environments \cap Restores = {}
      /\ \A e \in Environments : visit[e] = "none"
  BY TemplateStoreAssumption DEF Init, Mode
<1>2. Within
  <2> SUFFICES ASSUME NEW o \in Ops PROVE HasMade(o)
    BY DEF Within
  <2> QED BY <1>1, Kinds DEF HasMade, CreateMade, ImportMade, ExportMade, RestoreMade,
                             TemplateMade, Ended, RestoreStep
<1>3. Paired
  BY <1>1 DEF Paired, Environments
<1> QED BY <1>2, <1>3

\* Every step keeps what is left within bounds.
LEMMA NextTidy == Base /\ Core /\ Tidy /\ [Next]_vars => Tidy'
<1> SUFFICES ASSUME Base, Core, Tidy, [Next]_vars, Undisturbed' PROVE Within' /\ Paired'
  BY DEF Tidy
<1>1. UNCHANGED mode
  <2>1. CASE UNCHANGED vars
    BY <2>1 DEF vars
  <2>2. CASE Next
    BY <2>2
       DEF Next, Create, Import, Export, Restore, Delete, Environment, Requested, RequestCreate,
           RequestImport, RequestExport, RequestRestore, RequestDelete, Reserve, Finish, Cancel,
           CreateArchive, CreateArchived, CreateCommit, CreatePublish, ImportExtract, ImportLoad,
           ImportTag, ImportUntag, ImportCopy, ImportCopied, ImportPublish, ImportDiscard,
           CleanTags, TransferGivesUp, CleanFiles, ExportSave, ExportPack, ExportPacked,
           ExportDone, RestoreUnpack, RestoreUnpacked, RestoreStart, RestoreRecord, DeleteUntag,
           DeleteSnapshot, DeleteRow, EnvRequest, EnvStart, EnvStop, EnvRemove, EnvRemoveRow,
           CrashAndRestart
  <2> QED BY <2>1, <2>2
<1>2. mode.faults = {} /\ mode.crashes = 0 /\ Within /\ Paired /\ TypeOK
  BY <1>1 DEF Undisturbed, Tidy, Base
<1>3. ASSUME NEW o \in Ops, NEW t, Requested(o, t) PROVE Within' /\ Paired'
  <2>1. Within'
    BY <1>2, <1>3, ReserveWithin
  <2>2. To(o, "reserving") /\ step[o] = "none" /\ UNCHANGED <<envs, visit>> /\ "reserving" \in Step
    BY <1>3 DEF Requested, Step, Idle
  <2> QED BY <1>2, <2>1, <2>2, JobPaired DEF Ended
<1>4. ASSUME NEW o \in Ops, Reserve(o) \/ Finish(o) PROVE Within' /\ Paired'
  <2>1. Within'
    BY <1>2, <1>4, ReserveWithin
  <2>2. /\ UNCHANGED <<envs, visit>> /\ step[o] # "started"
        /\ \E s \in Step : To(o, s) /\ (step[o] \in Ended => s \in Ended)
    BY <1>4 DEF Reserve, Finish, Step, Idle, Ended
  <2> QED BY <1>2, <2>1, <2>2, JobPaired
<1>5. ASSUME NEW c \in Creates, Create(c) PROVE Within' /\ Paired'
  <2>1. c \in Ops /\ c \notin Restores
    BY Kinds DEF Ops
  <2>2. ASSUME CreateArchive(c) \/ CreateArchived(c) \/ CreateCommit(c) \/ CreatePublish(c)
        PROVE  Within' /\ Paired'
    <3>1. Within'
      BY <1>2, <2>2, CreateWithin
    <3>2. UNCHANGED <<envs, visit>> /\ \E s \in Step : To(c, s)
      BY <2>2 DEF CreateArchive, CreateArchived, CreateCommit, CreatePublish, Ends, Step, CreateStep
    <3> QED BY <1>2, <2>1, <3>1, <3>2, JobPaired
  <2> QED BY <1>3, <1>5, <2>1, <2>2 DEF Create, RequestCreate
<1>6. ASSUME NEW i \in Imports, Import(i) PROVE Within' /\ Paired'
  <2>1. i \in Ops /\ i \notin Restores
    BY Kinds DEF Ops
  <2>2. ASSUME \/ ImportExtract(i) \/ ImportLoad(i) \/ ImportTag(i) \/ ImportUntag(i)
               \/ ImportCopy(i) \/ ImportCopied(i) \/ ImportPublish(i) \/ ImportDiscard(i)
               \/ CleanTags(i)
        PROVE  Within' /\ Paired'
    <3>1. Within'
      BY <1>2, <2>2, ImportWithin
    <3>2. UNCHANGED <<envs, visit>> /\ \E s \in Step : To(i, s)
      BY <2>2 DEF ImportExtract, ImportLoad, ImportTag, ImportUntag, ImportCopy, ImportCopied,
                  ImportPublish, ImportDiscard, CleanTags, GivesUp, Ends, Step, ImportStep
    <3> QED BY <1>2, <2>1, <3>1, <3>2, JobPaired
  <2> QED BY <1>3, <1>6, <2>1, <2>2 DEF Import, RequestImport
<1>7. ASSUME NEW x \in Exports, Export(x) PROVE Within' /\ Paired'
  <2>1. x \in Ops /\ x \notin Restores
    BY Kinds DEF Ops
  <2>2. ASSUME ExportSave(x) \/ ExportPack(x) \/ ExportPacked(x) \/ ExportDone(x)
        PROVE  Within' /\ Paired'
    <3>1. Within'
      BY <1>2, <2>2, ExportWithin
    <3>2. UNCHANGED <<envs, visit>> /\ \E s \in Step : To(x, s)
      BY <2>2 DEF ExportSave, ExportPack, ExportPacked, ExportDone, Ends, Step, ExportStep
    <3> QED BY <1>2, <2>1, <3>1, <3>2, JobPaired
  <2> QED BY <1>3, <1>7, <2>1, <2>2 DEF Export, RequestExport
<1>8. ASSUME NEW r \in Restores, Restore(r) PROVE Within' /\ Paired'
  BY <1>2, <1>3, <1>8, RestoreWithin, RestorePaired DEF Restore, RequestRestore, Ops
<1>9. ASSUME NEW d \in Deletes, Delete(d) PROVE Within' /\ Paired'
  <2>1. d \in Ops /\ d \notin Restores
    BY Kinds DEF Ops
  <2>2. ASSUME DeleteUntag(d) \/ DeleteSnapshot(d) \/ DeleteRow(d)
        PROVE  Within' /\ Paired'
    <3>1. Within'
      BY <1>2, <2>2, DeleteWithin
    <3>2. UNCHANGED <<envs, visit>> /\ \E s \in Step : To(d, s)
      BY <2>2 DEF DeleteUntag, DeleteSnapshot, DeleteRow, Ends, Step, DeleteStep
    <3> QED BY <1>2, <2>1, <3>1, <3>2, JobPaired
  <2> QED BY <1>3, <1>9, <2>1, <2>2 DEF Delete, RequestDelete
<1>10. ASSUME NEW o \in Transfers, TransferGivesUp(o) \/ CleanFiles(o) PROVE Within' /\ Paired'
  <2>1. o \in Ops /\ o \notin Restores
    BY Kinds DEF Ops, Transfers
  <2>2. Within'
    BY <1>2, <1>10, TransferWithin
  <2>3. UNCHANGED <<envs, visit>> /\ \E s \in Step : To(o, s)
    BY <1>10 DEF TransferGivesUp, CleanFiles, GivesUp, Step
  <2> QED BY <1>2, <2>1, <2>2, <2>3, JobPaired
<1>11. ASSUME NEW e \in Environments, Environment(e) PROVE Within' /\ Paired'
  BY <1>2, <1>11, EnvironmentWithin, EnvironmentPaired
<1>12. ~CrashAndRestart
  BY <1>2 DEF CrashAndRestart, TypeOK
<1>13. ASSUME UNCHANGED vars \/ \E o \in Transfers : Cancel(o) PROVE Within' /\ Paired'
  <2>1. UNCHANGED <<jobs, parts, templates, envs, visit>>
    BY <1>13 DEF vars, Cancel
  <2> QED BY <1>2, <2>1, BesideWithin, PairedFrame
<1> QED BY <1>3, <1>4, <1>5, <1>6, <1>7, <1>8, <1>9, <1>10, <1>11, <1>12, <1>13 DEF Next

\* The bounds at the end of a job are what it published.
LEMMA TidyLeavesNoOrphans == Base /\ Core /\ Tidy => NoOrphans
<1> SUFFICES ASSUME Base, Core, Within, Paired
             PROVE  /\ \A o \in Ops : step[o] = "done" => parts[o] \subseteq Rightful(o)
                    /\ \A e \in containers : e \in environments \/ (e \in Restores /\ Active(e))
  BY DEF Tidy, Undisturbed, NoOrphans
<1>1. ASSUME NEW o \in Ops, step[o] = "done" PROVE parts[o] \subseteq Rightful(o)
  <2>1. HasMade(o) /\ templates \subseteq Templates
    BY DEF Within, Base, TypeOK
  <2>2. CASE o \in Templates
    BY <1>1, <2>1, <2>2 DEF HasMade, TemplateMade, Rightful, Ended
  <2>3. CASE o \in Exports
    BY <1>1, <2>1, <2>3, Kinds DEF HasMade, ExportMade, Rightful, Ended, Templates
  <2>4. CASE o \in Restores
    BY <1>1, <2>1, <2>4, Kinds DEF HasMade, RestoreMade, Rightful, Ended, Templates
  <2>5. CASE o \in Deletes
    BY <2>1, <2>5 DEF HasMade
  <2> QED BY <2>2, <2>3, <2>4, <2>5 DEF Ops, Templates
<1>2. \A e \in containers : e \in environments \/ (e \in Restores /\ Active(e))
  BY DEF Paired, Active, Idle
<1> QED BY <1>1, <1>2

\* Where nothing fails and nothing is cut off, a job that is over leaves what it published
\* and nothing else, and every container has its row or a restore about to insert it.
THEOREM NoOrphansCorrect == Spec => []NoOrphans
<1>1. Init => Base /\ Core /\ Tidy
  BY InitBase, InitCore, InitTidy
<1>2. Base /\ Core /\ Tidy /\ [Next]_vars => (Base /\ Core /\ Tidy)'
  BY NextBase, NextCore, NextTidy
<1> QED BY <1>1, <1>2, TidyLeavesNoOrphans, PTL DEF Spec

-----------------------------------------------------------------------------
(* The catalog *)

\* What is seen of the templates changes only with a row, a tag or a snapshot.
LEMMA AppearanceStays ==
    ASSUME UNCHANGED templates, \A t \in templates : parts'[t] \cap Whole = parts[t] \cap Whole
    PROVE  UNCHANGED Appearance
<1>1. \A t \in templates : Whole \subseteq parts'[t] <=> Whole \subseteq parts[t]
  OBVIOUS
<1> QED BY <1>1 DEF Appearance

\* What is read changes only with the step or the target of a reader.
LEMMA ReadsStay ==
    ASSUME \A o \in Readers : /\ Active(o)' <=> Active(o)
                              /\ Active(o) => target'[o] = target[o]
    PROVE  UNCHANGED Reads
BY DEF Reads

\* A template that others may read is read by nobody while it is being taken apart.
LEMMA DeletedIsUnread ==
    ASSUME Base, Core, NEW d \in Deletes, Active(d) PROVE Catalog!Unread(target[d])
<1> SUFFICES ASSUME NEW o \in Readers PROVE Reads[o] # target[d]
  BY DEF Catalog!Unread
<1>1. /\ d \in Ops /\ o \in Ops /\ o # d
      /\ target[d] \in Templates /\ target[d] # Nothing /\ target[d] \in Needs(d)
  BY Kinds DEF Readers, Ops, Core, Targets, Uses, Active, Idle, Needs
<1>2. CASE Active(o)
  <2>1. target[o] \in Needs(o)
    BY <1>1, <1>2, Kinds DEF Needs, Core, Targets, Uses, Readers, Active, Idle
  <2>2. Needs(o) \cap Needs(d) = {}
    BY <1>1, <1>2 DEF Core, Apart
  <2> QED BY <1>1, <1>2, <2>1, <2>2 DEF Reads
<1>3. CASE ~Active(o)
  BY <1>1, <1>3 DEF Reads
<1> QED BY <1>2, <1>3

\* A job that goes on publishes its template or shows nothing.
LEMMA AdvancesCatalog ==
    ASSUME Base, Core, NEW o \in Ops \ Deletes, Advances(o)
    PROVE  [Catalog!Next]_(Catalog!vars)
<1>1. UNCHANGED Reads
  BY ReadsStay DEF Advances, Active, Readers, Ops
<1>2. \A p \in templates : p \in Ops /\ Settled(p) /\ parts'[p] \cap Whole = parts[p] \cap Whole
  BY DEF Advances, Core, Targets, Base, TypeOK, Templates, Ops
<1>3. CASE UNCHANGED templates
  BY <1>1, <1>2, <1>3, AppearanceStays DEF Catalog!vars
<1>4. CASE templates' # templates
  <2>1. /\ o \notin templates /\ templates' = templates \cup {o} /\ o \in Templates
        /\ Whole \subseteq parts'[o]
    BY <1>4 DEF Advances
  <2>2. \A p \in templates : Whole \subseteq parts'[p] <=> Whole \subseteq parts[p]
    BY <1>2
  <2>3. Appearance' = [Appearance EXCEPT ![o] = "whole"] /\ Appearance[o] = "absent"
    BY <2>1, <2>2 DEF Appearance
  <2>4. Catalog!Publish(o)
    BY <1>1, <2>3 DEF Catalog!Publish
  <2> QED BY <2>1, <2>4 DEF Catalog!Next
<1> QED BY <1>3, <1>4

\* A delete damages its template, then removes it.
LEMMA DeleteCatalog ==
    ASSUME Base, Core, NEW d \in Deletes, DeleteUntag(d) \/ DeleteSnapshot(d) \/ DeleteRow(d)
    PROVE  [Catalog!Next]_(Catalog!vars)
<1> DEFINE t == target[d]
<1>1. d \in Ops /\ d \notin Readers /\ TypeOK
  BY Kinds DEF Base, Ops, Readers
<1>2. Active(d)
  BY DEF DeleteUntag, DeleteSnapshot, DeleteRow, Active, Idle
<1>3. t \in Templates /\ t \in Ops /\ Catalog!Unread(t)
  BY <1>1, <1>2, DeletedIsUnread DEF Core, Targets, Uses, Active, Idle, Templates, Ops
<1>4. UNCHANGED target /\ \A p \in Ops : p # d => step'[p] = step[p]
  BY <1>1 DEF DeleteUntag, DeleteSnapshot, DeleteRow, Ends, To, TypeOK
<1>5. UNCHANGED Reads
  BY <1>1, <1>4, ReadsStay DEF Active, Readers, Ops
<1>6. CASE DeleteUntag(d) \/ DeleteSnapshot(d)
  <2>1. UNCHANGED templates
    BY <1>6 DEF DeleteUntag, DeleteSnapshot
  <2>2. CASE UNCHANGED parts
    BY <1>5, <2>1, <2>2, AppearanceStays DEF Catalog!vars
  <2>3. CASE \E p \in Whole : parts' = [parts EXCEPT ![t] = @ \ {p}]
    <3>1. ~(Whole \subseteq parts'[t]) /\ \A u \in Ops : u # t => parts'[u] = parts[u]
      BY <1>1, <1>3, <2>3 DEF TypeOK
    <3>2. CASE Appearance[t] = "whole"
      <4>1. t \in templates
        BY <1>3, <3>2 DEF Appearance
      <4>2. Appearance' = [Appearance EXCEPT ![t] = "damaged"]
        BY <1>3, <2>1, <3>1, <4>1 DEF Appearance, Templates, Ops
      <4>3. Catalog!Damage(t)
        BY <1>3, <1>5, <3>2, <4>2 DEF Catalog!Damage
      <4> QED BY <1>3, <4>3 DEF Catalog!Next
    <3>3. CASE Appearance[t] # "whole"
      <4>1. t \notin templates \/ ~(Whole \subseteq parts[t])
        BY <1>3, <3>3 DEF Appearance
      <4>2. UNCHANGED Appearance
        BY <1>3, <2>1, <3>1, <4>1 DEF Appearance, Templates, Ops
      <4> QED BY <1>5, <4>2 DEF Catalog!vars
    <3> QED BY <3>2, <3>3
  <2>4. parts' = parts \/ \E p \in Whole : parts' = [parts EXCEPT ![t] = @ \ {p}]
    BY <1>6 DEF DeleteUntag, DeleteSnapshot, Has, Whole
  <2> QED BY <2>2, <2>3, <2>4
<1>7. CASE DeleteRow(d)
  <2>1. /\ step[d] = "unsnapped" /\ UNCHANGED parts
        /\ templates' = templates \ {t} \/ UNCHANGED templates
    BY <1>7 DEF DeleteRow
  <2>2. ~(Whole \subseteq parts[t])
    BY <2>1 DEF Core, Taken, Whole
  <2>3. CASE templates' = templates
    BY <1>5, <2>1, <2>3, AppearanceStays DEF Catalog!vars
  <2>4. CASE templates' # templates
    <3>1. t \in templates /\ templates' = templates \ {t}
      BY <2>1, <2>4
    <3>2. Appearance[t] = "damaged" /\ Appearance' = [Appearance EXCEPT ![t] = "absent"]
      BY <1>3, <2>1, <2>2, <3>1 DEF Appearance
    <3>3. Catalog!Remove(t)
      BY <1>3, <1>5, <3>2 DEF Catalog!Remove
    <3> QED BY <1>3, <3>3 DEF Catalog!Next
  <2> QED BY <2>3, <2>4
<1> QED BY <1>6, <1>7

\* An export or a restore begins to read.
LEMMA ReserveCatalog ==
    ASSUME Base, Core, NEW o \in Ops, Reserve(o)
    PROVE  [Catalog!Next]_(Catalog!vars)
<1>1. /\ step[o] = "reserving" /\ ~Active(o) /\ UNCHANGED Appearance
      /\ \A p \in Ops : p # o => step'[p] = step[p] /\ target'[p] = target[p]
      /\ step'[o] \in {"none", "begun"}
      /\ step'[o] = "begun" => target'[o] = target[o]
  <2>1. TypeOK /\ UNCHANGED <<parts, templates>>
    BY DEF Base, Reserve
  <2> QED BY <2>1 DEF TypeOK, Reserve, To, Active, Idle, Appearance
<1>2. CASE o \in Readers /\ step'[o] = "begun"
  <2>1. target[o] \in Templates /\ Active(o)'
    BY <1>1, <1>2 DEF Core, Targets, Uses, Readers, Active, Idle
  <2>2. Reads' = [Reads EXCEPT ![o] = target[o]] /\ Reads[o] = Nothing
    BY <1>1, <1>2, <2>1 DEF Reads, Active, Readers, Ops
  <2>3. Catalog!BeginRead(o, target[o])
    BY <1>1, <2>2 DEF Catalog!BeginRead
  <2> QED BY <1>2, <2>1, <2>3 DEF Catalog!Next
<1>3. CASE ~(o \in Readers /\ step'[o] = "begun")
  <2>1. UNCHANGED Reads
    BY <1>1, <1>3, ReadsStay DEF Active, Idle, Readers, Ops
  <2> QED BY <1>1, <2>1 DEF Catalog!vars
<1> QED BY <1>2, <1>3

\* It reads no more.
LEMMA FinishCatalog ==
    ASSUME Base, Core, NEW o \in Ops, Finish(o)
    PROVE  [Catalog!Next]_(Catalog!vars)
<1>1. /\ TypeOK /\ step'[o] = "done" /\ UNCHANGED <<Appearance, target>>
      /\ \A p \in Ops : p # o => step'[p] = step[p]
  BY DEF Base, TypeOK, Finish, To, Appearance
<1>2. CASE o \in Readers
  <2>1. Reads' = [Reads EXCEPT ![o] = Nothing]
    BY <1>1, <1>2 DEF Reads, Active, Idle, Readers, Ops
  <2>2. Catalog!EndRead(o)
    BY <1>1, <2>1 DEF Catalog!EndRead
  <2> QED BY <1>2, <2>2 DEF Catalog!Next
<1>3. CASE o \notin Readers
  <2>1. UNCHANGED Reads
    BY <1>1, <1>3, ReadsStay DEF Active, Readers, Ops
  <2> QED BY <1>1, <2>1 DEF Catalog!vars
<1> QED BY <1>2, <1>3

\* A request shows nothing.
LEMMA RequestCatalog ==
    ASSUME Base, NEW o \in Ops, NEW t, Requested(o, t)
    PROVE  [Catalog!Next]_(Catalog!vars)
<1>1. /\ ~Active(o) /\ ~Active(o)' /\ UNCHANGED Appearance
      /\ \A p \in Ops : p # o => step'[p] = step[p] /\ target'[p] = target[p]
  BY DEF Base, TypeOK, Requested, To, Active, Idle, Appearance
<1>2. UNCHANGED Reads
  BY <1>1, ReadsStay DEF Active, Readers, Ops
<1> QED BY <1>1, <1>2 DEF Catalog!vars

\* Neither does a step beside the jobs.
LEMMA BesideCatalog ==
    ASSUME UNCHANGED <<jobs, templates>>,
           \A t \in templates : parts'[t] \cap Whole = parts[t] \cap Whole
    PROVE  [Catalog!Next]_(Catalog!vars)
<1>1. UNCHANGED Appearance
  BY AppearanceStays
<1>2. UNCHANGED Reads
  BY ReadsStay DEF Active
<1> QED BY <1>1, <1>2 DEF Catalog!vars

\* Nor a step on an environment.
LEMMA EnvironmentCatalog ==
    ASSUME Base, NEW e \in Environments, Environment(e)
    PROVE  [Catalog!Next]_(Catalog!vars)
<1>1. /\ UNCHANGED <<jobs, templates>>
      /\ UNCHANGED parts \/ (e \in Restores /\ Has(e, parts[e] \ {"configDir"}))
  BY DEF Environment, EnvRequest, EnvStart, EnvStop, EnvRemove, EnvRemoveRow
<1>2. \A p \in Ops : parts'[p] \cap Whole = parts[p] \cap Whole
  BY <1>1, HasParts DEF Base, TypeOK, Ops, Whole
<1>3. templates \subseteq Ops
  BY DEF Base, TypeOK, Templates, Ops
<1> QED BY <1>1, <1>2, <1>3, BesideCatalog

\* A crash ends every read.
LEMMA CrashCatalog ==
    ASSUME Base, CrashAndRestart
    PROVE  [Catalog!Next]_(Catalog!vars)
<1>1. templates \subseteq Ops /\ Readers \subseteq Ops
  BY DEF Base, TypeOK, Templates, Readers, Ops
<1>2. \A o \in Ops : /\ ~Active(o)'
                     /\ parts'[o] \cap Whole = parts[o] \cap Whole
  BY DEF CrashAndRestart, Active, Idle, Whole
<1>3. UNCHANGED templates
  BY DEF CrashAndRestart
<1>4. UNCHANGED Appearance
  BY <1>1, <1>2, <1>3, AppearanceStays
<1>5. Reads' = [o \in Readers |-> Nothing]
  BY <1>1, <1>2 DEF Reads
<1> QED BY <1>4, <1>5 DEF Catalog!Restart, Catalog!Next

\* At first the catalog is empty.
LEMMA InitCatalog == Init => Catalog!Init
BY DEF Init, Catalog!Init, Appearance, Reads, Active, Idle, Templates, Readers, Ops

\* Every step is one of the catalog, or shows nothing.
LEMMA NextCatalog == Base /\ Core /\ [Next]_vars => [Catalog!Next]_(Catalog!vars)
<1> SUFFICES ASSUME Base, Core, [Next]_vars PROVE [Catalog!Next]_(Catalog!vars)
  OBVIOUS
<1> DEFINE Maps == [Catalog!Next]_(Catalog!vars)
<1> SUFFICES Maps
  OBVIOUS
<1>1. ASSUME NEW o \in Ops, NEW t, Requested(o, t) PROVE Maps
  BY <1>1, RequestCatalog
<1>2. ASSUME NEW o \in Ops \ Deletes, Advances(o) PROVE Maps
  BY <1>2, AdvancesCatalog
<1>3. ASSUME NEW d \in Deletes, DeleteUntag(d) \/ DeleteSnapshot(d) \/ DeleteRow(d) PROVE Maps
  BY <1>3, DeleteCatalog
<1>4. ASSUME NEW o \in Ops, Reserve(o) \/ Finish(o) PROVE Maps
  BY <1>4, ReserveCatalog, FinishCatalog
<1>5. ASSUME NEW e \in Environments, Environment(e) PROVE Maps
  BY <1>5, EnvironmentCatalog
<1>6. ASSUME CrashAndRestart PROVE Maps
  BY <1>6, CrashCatalog
<1>7. ASSUME UNCHANGED vars \/ \E o \in Transfers : Cancel(o) PROVE Maps
  BY <1>7, BesideCatalog DEF vars, Cancel
<1> HIDE DEF Maps
<1>8. ASSUME NEW c \in Creates, Create(c) PROVE Maps
  <2>1. c \in Ops \ Deletes
    BY Kinds DEF Ops
  <2> QED BY <1>1, <1>2, <1>8, <2>1, CreateCore DEF Create, RequestCreate
<1>9. ASSUME NEW i \in Imports, Import(i) PROVE Maps
  <2>1. i \in Ops \ Deletes
    BY Kinds DEF Ops
  <2> QED BY <1>1, <1>2, <1>9, <2>1, ImportCore DEF Import, RequestImport
<1>10. ASSUME NEW x \in Exports, Export(x) PROVE Maps
  <2>1. x \in Ops \ Deletes
    BY Kinds DEF Ops
  <2> QED BY <1>1, <1>2, <1>10, <2>1, ExportCore DEF Export, RequestExport
<1>11. ASSUME NEW r \in Restores, Restore(r) PROVE Maps
  <2>1. r \in Ops \ Deletes
    BY Kinds DEF Ops
  <2> QED BY <1>1, <1>2, <1>11, <2>1, RestoreCore DEF Restore, RequestRestore
<1>12. ASSUME NEW d \in Deletes, Delete(d) PROVE Maps
  BY <1>1, <1>3, <1>12 DEF Delete, RequestDelete, Ops
<1>13. ASSUME NEW o \in Transfers, TransferGivesUp(o) \/ CleanFiles(o) PROVE Maps
  <2>1. o \in Ops \ Deletes
    BY Kinds DEF Ops, Transfers
  <2> QED BY <1>2, <1>13, <2>1, TransferCore
<1> QED BY <1>3, <1>4, <1>5, <1>6, <1>7, <1>8, <1>9, <1>10, <1>11, <1>12, <1>13 DEF Next

\* Exports and restores see templates that appear whole, are taken apart only when nobody
\* reads them and do not come back once taken apart.
THEOREM CatalogIsAtomicCorrect == Spec => CatalogIsAtomic
BY CoreCorrect, InitCatalog, NextCatalog, PTL DEF Spec, CatalogIsAtomic, Catalog!Spec
=============================================================================
