---------------------- MODULE OperationLifecycleProofs ----------------------
(***************************************************************************)
(* Theorems about the life of an operation in DurableOperations: when its  *)
(* row may change, when it may be cancelled, and who still works on it.    *)
(***************************************************************************)
EXTENDS DurableOperationsProofs

-----------------------------------------------------------------------------
(* The inductive invariant of a row *)

USE DEF rows, tables, handlers, tasks, lifetime

(* The id of a job is known to the handler that made it and to nobody else *)
(* until its row is there.                                                 *)
FreshJob(r) ==
    /\ task[on[r]] = "none"
    /\ IF at[r] = "jobLink" THEN phase[on[r]] \in {"queued", "rollingBack"}
                            ELSE phase[on[r]] = "none"
    /\ \A q \in Requests \ {r} : at[q] \in JobStages => on[q] # on[r]

\* A task and a request to cancel come after the row.
Arrived ==
    /\ \A o \in Ops : phase[o] = "none" => task[o] = "none"
    /\ \A r \in Requests :
          /\ at[r] \in JobStages => FreshJob(r)
          /\ at[r] \in CancelOpStages \cup {"cancelPullSignal", "cancelPullWrite"}
                => phase[on[r]] # "none"

\* What main() has to recover or resume is not over and has no task; nobody
\* is served before it is done.
Booted ==
    /\ Serving => todo = {}
    /\ ~Serving => \A r \in Requests : at[r] = "idle"
    /\ \A o \in todo :
          /\ task[o] = "none" /\ phase[o] \notin Terminal \cup {"none"}
          /\ boot = "resume" => o \in Pulls /\ phase[o] = "queued"

Lifecycle == TypeOK /\ Arrived /\ Booted /\ TerminalMeansDone

\* A controller that has never run has no rows, tasks or rows to recover.
LEMMA InitLifecycle == Init => Lifecycle
BY InitType DEF Init, Lifecycle, Arrived, Booted, TerminalMeansDone, Terminal, JobStages,
                CancelOpStages, Serving

\* A request that arrives only reads rows and reserves "docker-images".
LEMMA ArrivesLifecycle ==
    ASSUME Lifecycle, NEW r \in Requests, Arrives(r) PROVE Lifecycle'
<1> USE ConstantsAssumption
    DEF Lifecycle, TypeOK, Arrived, FreshJob, Booted, TerminalMeansDone, Serving, Terminal, Ops,
        JobStages, CancelOpStages
<1>0. TypeOK'
  BY ArrivesType
<1>1. ASSUME NEW p \in Pulls, PullReattach(r, p) PROVE Lifecycle'
  BY <1>0, <1>1 DEF PullReattach, vars
<1>2. ASSUME NEW p \in Pulls, PullLookup(r, p) PROVE Lifecycle'
  BY <1>0, <1>2 DEF PullLookup, Begin
<1>3. ASSUME NEW p \in Pulls, CancelPullRead(r, p) PROVE Lifecycle'
  BY <1>0, <1>3 DEF CancelPullRead, Begin
<1>4. ASSUME NEW j \in Jobs, JobRequest(r, j) PROVE Lifecycle'
  BY <1>0, <1>4 DEF JobRequest, Begin
<1>5. ASSUME NEW o \in Ops, CancelOpRead(r, o) PROVE Lifecycle'
  BY <1>0, <1>5 DEF CancelOpRead, Begin
<1>6. ASSUME NEW o \in Ops, CancelRefused(r, o) PROVE Lifecycle'
  BY <1>0, <1>6 DEF CancelRefused, vars
<1>7. CASE ImageReserve(r)
  BY <1>0, <1>7 DEF ImageReserve, Goto
<1> QED BY <1>1, <1>2, <1>3, <1>4, <1>5, <1>6, <1>7 DEF Arrives

\* A handler spawns a task only with the row it has just inserted, so no
\* task starts under a terminal row.
LEMMA HandleLifecycle ==
    ASSUME Lifecycle, NEW r \in Requests, Handle(r) \/ Vanish(r) PROVE Lifecycle'
<1> USE ConstantsAssumption
    DEF Lifecycle, TypeOK, Arrived, FreshJob, Booted, TerminalMeansDone, Serving, Terminal, Ops,
        JobStages, CancelOpStages, Goto, Return
<1>0. TypeOK'
  BY HandleType
<1>1. CASE PullReserve(r) \/ PullLink(r) \/ PullOpLink(r)
  BY <1>0, <1>1 DEF PullReserve, PullLink, PullOpLink
<1>4. CASE PullInsert(r)
  <2>1. Arrived'
    <3>1. PICK p \in Pulls : p = on[r] /\ at[r] = "pullInsert"
      BY <1>4 DEF PullInsert, PullStages
    <3>2. CASE UNCHANGED <<phase, task>> /\ (Return(r) \/ Goto(r, "undoPull"))
      BY <3>1, <3>2
    <3>3. CASE /\ phase[p] = "none" /\ phase' = [phase EXCEPT ![p] = "queued"] /\ Return(r)
               /\ task' = [task EXCEPT ![p] = IF p \in Pulls THEN "spawned" ELSE "body"]
      BY <3>1, <3>3
    <3> QED BY <1>4, <3>1, <3>2, <3>3 DEF PullInsert, UpdateOperation, Spawn
  <2>2. Booted'
    BY <1>0, <1>4 DEF PullInsert, UpdateOperation, Spawn, PullStages
  <2>3. TerminalMeansDone'
    BY <1>0, <1>4 DEF PullInsert, UpdateOperation, Spawn, PullStages
  <2> QED BY <1>0, <2>1, <2>2, <2>3
<1>5. CASE PullUndoPullLink(r) \/ PullUndoOpLink(r) \/ PullUndoReserve(r)
  BY <1>0, <1>5 DEF PullUndoPullLink, PullUndoOpLink, PullUndoReserve
<1>6. CASE JobCheck(r) \/ JobReserve(r)
  BY <1>0, <1>6 DEF JobCheck, JobReserve
<1>7. CASE JobInsert(r)
  <2>1. Arrived'
    <3>1. PICK j \in Jobs : j = on[r] /\ at[r] = "jobInsert" /\ FreshJob(r)
      BY <1>7 DEF JobInsert
    <3>2. CASE UNCHANGED <<phase, task>> /\ (Return(r) \/ Goto(r, "undoPull"))
      BY <3>1, <3>2
    <3>3. CASE phase' = [phase EXCEPT ![j] = "queued"] /\ UNCHANGED task /\ Goto(r, "jobLink")
      BY <3>1, <3>3
    <3>4. CASE phase' = [phase EXCEPT ![j] = "queued"] /\ Return(r)
               /\ task' = [task EXCEPT ![j] = IF j \in Pulls THEN "spawned" ELSE "body"]
      BY <3>1, <3>4
    <3> QED BY <1>7, <3>1, <3>2, <3>3, <3>4 DEF JobInsert, UpdateOperation, Spawn
  <2>2. Booted'
    BY <1>0, <1>7 DEF JobInsert, UpdateOperation, Spawn
  <2>3. TerminalMeansDone'
    BY <1>0, <1>7 DEF JobInsert, UpdateOperation, Spawn
  <2> QED BY <1>0, <2>1, <2>2, <2>3
<1>8. CASE JobLink(r)
  BY <1>0, <1>8 DEF JobLink, Spawn
<1>9. CASE ImageGuard(r) \/ ImageDocker(r) \/ ImageRelease(r)
  BY <1>0, <1>9 DEF ImageGuard, ImageDocker, ImageRelease
<1>10. CASE CancelPullSignal(r) \/ CancelOpSignal(r)
  BY <1>0, <1>10 DEF CancelPullSignal, CancelOpSignal
<1>11. CASE CancelPullWrite(r) \/ CancelOpWrite(r)
  BY <1>0, <1>11 DEF CancelPullWrite, CancelOpWrite, TryUpdateOperation, UpdateOperation,
                     CancelPullStages, Cancellable
<1>12. CASE Vanish(r)
  BY <1>0, <1>12 DEF Vanish, StatementOf, PullStages, CancelPullStages, Cancellable
<1> QED BY <1>1, <1>4, <1>5, <1>6, <1>7, <1>8, <1>9, <1>10, <1>11, <1>12 DEF Handle

(* The task of an operation has a row and its handler has returned.        *)
LEMMA TaskArrived ==
    ASSUME Lifecycle, NEW o \in Ops, task[o] # "none", UNCHANGED handlers,
           \A u \in Ops \ {o} : phase'[u] = phase[u] /\ task'[u] = task[u],
           phase'[o] # "none"
    PROVE  Arrived'
<1>1. \A u \in Ops : phase'[u] = "none" => task'[u] = "none"
  BY DEF Lifecycle, Arrived
<1>2. ASSUME NEW r \in Requests, at[r] \in JobStages PROVE FreshJob(r)'
  <2>1. on[r] \in Ops \ {o} /\ FreshJob(r)
    BY <1>2 DEF Lifecycle, TypeOK, Arrived, FreshJob, Ops
  <2> QED BY <2>1 DEF FreshJob
<1>3. ASSUME NEW r \in Requests,
             at[r] \in CancelOpStages \cup {"cancelPullSignal", "cancelPullWrite"}
      PROVE  phase'[on[r]] # "none"
  <2>1. on[r] \in Ops /\ phase[on[r]] # "none"
    BY <1>3, ConstantsAssumption
       DEF Lifecycle, TypeOK, Arrived, Ops, CancelPullStages, Cancellable, CancelOpStages
  <2> QED BY <2>1
<1> QED BY <1>1, <1>2, <1>3 DEF Arrived

\* A task leaves its row alone once it has written the terminal phase.
LEMMA TaskLifecycle ==
    ASSUME Lifecycle,
           \/ \E p \in Pulls : PullWork(p) \/ PullProgress(p)
           \/ \E j \in Jobs : JobWork(j) \/ JobProgress(j) \/ JobProduces(j)
           \/ \E o \in Ops : TaskWork(o)
    PROVE  Lifecycle'
<1> USE ConstantsAssumption
    DEF Lifecycle, TypeOK, Arrived, FreshJob, Booted, TerminalMeansDone, Serving, Terminal, Ops,
        Advance, UpdateOperation, TryUpdateOperation
<1>0. TypeOK'
  BY TaskType DEF Lifecycle
<1>1. ASSUME NEW p \in Pulls, PullBegin(p) \/ PullProgress(p) PROVE Lifecycle'
  <2>1. Arrived'
    <3>1. p \in Ops /\ task[p] # "none" /\ UNCHANGED handlers
      BY <1>1 DEF PullBegin, PullProgress
    <3>2. \A u \in Ops \ {p} : phase'[u] = phase[u] /\ task'[u] = task[u]
      BY <1>1 DEF PullBegin, PullProgress
    <3>3. phase'[p] # "none"
      BY <1>1 DEF PullBegin, PullProgress
    <3> QED BY <3>1, <3>2, <3>3, TaskArrived
  <2>2. Booted'
    BY <1>0, <1>1 DEF PullBegin, PullProgress
  <2>3. TerminalMeansDone'
    BY <1>0, <1>1 DEF PullBegin, PullProgress
  <2> QED BY <1>0, <2>1, <2>2, <2>3
<1>2. ASSUME NEW p \in Pulls, PullBodyEnds(p) \/ PullDrained(p) PROVE Lifecycle'
  BY <1>0, <1>2 DEF PullBodyEnds, BodyEnds, PullDrained
<1>3. ASSUME NEW p \in Pulls, PullUnlink(p) PROVE Lifecycle'
  BY <1>0, <1>3 DEF PullUnlink
<1>4. ASSUME NEW j \in Jobs, JobProgress(j) \/ JobProduces(j) PROVE Lifecycle'
  <2>1. Arrived'
    <3>1. j \in Ops /\ task[j] # "none" /\ UNCHANGED handlers
      BY <1>4 DEF JobProgress, JobProduces
    <3>2. \A u \in Ops \ {j} : phase'[u] = phase[u] /\ task'[u] = task[u]
      BY <1>4 DEF JobProgress, JobProduces
    <3>3. phase'[j] # "none"
      BY <1>4 DEF JobProgress, JobProduces
    <3> QED BY <3>1, <3>2, <3>3, TaskArrived
  <2>2. Booted'
    BY <1>0, <1>4 DEF JobProgress, JobProduces
  <2>3. TerminalMeansDone'
    BY <1>0, <1>4 DEF JobProgress, JobProduces
  <2> QED BY <1>0, <2>1, <2>2, <2>3
<1>5. ASSUME NEW j \in Jobs, JobBodyEnds(j) \/ JobCleanup(j) PROVE Lifecycle'
  BY <1>0, <1>5 DEF JobBodyEnds, BodyEnds, JobCleanup
<1>6. ASSUME NEW o \in Ops, TaskFinish(o) PROVE Lifecycle'
  <2>1. Arrived'
    <3>1. o \in Ops /\ task[o] # "none" /\ UNCHANGED handlers
      BY <1>6 DEF TaskFinish, Outcome
    <3>2. \A u \in Ops \ {o} : phase'[u] = phase[u] /\ task'[u] = task[u]
      BY <1>6 DEF TaskFinish, Outcome
    <3>3. phase'[o] # "none"
      BY <1>6 DEF TaskFinish, Outcome
    <3> QED BY <3>1, <3>2, <3>3, TaskArrived
  <2>2. Booted'
    BY <1>0, <1>6 DEF TaskFinish, Outcome
  <2>3. TerminalMeansDone'
    BY <1>0, <1>6 DEF TaskFinish, Outcome
  <2> QED BY <1>0, <2>1, <2>2, <2>3
<1>7. ASSUME NEW o \in Ops, OpUnlink(o) \/ TaskRelease(o) PROVE Lifecycle'
  BY <1>0, <1>7 DEF OpUnlink, TaskRelease
<1> QED BY <1>1, <1>2, <1>3, <1>4, <1>5, <1>6, <1>7 DEF PullWork, JobWork, TaskWork

\* A restart recovers and resumes only rows that are not terminal, before
\* any request is served.
LEMMA BootLifecycle == ASSUME Lifecycle, Crash \/ Boot PROVE Lifecycle'
<1> USE ConstantsAssumption
    DEF Lifecycle, TypeOK, Arrived, FreshJob, Booted, TerminalMeansDone, Serving, Terminal, Ops,
        JobStages, CancelOpStages
<1>0. TypeOK'
  BY BootType
<1>1. CASE Crash
  BY <1>0, <1>1 DEF Crash
<1>2. ASSUME NEW o \in Ops, RecoverRow(o) PROVE Lifecycle'
  BY <1>0, <1>2 DEF RecoverRow, UpdateOperation
<1>3. CASE CleanPartialFiles
  BY <1>0, <1>3 DEF CleanPartialFiles
<1>4. ASSUME NEW p \in Pulls, ResumePull(p) PROVE Lifecycle'
  BY <1>0, <1>4 DEF ResumePull, TryUpdateOperation, UpdateOperation, Spawn
<1>5. CASE Serve
  BY <1>0, <1>5 DEF Serve
<1> QED BY <1>1, <1>2, <1>3, <1>4, <1>5 DEF Boot

\* Lifecycle is inductive.
LEMMA NextLifecycle == Lifecycle /\ [Next]_vars => Lifecycle'
<1> SUFFICES ASSUME Lifecycle, [Next]_vars PROVE Lifecycle'
  OBVIOUS
<1>1. CASE UNCHANGED vars
  BY <1>1 DEF vars, Lifecycle, TypeOK, Arrived, FreshJob, Booted, TerminalMeansDone, Serving
<1>2. CASE Next
  BY <1>2, ArrivesLifecycle, HandleLifecycle, TaskLifecycle, BootLifecycle DEF Next
<1> QED BY <1>1, <1>2

(* A row that says the operation is over is never still being worked on,   *)
(* cleaned up or about to be written by its task.                          *)
THEOREM TerminalCorrect == Spec => []TerminalMeansDone
<1>1. Lifecycle => TerminalMeansDone
  BY DEF Lifecycle
<1> QED BY <1>1, InitLifecycle, NextLifecycle, PTL DEF Spec

-----------------------------------------------------------------------------
(* ReopenedOnlyByLateCancel *)

ReopensLate ==
    \A o \in Ops : phase[o] \in Terminal /\ phase'[o] # phase[o] =>
        /\ phase'[o] = "rollingBack"
        /\ \E r \in Requests : on[r] = o /\ at[r] \in {"cancelPullWrite", "cancelOpWrite"}

(* The row of one operation that is not over is written.                   *)
LEMMA WritesUnfinished ==
    ASSUME NEW o \in Ops, phase[o] \notin Terminal, \A u \in Ops \ {o} : phase'[u] = phase[u]
    PROVE  ReopensLate
BY DEF ReopensLate

\* The only handlers that write over a row are the late cancels.
LEMMA HandleReopens ==
    ASSUME Lifecycle, NEW r \in Requests, Handle(r) \/ Vanish(r) PROVE ReopensLate
<1> USE DEF Lifecycle, TypeOK, Arrived, FreshJob, Terminal
<1>1. CASE UNCHANGED phase
  BY <1>1 DEF ReopensLate
<1>2. ASSUME at[r] \in {"cancelPullWrite", "cancelOpWrite"},
             phase' = [phase EXCEPT ![on[r]] = "rollingBack"]
      PROVE  ReopensLate
  BY <1>2 DEF ReopensLate
<1>3. ASSUME phase[on[r]] = "none", on[r] \in Ops, phase' = [phase EXCEPT ![on[r]] = "queued"]
      PROVE  ReopensLate
  BY <1>3 DEF ReopensLate
<1>4. CASE PullInsert(r) \/ JobInsert(r)
  <2>1. on[r] \in Ops
    BY <1>4 DEF PullInsert, JobInsert, JobStages, PullStages, Ops
  <2>2. at[r] = "jobInsert" => phase[on[r]] = "none"
    BY DEF JobStages
  <2> QED BY <1>1, <1>3, <1>4, <2>1, <2>2 DEF PullInsert, JobInsert, UpdateOperation
<1>5. CASE CancelPullWrite(r) \/ CancelOpWrite(r)
  BY <1>1, <1>2, <1>5 DEF CancelPullWrite, CancelOpWrite, TryUpdateOperation, UpdateOperation
<1>6. CASE Vanish(r)
  <2>1. at[r] \in {"pullInsert", "jobInsert"} => on[r] \in Ops
    BY DEF JobStages, PullStages, Ops
  <2> QED BY <1>1, <1>2, <1>3, <1>6, <2>1 DEF Vanish, StatementOf
<1> QED BY <1>1, <1>4, <1>5, <1>6
        DEF Handle, PullReserve, PullLink, PullOpLink, PullUndoPullLink, PullUndoOpLink,
            PullUndoReserve, JobCheck, JobReserve, JobLink, ImageGuard, ImageDocker,
            ImageRelease, CancelPullSignal, CancelOpSignal

\* A task that may still write has a row that is not terminal.
LEMMA TaskReopens ==
    ASSUME Lifecycle,
           \/ \E p \in Pulls : PullWork(p) \/ PullProgress(p)
           \/ \E j \in Jobs : JobWork(j) \/ JobProgress(j) \/ JobProduces(j)
           \/ \E o \in Ops : TaskWork(o)
    PROVE  ReopensLate
<1>1. CASE UNCHANGED phase
  BY <1>1 DEF ReopensLate
<1>2. ASSUME NEW o \in Ops, NEW new, task[o] \in {"spawned", "body", "drain", "finish"},
             phase' = [phase EXCEPT ![o] = new]
      PROVE  ReopensLate
  <2>1. phase[o] \notin Terminal /\ \A u \in Ops \ {o} : phase'[u] = phase[u]
    BY <1>2 DEF Lifecycle, TypeOK, TerminalMeansDone
  <2> QED BY <2>1, WritesUnfinished
<1>3. ASSUME NEW p \in Pulls, PullBegin(p) \/ PullProgress(p) PROVE ReopensLate
  BY <1>1, <1>2, <1>3
     DEF PullBegin, PullProgress, Advance, TryUpdateOperation, UpdateOperation, Ops
<1>4. ASSUME NEW j \in Jobs, JobProgress(j) PROVE ReopensLate
  <2>1. j \in Ops /\ phase[j] \notin Terminal
    BY <1>4 DEF JobProgress, Lifecycle, TerminalMeansDone, Ops
  <2>2. \A u \in Ops \ {j} : phase'[u] = phase[u]
    BY <1>4 DEF JobProgress, UpdateOperation, Lifecycle, TypeOK
  <2> QED BY <2>1, <2>2, WritesUnfinished
<1>5. ASSUME NEW o \in Ops, TaskFinish(o) PROVE ReopensLate
  BY <1>1, <1>2, <1>5 DEF TaskFinish, Advance, TryUpdateOperation, UpdateOperation
<1> QED BY <1>1, <1>3, <1>4, <1>5
        DEF PullWork, PullBodyEnds, PullDrained, PullUnlink, JobWork, JobBodyEnds, JobCleanup,
            JobProduces, TaskWork, OpUnlink, TaskRelease

\* What main() writes over was unfinished when the controller stopped.
LEMMA BootReopens == ASSUME Lifecycle, Crash \/ Boot PROVE ReopensLate
<1>1. CASE UNCHANGED phase
  BY <1>1 DEF ReopensLate
<1>2. ASSUME NEW o \in Ops, o \in todo, NEW new, phase' = [phase EXCEPT ![o] = new]
      PROVE  ReopensLate
  <2>1. phase[o] \notin Terminal /\ \A u \in Ops \ {o} : phase'[u] = phase[u]
    BY <1>2 DEF Lifecycle, TypeOK, Booted
  <2> QED BY <2>1, WritesUnfinished
<1>3. ASSUME NEW o \in Ops, RecoverRow(o) PROVE ReopensLate
  BY <1>2, <1>3 DEF RecoverRow, UpdateOperation
<1>4. ASSUME NEW p \in Pulls, ResumePull(p) PROVE ReopensLate
  BY <1>1, <1>2, <1>4 DEF ResumePull, TryUpdateOperation, UpdateOperation, Ops
<1> QED BY <1>1, <1>3, <1>4 DEF Crash, Boot, CleanPartialFiles, Serve

(* A row that is over changes only when a request to cancel that read it   *)
(* before writes rollingBack over it: no task is left to write it, no      *)
(* restart recovers it, and no insert or resume finds it.                  *)
THEOREM ReopenedCorrect == Spec => ReopenedOnlyByLateCancel
<1>1. Lifecycle /\ [Next]_vars => [ReopensLate]_vars
  <2> SUFFICES ASSUME Lifecycle, Next PROVE ReopensLate
    OBVIOUS
  <2>1. ASSUME NEW r \in Requests, Arrives(r) PROVE ReopensLate
    BY <2>1 DEF ReopensLate, Arrives, PullReattach, PullLookup, CancelPullRead, JobRequest,
                CancelOpRead, CancelRefused, ImageReserve, vars
  <2> QED BY <2>1, HandleReopens, TaskReopens, BootReopens DEF Next
<1> QED BY <1>1, InitLifecycle, NextLifecycle, PTL
        DEF Spec, ReopenedOnlyByLateCancel, ReopensLate

-----------------------------------------------------------------------------
(* CancelledAfterCleanup *)

\* Whoever is about to write the row has tried to remove the artifacts.
Cleaned ==
    /\ CancelledAfterCleanup
    /\ \A j \in Jobs : task[j] = "finish" => residue[j] # "made"

\* At first no row is cancelled and no artifact is left.
LEMMA InitCleaned == Init => Cleaned
BY DEF Init, Cleaned, CancelledAfterCleanup, Ops

(* Nothing is made and no job comes to its end.                     *)
LEMMA CleanedSame ==
    ASSUME Cleaned, \A j \in Jobs : residue'[j] = "made" => residue[j] = "made",
           \A j \in Jobs : phase'[j] = "cancelled" => phase[j] = "cancelled",
           \A j \in Jobs : task'[j] = "finish" => task[j] = "finish"
    PROVE  Cleaned'
BY DEF Cleaned, CancelledAfterCleanup

\* A handler never writes `cancelled` and never produces an artifact.
LEMMA RequestCleaned ==
    ASSUME TypeOK, Cleaned, NEW r \in Requests, Arrives(r) \/ Handle(r) \/ Vanish(r)
    PROVE  Cleaned'
<1>1. residue' = residue
  BY DEF Arrives, PullReattach, PullLookup, CancelPullRead, JobRequest, CancelOpRead,
         CancelRefused, ImageReserve, vars, Handle, PullReserve, PullLink, PullOpLink,
         PullInsert, PullUndoPullLink, PullUndoOpLink, PullUndoReserve, JobCheck, JobReserve,
         JobInsert, JobLink, Spawn, ImageGuard, ImageDocker, ImageRelease, CancelPullSignal,
         CancelPullWrite, CancelOpSignal, CancelOpWrite, Vanish
<1>2. \/ UNCHANGED phase
      \/ \E new \in {"queued", "rollingBack"} : phase' = [phase EXCEPT ![on[r]] = new]
  BY DEF Arrives, PullReattach, PullLookup, CancelPullRead, JobRequest, CancelOpRead,
         CancelRefused, ImageReserve, vars, Handle, PullReserve, PullLink, PullOpLink,
         PullInsert, PullUndoPullLink, PullUndoOpLink, PullUndoReserve, JobCheck, JobReserve,
         JobInsert, JobLink, ImageGuard, ImageDocker, ImageRelease, CancelPullSignal,
         CancelPullWrite, CancelOpSignal, CancelOpWrite, Vanish, StatementOf,
         TryUpdateOperation, UpdateOperation
<1>3. \/ UNCHANGED task
      \/ \E new \in {"spawned", "body"} : task' = [task EXCEPT ![on[r]] = new]
  BY DEF Arrives, PullReattach, PullLookup, CancelPullRead, JobRequest, CancelOpRead,
         CancelRefused, ImageReserve, vars, Handle, PullReserve, PullLink, PullOpLink,
         PullInsert, PullUndoPullLink, PullUndoOpLink, PullUndoReserve, JobCheck, JobReserve,
         JobInsert, JobLink, Spawn, ImageGuard, ImageDocker, ImageRelease, CancelPullSignal,
         CancelPullWrite, CancelOpSignal, CancelOpWrite, Vanish
<1>4. \A j \in Jobs : phase'[j] = "cancelled" => phase[j] = "cancelled"
  BY <1>2 DEF TypeOK, Ops
<1>5. \A j \in Jobs : task'[j] = "finish" => task[j] = "finish"
  BY <1>3 DEF TypeOK, Ops
<1> QED BY <1>1, <1>4, <1>5, CleanedSame

\* A job comes to its end through the cleanup or a success, and produces
\* nothing after.
LEMMA TaskCleaned ==
    ASSUME TypeOK, TerminalMeansDone, Cleaned,
           \/ \E p \in Pulls : PullWork(p) \/ PullProgress(p)
           \/ \E j \in Jobs : JobWork(j) \/ JobProgress(j) \/ JobProduces(j)
           \/ \E o \in Ops : TaskWork(o)
    PROVE  Cleaned'
<1> USE ConstantsAssumption
    DEF TypeOK, Cleaned, CancelledAfterCleanup, Advance, UpdateOperation, TryUpdateOperation, Ops
<1>1. ASSUME NEW p \in Pulls, PullWork(p) \/ PullProgress(p) PROVE Cleaned'
  BY <1>1 DEF PullWork, PullBegin, PullProgress, PullBodyEnds, BodyEnds, PullDrained, PullUnlink
<1>2. ASSUME NEW j \in Jobs, JobProgress(j) PROVE Cleaned'
  BY <1>2 DEF JobProgress
<1>3. ASSUME NEW j \in Jobs, JobProduces(j) PROVE Cleaned'
  BY <1>3 DEF JobProduces, TerminalMeansDone, Terminal
<1>4. ASSUME NEW j \in Jobs, JobWork(j) PROVE Cleaned'
  BY <1>4 DEF JobWork, JobBodyEnds, BodyEnds, JobCleanup, RemoveArtifacts
<1>5. ASSUME NEW o \in Ops, TaskFinish(o) PROVE Cleaned'
  BY <1>5 DEF TaskFinish
<1>6. ASSUME NEW o \in Ops, OpUnlink(o) \/ TaskRelease(o) PROVE Cleaned'
  BY <1>6 DEF OpUnlink, TaskRelease
<1> QED BY <1>1, <1>2, <1>3, <1>4, <1>5, <1>6 DEF TaskWork

\* A restart ends every job; recovery writes `retryable`, never
\* `cancelled`.
LEMMA BootCleaned == ASSUME TypeOK, Cleaned, Crash \/ Boot PROVE Cleaned'
<1> USE ConstantsAssumption DEF TypeOK, Ops
<1>1. CASE Crash
  BY <1>1, CleanedSame DEF Crash
<1>2. ASSUME NEW o \in Ops, RecoverRow(o) PROVE Cleaned'
  BY <1>2, CleanedSame DEF RecoverRow, UpdateOperation
<1>3. CASE CleanPartialFiles
  BY <1>3, CleanedSame DEF CleanPartialFiles
<1>4. ASSUME NEW p \in Pulls, ResumePull(p) PROVE Cleaned'
  BY <1>4, CleanedSame DEF ResumePull, TryUpdateOperation, UpdateOperation, Spawn
<1>5. CASE Serve
  BY <1>5, CleanedSame DEF Serve
<1> QED BY <1>1, <1>2, <1>3, <1>4, <1>5 DEF Boot

(* `cancelled` is never in the row of a job before the removal of all it   *)
(* made was tried: nothing is made once the row may be written, and every  *)
(* way to the end of a job passes the cleanup or a success.                *)
THEOREM CancelledCorrect == Spec => []CancelledAfterCleanup
<1>1. Lifecycle /\ Cleaned /\ [Next]_vars => Cleaned'
  <2> SUFFICES ASSUME Lifecycle, Cleaned, [Next]_vars PROVE Cleaned'
    OBVIOUS
  <2>1. TypeOK /\ TerminalMeansDone
    BY DEF Lifecycle
  <2>2. CASE UNCHANGED vars
    BY <2>2, CleanedSame DEF vars
  <2>3. CASE Next
    BY <2>1, <2>3, RequestCleaned, TaskCleaned, BootCleaned DEF Next
  <2> QED BY <2>2, <2>3
<1>2. Cleaned => CancelledAfterCleanup
  BY DEF Cleaned
<1> QED BY <1>1, <1>2, InitLifecycle, NextLifecycle, InitCleaned, PTL DEF Spec

-----------------------------------------------------------------------------
(* RunningIsCancellable *)

(* A pull has its channel in the tables from the moment its handler put it *)
(* there.                                                                  *)
Linked ==
    /\ RunningIsCancellable
    /\ \A r \in Requests :
          /\ at[r] \in {"pullOpLink", "pullInsert"} => on[r] \in pullSenders
          /\ at[r] = "pullInsert" => on[r] \in opSenders

\* At first nothing runs and nothing is linked.
LEMMA InitLinked == Init => Linked
BY ConstantsAssumption DEF Init, Linked, RunningIsCancellable, Working, Cancellable, Ops

(* No channel is taken away and nobody starts to rely on one.              *)
LEMMA LinkedSame ==
    ASSUME Linked, pullSenders \subseteq pullSenders', opSenders \subseteq opSenders',
           \A o \in Cancellable : task'[o] \in Working => task[o] \in Working,
           \A r \in Requests :
              at'[r] \in {"pullOpLink", "pullInsert"} => at'[r] = at[r] /\ on'[r] = on[r]
    PROVE  Linked'
BY DEF Linked, RunningIsCancellable

(* While a request undoes its links, no pull runs and none is linked.      *)
LEMMA UndoAlone ==
    ASSUME TypeOK, Exclusion, NEW r \in Requests, at[r] \in {"undoPull", "undoOp"}
    PROVE  /\ \A p \in Pulls : task[p] = "none"
           /\ \A q \in Requests \ {r} : at[q] \notin {"pullOpLink", "pullInsert"}
<1>1. RequestHolds(r) = {DockerImages}
  BY DEF RequestHolds, HoldsImages, PullStages
<1>2. ASSUME NEW p \in Pulls PROVE task[p] = "none"
  <2>1. TaskHolds(p) # {DockerImages}
    BY <1>1 DEF Exclusion, ResourceExclusion, Ops
  <2> QED BY <2>1, ConstantsAssumption DEF TaskHolds
<1>3. ASSUME NEW q \in Requests \ {r} PROVE at[q] \notin {"pullOpLink", "pullInsert"}
  <2>1. RequestHolds(q) # {DockerImages}
    BY <1>1 DEF Exclusion, ResourceExclusion
  <2> QED BY <2>1 DEF RequestHolds, HoldsImages, PullStages
<1> QED BY <1>2, <1>3

(* While a task removes its channel, nobody else has one of its own.       *)
LEMMA UnlinkAlone ==
    ASSUME TypeOK, Exclusion, NEW p \in Pulls, task[p] # "none", NEW r \in Requests
    PROVE  at[r] \notin {"pullOpLink", "pullInsert"}
<1>1. TaskHolds(p) = {DockerImages}
  BY ConstantsAssumption DEF TaskHolds
<1>2. RequestHolds(r) # {DockerImages}
  BY <1>1 DEF Exclusion, ResourceExclusion, Ops
<1> QED BY <1>2 DEF RequestHolds, HoldsImages, PullStages

\* A request that arrives touches no channel.
LEMMA ArrivesLinked ==
    ASSUME TypeOK, Linked, NEW r \in Requests, Arrives(r) \/ Vanish(r) PROVE Linked'
<1>1. UNCHANGED <<pullSenders, opSenders, task>>
  BY DEF Arrives, PullReattach, PullLookup, CancelPullRead, JobRequest, CancelOpRead,
         CancelRefused, ImageReserve, vars, Vanish
<1>2. \A q \in Requests :
         at'[q] \in {"pullOpLink", "pullInsert"} => at'[q] = at[q] /\ on'[q] = on[q]
  BY DEF Arrives, PullReattach, PullLookup, CancelPullRead, JobRequest, CancelOpRead,
         CancelRefused, ImageReserve, vars, Vanish, Begin, Goto, Return, TypeOK
<1> QED BY <1>1, <1>2, LinkedSame

\* An undo removes the channels of its own pull, which no task has: the
\* request has "docker-images".
LEMMA HandleLinked ==
    ASSUME TypeOK, Exclusion, Linked, NEW r \in Requests, Handle(r) PROVE Linked'
<1> USE DEF TypeOK, Goto, Return
<1>1. CASE PullReserve(r)
  BY <1>1, LinkedSame DEF PullReserve
<1>2. CASE PullLink(r)
  BY <1>2 DEF PullLink, Linked, RunningIsCancellable
<1>3. CASE PullOpLink(r)
  BY <1>3 DEF PullOpLink, Linked, RunningIsCancellable
<1>4. CASE PullInsert(r)
  <2>1. CASE Spawn(on[r]) /\ Return(r) /\ UNCHANGED tables
    BY <1>4, <2>1 DEF PullInsert, Spawn, Linked, RunningIsCancellable
  <2>2. CASE Goto(r, "undoPull") /\ UNCHANGED tables /\ UNCHANGED tasks
    BY <2>2, LinkedSame
  <2> QED BY <1>4, <2>1, <2>2 DEF PullInsert
<1>5. CASE PullUndoPullLink(r) \/ PullUndoOpLink(r)
  <2>1. at[r] \in {"undoPull", "undoOp"} /\ UNCHANGED task
    BY <1>5 DEF PullUndoPullLink, PullUndoOpLink
  <2>2. /\ \A p \in Pulls : task[p] = "none"
        /\ \A q \in Requests \ {r} : at[q] \notin {"pullOpLink", "pullInsert"}
    BY <2>1, UndoAlone
  <2>3. on[r] \in Pulls /\ opSenders \ {on[r]} \subseteq opSenders'
    BY <1>5 DEF PullUndoPullLink, PullUndoOpLink, PullStages
  <2>4. \A q \in Requests : at'[q] \notin {"pullOpLink", "pullInsert"}
    BY <1>5, <2>2 DEF PullUndoPullLink, PullUndoOpLink
  <2> QED BY <2>1, <2>2, <2>3, <2>4 DEF Linked, RunningIsCancellable, Working
<1>6. CASE PullUndoReserve(r) \/ JobCheck(r) \/ JobReserve(r)
  BY <1>6, LinkedSame DEF PullUndoReserve, JobCheck, JobReserve
<1>7. CASE JobInsert(r)
  <2>1. /\ on[r] \in Jobs /\ at[r] = "jobInsert" /\ UNCHANGED tables
        /\ \A q \in Requests :
              at'[q] \in {"pullOpLink", "pullInsert"} => at'[q] = at[q] /\ on'[q] = on[q]
    BY <1>7 DEF JobInsert, JobStages
  <2>2. \A o \in Cancellable : task'[o] \in Working => task[o] \in Working
    <3>1. on[r] \in CancellableJobs \/ on[r] \notin Cancellable
      BY <2>1, ConstantsAssumption DEF Cancellable
    <3>2. CASE UNCHANGED task
      BY <3>2
    <3>3. CASE on[r] \notin Cancellable /\ task' = [task EXCEPT ![on[r]] = "body"]
      BY <2>1, <3>3, ConstantsAssumption DEF Cancellable, Ops
    <3> QED BY <1>7, <2>1, <3>1, <3>2, <3>3, ConstantsAssumption DEF JobInsert, Spawn
  <2> QED BY <2>1, <2>2, LinkedSame
<1>8. CASE JobLink(r)
  <2>1. on[r] \in Jobs \ Pulls
    BY <1>8, ConstantsAssumption DEF JobLink, JobStages
  <2> QED BY <1>8, <2>1 DEF JobLink, Spawn, Linked, RunningIsCancellable
<1>9. CASE ImageGuard(r) \/ ImageDocker(r) \/ ImageRelease(r)
  BY <1>9, LinkedSame DEF ImageGuard, ImageDocker, ImageRelease
<1>10. CASE \/ CancelPullSignal(r) \/ CancelPullWrite(r) \/ CancelOpSignal(r) \/ CancelOpWrite(r)
  BY <1>10, LinkedSame DEF CancelPullSignal, CancelPullWrite, CancelOpSignal, CancelOpWrite
<1> QED BY <1>1, <1>2, <1>3, <1>4, <1>5, <1>6, <1>7, <1>8, <1>9, <1>10 DEF Handle

\* A task removes its own channel, after its body has ended.
LEMMA TaskLinked ==
    ASSUME TypeOK, Exclusion, Linked,
           \/ \E p \in Pulls : PullWork(p) \/ PullProgress(p)
           \/ \E j \in Jobs : JobWork(j) \/ JobProgress(j) \/ JobProduces(j)
           \/ \E o \in Ops : TaskWork(o)
    PROVE  Linked'
<1> USE ConstantsAssumption DEF TypeOK, Advance, Working, Cancellable, Ops
<1>1. ASSUME NEW p \in Pulls, PullBegin(p) \/ PullProgress(p) PROVE Linked'
  BY <1>1, LinkedSame DEF PullBegin, PullProgress
<1>2. ASSUME NEW p \in Pulls, PullBodyEnds(p) \/ PullDrained(p) PROVE Linked'
  BY <1>2, LinkedSame DEF PullBodyEnds, BodyEnds, PullDrained
<1>3. ASSUME NEW p \in Pulls, PullUnlink(p) PROVE Linked'
  <2>1. \A r \in Requests : at[r] \notin {"pullOpLink", "pullInsert"}
    BY <1>3, UnlinkAlone DEF PullUnlink
  <2> QED BY <1>3, <2>1 DEF PullUnlink, Linked, RunningIsCancellable
<1>4. ASSUME NEW j \in Jobs, JobProgress(j) \/ JobProduces(j) PROVE Linked'
  BY <1>4, LinkedSame DEF JobProgress, JobProduces
<1>5. ASSUME NEW j \in Jobs, JobBodyEnds(j) \/ JobCleanup(j) PROVE Linked'
  BY <1>5, LinkedSame DEF JobBodyEnds, BodyEnds, JobCleanup
<1>6. ASSUME NEW o \in Ops, TaskFinish(o) \/ TaskRelease(o) PROVE Linked'
  BY <1>6, LinkedSame DEF TaskFinish, TaskRelease
<1>7. ASSUME NEW o \in Ops, OpUnlink(o) PROVE Linked'
  <2>1. o \in Pulls => \A r \in Requests : at[r] \notin {"pullOpLink", "pullInsert"}
    BY <1>7, UnlinkAlone DEF OpUnlink
  <2>2. \A r \in Requests : at[r] = "pullInsert" => on[r] # o
    BY <2>1 DEF PullStages
  <2> QED BY <1>7, <2>2 DEF OpUnlink, Linked, RunningIsCancellable
<1> QED BY <1>1, <1>2, <1>3, <1>4, <1>5, <1>6, <1>7 DEF PullWork, JobWork, TaskWork

\* A resumed pull is linked in the step that spawns it.
LEMMA BootLinked == ASSUME TypeOK, Linked, Crash \/ Boot PROVE Linked'
<1> USE ConstantsAssumption DEF TypeOK, Working, Cancellable, Ops
<1>1. CASE Crash
  BY <1>1 DEF Crash, Linked, RunningIsCancellable, Cancellable
<1>2. CASE (\E o \in Ops : RecoverRow(o)) \/ CleanPartialFiles \/ Serve
  BY <1>2, LinkedSame DEF RecoverRow, CleanPartialFiles, Serve
<1>3. ASSUME NEW p \in Pulls, ResumePull(p) PROVE Linked'
  BY <1>3, LinkedSame DEF ResumePull, Spawn, Linked, RunningIsCancellable
<1> QED BY <1>1, <1>2, <1>3 DEF Boot

(* While the body of a cancellable operation runs, both cancel endpoints   *)
(* find its channel.  The undo of a failed pull and the end of another one *)
(* remove only their own: who removes a channel has "docker-images", so    *)
(* exclusion keeps every other pull out of the tables.                     *)
THEOREM CancellableCorrect == Spec => []RunningIsCancellable
<1>1. TypeOK /\ Exclusion /\ Linked /\ [Next]_vars => Linked'
  <2> SUFFICES ASSUME TypeOK, Exclusion, Linked, [Next]_vars PROVE Linked'
    OBVIOUS
  <2>1. CASE UNCHANGED vars
    BY <2>1, LinkedSame DEF vars
  <2>2. CASE Next
    BY <2>2, ArrivesLinked, HandleLinked, TaskLinked, BootLinked DEF Next
  <2> QED BY <2>1, <2>2
<1>2. Linked => RunningIsCancellable
  BY DEF Linked
<1> QED BY <1>1, <1>2, InitLinked, TypeCorrect, ExclusionCorrect, PTL DEF Spec

-----------------------------------------------------------------------------
(* UnfinishedIsWorkedOn, when every row is written *)

Open == {"queued", "running", "verifying"}

(* A row that is not over has a task, a handler that is about to spawn it, *)
(* or main() still to see it; a task on its way out has written it.        *)
Worked ==
    /\ \A o \in Ops : phase[o] \in Open =>
          \/ task[o] # "none"
          \/ \E r \in Requests : on[r] = o /\ at[r] = "jobLink"
          \/ ~Serving /\ o \in todo
    /\ \A o \in Ops : task[o] \in {"unlinkPull", "unlinkOp", "release"} => phase[o] \notin Open

\* At first there are no rows.
LEMMA InitWorked == Init => Worked
BY DEF Init, Worked, Open

(* No row is opened and nobody who worked on one leaves.                   *)
LEMMA WorkedSame ==
    ASSUME Worked, UNCHANGED <<boot, todo>>,
           \A o \in Ops : phase'[o] \in Open => phase[o] \in Open,
           \A o \in Ops : task'[o] = task[o],
           \A r \in Requests : at[r] = "jobLink" => at'[r] = "jobLink" /\ on'[r] = on[r]
    PROVE  Worked'
BY DEF Worked, Serving

\* A request that arrives writes no row.
LEMMA ArrivesWorked ==
    ASSUME TypeOK, Worked, NEW r \in Requests, Arrives(r) PROVE Worked'
<1>1. UNCHANGED <<phase, task, boot, todo>>
  BY DEF Arrives, PullReattach, PullLookup, CancelPullRead, JobRequest, CancelOpRead,
         CancelRefused, ImageReserve, vars
<1>2. \A q \in Requests : at[q] = "jobLink" => at'[q] = "jobLink" /\ on'[q] = on[q]
  BY DEF Arrives, PullReattach, PullLookup, CancelPullRead, JobRequest, CancelOpRead,
         CancelRefused, ImageReserve, vars, Begin, Goto, TypeOK
<1> QED BY <1>1, <1>2, WorkedSame

\* A row is inserted by the handler that spawns its task, or that will after
\* one more await.
LEMMA HandleWorked ==
    ASSUME ~DbMayFail, ~ClientMayVanish, Lifecycle, Worked,
           NEW r \in Requests, Handle(r) \/ Vanish(r)
    PROVE  Worked'
<1>0. TypeOK
  BY DEF Lifecycle
<1>1. ASSUME UNCHANGED <<phase, task, boot, todo>>, at[r] # "jobLink", NEW stage,
             at' = [at EXCEPT ![r] = stage],
             UNCHANGED on \/ (\E o : on' = [on EXCEPT ![r] = o])
      PROVE  Worked'
  <2>1. \A q \in Requests : at[q] = "jobLink" => at'[q] = "jobLink" /\ on'[q] = on[q]
    BY <1>0, <1>1 DEF TypeOK
  <2> QED BY <1>1, <2>1, WorkedSame
<1>2. ASSUME NEW o \in Ops, o = on[r], task[o] = "none", Spawn(o), Return(r),
             phase[o] \notin Terminal,
             \A u \in Ops \ {o} : phase'[u] = phase[u], UNCHANGED <<boot, todo>>
      PROVE  Worked'
  <2>1. task'[o] \in {"spawned", "body"} /\ \A u \in Ops \ {o} : task'[u] = task[u]
    BY <1>0, <1>2 DEF Spawn, TypeOK
  <2>2. \A q \in Requests \ {r} : at'[q] = at[q] /\ on'[q] = on[q]
    BY <1>0, <1>2 DEF Return, TypeOK
  <2> QED BY <1>2, <2>1, <2>2 DEF Worked, Serving
<1>3. CASE PullInsert(r)
  <2>1. PICK p \in Pulls : p = on[r] /\ p \in Ops
    BY <1>0, <1>3 DEF PullInsert, TypeOK, PullStages, Ops
  <2>2. CASE Goto(r, "undoPull") /\ UNCHANGED <<phase, task>>
    BY <1>1, <1>3, <2>2 DEF PullInsert, Goto
  <2>3. CASE phase[p] = "none" /\ UpdateOperation(p, "queued") /\ Spawn(p) /\ Return(r)
    <3>1. task[p] = "none" /\ phase[p] \notin Terminal
      BY <2>1, <2>3 DEF Lifecycle, Arrived, Terminal
    <3>2. \A u \in Ops \ {p} : phase'[u] = phase[u]
      BY <1>0, <2>3 DEF UpdateOperation, TypeOK
    <3> QED BY <1>2, <1>3, <2>1, <2>3, <3>1, <3>2 DEF PullInsert
  <2> QED BY <1>3, <2>1, <2>2, <2>3 DEF PullInsert
<1>4. CASE JobInsert(r)
  <2>1. PICK j \in Jobs : j = on[r] /\ j \in Ops
    BY <1>0, <1>4 DEF JobInsert, TypeOK, JobStages, Ops
  <2>2. phase[j] = "none" /\ task[j] = "none" /\ at[r] = "jobInsert"
    BY <1>4, <2>1 DEF JobInsert, Lifecycle, Arrived, FreshJob, JobStages
  <2>3. \A u \in Ops \ {j} : phase'[u] = phase[u]
    BY <1>0, <1>4, <2>1 DEF JobInsert, UpdateOperation, TypeOK
  <2>4. CASE Goto(r, "jobLink") /\ UNCHANGED task
    <3>1. /\ at'[r] = "jobLink" /\ on' = on
          /\ \A q \in Requests \ {r} : at'[q] = at[q]
      BY <1>0, <2>4 DEF Goto, TypeOK
    <3> QED BY <1>4, <2>1, <2>2, <2>3, <2>4, <3>1 DEF JobInsert, Worked, Serving
  <2>5. CASE Spawn(j) /\ Return(r)
    BY <1>2, <1>4, <2>1, <2>2, <2>3, <2>5 DEF JobInsert, Terminal
  <2> QED BY <1>4, <2>1, <2>4, <2>5 DEF JobInsert
<1>5. CASE JobLink(r)
  <2>1. PICK j \in Jobs : j = on[r] /\ j \in Ops
    BY <1>0, <1>5 DEF JobLink, TypeOK, JobStages, Ops
  <2>2. phase[j] \in {"queued", "rollingBack"} /\ task[j] = "none"
    BY <1>5, <2>1 DEF JobLink, Lifecycle, Arrived, FreshJob, JobStages
  <2> QED BY <1>2, <1>5, <2>1, <2>2 DEF JobLink, Terminal
<1>6. CASE CancelPullWrite(r) \/ CancelOpWrite(r)
  <2>1. phase' = [phase EXCEPT ![on[r]] = "rollingBack"]
    BY <1>6 DEF CancelPullWrite, CancelOpWrite, TryUpdateOperation, UpdateOperation
  <2>2. \A o \in Ops : phase'[o] \in Open => phase[o] \in Open
    BY <1>0, <2>1 DEF TypeOK, Open
  <2>3. \A q \in Requests : at[q] = "jobLink" => at'[q] = "jobLink" /\ on'[q] = on[q]
    BY <1>0, <1>6 DEF CancelPullWrite, CancelOpWrite, Return, TypeOK
  <2> QED BY <1>6, <2>2, <2>3, WorkedSame DEF CancelPullWrite, CancelOpWrite
<1>7. ~Vanish(r)
  BY DEF Vanish
<1> QED BY <1>1, <1>3, <1>4, <1>5, <1>6, <1>7
        DEF Handle, Goto, Return, PullReserve, PullLink, PullOpLink, PullUndoPullLink,
            PullUndoOpLink, PullUndoReserve, JobCheck, JobReserve, ImageGuard, ImageDocker,
            ImageRelease, CancelPullSignal, CancelOpSignal

\* A task leaves only after it has written a terminal phase.
LEMMA TaskWorked ==
    ASSUME ~DbMayFail, TypeOK, Worked,
           \/ \E p \in Pulls : PullWork(p) \/ PullProgress(p)
           \/ \E j \in Jobs : JobWork(j) \/ JobProgress(j) \/ JobProduces(j)
           \/ \E o \in Ops : TaskWork(o)
    PROVE  Worked'
<1> USE ConstantsAssumption
    DEF TypeOK, Worked, Serving, Advance, UpdateOperation, TryUpdateOperation, Ops
<1>1. ASSUME NEW p \in Pulls, PullBegin(p) \/ PullProgress(p) PROVE Worked'
  BY <1>1 DEF PullBegin, PullProgress
<1>2. ASSUME NEW p \in Pulls, PullBodyEnds(p) \/ PullDrained(p) PROVE Worked'
  BY <1>2 DEF PullBodyEnds, BodyEnds, PullDrained
<1>3. ASSUME NEW p \in Pulls, PullUnlink(p) PROVE Worked'
  BY <1>3 DEF PullUnlink
<1>4. ASSUME NEW j \in Jobs, JobProgress(j) \/ JobProduces(j) PROVE Worked'
  BY <1>4 DEF JobProgress, JobProduces
<1>5. ASSUME NEW j \in Jobs, JobBodyEnds(j) \/ JobCleanup(j) PROVE Worked'
  BY <1>5 DEF JobBodyEnds, BodyEnds, JobCleanup
<1>6. ASSUME NEW o \in Ops, TaskFinish(o) PROVE Worked'
  BY <1>6 DEF TaskFinish, Outcome, Open
<1>7. ASSUME NEW o \in Ops, OpUnlink(o) \/ TaskRelease(o) PROVE Worked'
  BY <1>7 DEF OpUnlink, TaskRelease
<1> QED BY <1>1, <1>2, <1>3, <1>4, <1>5, <1>6, <1>7 DEF PullWork, JobWork, TaskWork

\* Every unfinished row is in the list until it is made `retryable` or
\* resumed, and the controller serves only once the list is empty.
LEMMA BootWorked ==
    ASSUME ~DbMayFail, Lifecycle, Worked, Crash \/ Boot PROVE Worked'
<1> USE ConstantsAssumption DEF Lifecycle, TypeOK, Worked, Serving, Open, Ops
<1>1. CASE Crash
  BY <1>1 DEF Crash, Terminal
<1>2. ASSUME NEW o \in Ops, RecoverRow(o) PROVE Worked'
  <2>1. ~Serving /\ o \in todo /\ task[o] = "none"
    BY <1>2 DEF RecoverRow, Booted
  <2> QED BY <1>2, <2>1 DEF RecoverRow, UpdateOperation
<1>3. CASE CleanPartialFiles
  BY <1>3 DEF CleanPartialFiles
<1>4. ASSUME NEW p \in Pulls, ResumePull(p) PROVE Worked'
  <2>1. ~Serving /\ p \in todo /\ task[p] = "none"
    BY <1>4 DEF ResumePull, Booted
  <2> QED BY <1>4, <2>1 DEF ResumePull, TryUpdateOperation, UpdateOperation, Spawn
<1>5. CASE Serve
  BY <1>5 DEF Serve
<1> QED BY <1>1, <1>2, <1>3, <1>4, <1>5 DEF Boot

(* When every row is written and no connection closes, nobody polls a row  *)
(* that no one will finish: a row that is queued, running or verifying has *)
(* a task or a handler about to spawn it, over restarts and resumes too.   *)
THEOREM WorkedOnCorrect ==
    ASSUME ~DbMayFail, ~ClientMayVanish PROVE Spec => []UnfinishedIsWorkedOn
<1>1. Lifecycle /\ Worked /\ [Next]_vars => Worked'
  <2> SUFFICES ASSUME Lifecycle, Worked, [Next]_vars PROVE Worked'
    OBVIOUS
  <2>1. TypeOK
    BY DEF Lifecycle
  <2>2. CASE UNCHANGED vars
    BY <2>2, WorkedSame DEF vars
  <2>3. CASE Next
    BY <2>1, <2>3, ArrivesWorked, HandleWorked, TaskWorked, BootWorked DEF Next
  <2> QED BY <2>2, <2>3
<1>2. Worked => UnfinishedIsWorkedOn
  BY DEF Worked, UnfinishedIsWorkedOn, Open
<1> QED BY <1>1, <1>2, InitLifecycle, NextLifecycle, InitWorked, PTL DEF Spec

-----------------------------------------------------------------------------
(* NoStaleChannel, when every row is written *)

Attended(o) == task[o] # "none" \/ \E r \in Requests : on[r] = o /\ RequestHolds(r) # {}

(* Who lets go of what a channel belongs to has removed it; a handler that *)
(* starts or ends with its links has none yet or none any more.            *)
LetGo ==
    /\ \A o \in Ops :
          /\ task[o] \in {"unlinkOp", "release"} => o \notin pullSenders
          /\ task[o] = "release" => o \notin opSenders
    /\ \A r \in Requests :
          /\ at[r] \in {"idle"} \cup ImageStages => on[r] = NoOp
          /\ at[r] = "jobLink" => on[r] \in CancellableJobs
          /\ at[r] \in {"pullLink", "undoOp", "undoReserve"} => on[r] \notin pullSenders
          /\ at[r] \in {"pullLink", "undoReserve"} => on[r] \notin opSenders

Attached ==
    /\ \A o \in pullSenders \cup opSenders : Attended(o)
    /\ opSenders \subseteq Cancellable
    /\ LetGo

\* At first there are no channels.
LEMMA InitAttached == Init => Attached
BY DEF Init, Attached, LetGo, ImageStages

(* Nobody else is at a pull while a handler or a task is at one.           *)
LEMMA PullAlone ==
    ASSUME TypeOK, Exclusion
    PROVE  /\ \A r, q \in Requests :
                 r # q /\ at[r] \in HoldsImages => at[q] \notin HoldsImages
           /\ \A r \in Requests, p \in Pulls : at[r] \in HoldsImages => task[p] = "none"
           /\ \A r \in Requests : at[r] \in HoldsImages => DockerImages \in active
           /\ \A p \in Pulls : task[p] # "none" => DockerImages \in active
<1>1. \A r \in Requests : at[r] \in HoldsImages => RequestHolds(r) = {DockerImages}
  BY DEF RequestHolds
<1>2. \A p \in Pulls : task[p] # "none" => TaskHolds(p) = {DockerImages}
  BY ConstantsAssumption DEF TaskHolds
<1>3. \A p \in Pulls : p \in Ops
  BY DEF Ops
<1> QED BY <1>1, <1>2, <1>3 DEF Exclusion, HeldIsReserved, ResourceExclusion

(* While the images are free, no pull has a channel.                       *)
LEMMA FreeMeansUnlinked ==
    ASSUME TypeOK, Exclusion, Attached, DockerImages \notin active, NEW p \in Pulls
    PROVE  p \notin pullSenders /\ p \notin opSenders
<1>1. task[p] = "none"
  BY PullAlone
<1>2. ASSUME NEW r \in Requests, on[r] = p PROVE RequestHolds(r) = {}
  <2>1. at[r] \notin HoldsImages
    BY PullAlone
  <2>2. at[r] \notin JobStages
    BY <1>2, ConstantsAssumption DEF TypeOK
  <2> QED BY <2>1, <2>2 DEF RequestHolds, JobStages
<1> QED BY <1>1, <1>2 DEF Attached, Attended

(* Channels go, and whoever attended one still does.                       *)
LEMMA AttachedSame ==
    ASSUME Attached, LetGo', pullSenders' \subseteq pullSenders, opSenders' \subseteq opSenders,
           \A o \in pullSenders' \cup opSenders' : Attended(o) => Attended(o)'
    PROVE  Attached'
BY DEF Attached

\* The step of one handler: what its operation loses it has no channel for.
LEMMA HandlerLetsGo ==
    ASSUME TypeOK, Attached, LetGo', NEW r \in Requests, NEW stage,
           at' = [at EXCEPT ![r] = stage],
           UNCHANGED on \/ (\E o : on' = [on EXCEPT ![r] = o]),
           pullSenders' \subseteq pullSenders, opSenders' \subseteq opSenders,
           \A o \in Ops : task[o] # "none" => task'[o] # "none",
           \/ RequestHolds(r) = {} \/ on[r] = NoOp
           \/ on' = on /\ RequestHolds(r)' # {}
           \/ on[r] \notin pullSenders' \cup opSenders'
           \/ on[r] \in Ops /\ task'[on[r]] # "none"
    PROVE  Attached'
<1>1. \A q \in Requests \ {r} : RequestHolds(q)' = RequestHolds(q) /\ on'[q] = on[q]
  BY OthersHoldSame DEF TypeOK
<1>2. ASSUME NEW o \in pullSenders' \cup opSenders', Attended(o) PROVE Attended(o)'
  <2>1. o \in Ops
    BY ConstantsAssumption DEF TypeOK, Ops
  <2>2. CASE task[o] # "none"
    BY <2>1, <2>2 DEF Attended
  <2>3. ASSUME NEW q \in Requests \ {r}, on[q] = o, RequestHolds(q) # {} PROVE Attended(o)'
    BY <1>1, <2>3 DEF Attended
  <2>4. CASE on[r] = o /\ RequestHolds(r) # {}
    BY <1>2, <2>1, <2>4, ConstantsAssumption DEF Attended
  <2> QED BY <1>2, <2>2, <2>3, <2>4 DEF Attended
<1> QED BY <1>2, AttachedSame

\* A request that arrives touches no channel and takes no name from one.
LEMMA ArrivesAttached ==
    ASSUME TypeOK, Exclusion, Attached, NEW r \in Requests, Arrives(r) PROVE Attached'
<1>1. CASE UNCHANGED vars
  BY <1>1 DEF vars, Attached, Attended, LetGo, RequestHolds
<1>2. ASSUME NEW stage \in {"pullReserve", "cancelPullSend", "cancelPullSignal", "jobCheck",
                            "cancelOpSignal", "imageGuard"},
             at[r] = "idle", at' = [at EXCEPT ![r] = stage],
             \/ UNCHANGED on /\ stage = "imageGuard"
             \/ stage # "imageGuard" /\ \E o : on' = [on EXCEPT ![r] = o],
             UNCHANGED <<pullSenders, opSenders, task>>
      PROVE  Attached'
  <2>1. LetGo'
    BY <1>2 DEF TypeOK, Attached, LetGo, ImageStages
  <2>2. RequestHolds(r) = {}
    BY <1>2 DEF RequestHolds, HoldsImages, PullStages, ImageStages
  <2> QED BY <1>2, <2>1, <2>2, HandlerLetsGo
<1> QED BY <1>1, <1>2
        DEF Arrives, PullReattach, PullLookup, CancelPullRead, JobRequest, CancelOpRead,
            CancelRefused, ImageReserve, Begin, Goto, vars

\* A handler links under its own reservation and unlinks before it gives the
\* name back, or passes both to its task.
LEMMA HandleAttached ==
    ASSUME ~DbMayFail, ~ClientMayVanish, TypeOK, Exclusion, Attached,
           NEW r \in Requests, Handle(r) \/ Vanish(r)
    PROVE  Attached'
<1> USE ConstantsAssumption DEF TypeOK, Goto, Return
<1>1. CASE PullReserve(r)
  <2>1. at[r] = "pullReserve" /\ on[r] \in Pulls /\ RequestHolds(r) = {}
    BY <1>1 DEF PullReserve, PullStages, RequestHolds, HoldsImages, ImageStages
  <2>2. LetGo'
    BY <1>1, <2>1, FreeMeansUnlinked DEF PullReserve, Attached, LetGo, ImageStages
  <2> QED BY <1>1, <2>1, <2>2, HandlerLetsGo DEF PullReserve
<1>2. CASE PullLink(r)
  <2>1. /\ at[r] = "pullLink" /\ on[r] \in Pulls /\ on[r] \notin pullSenders
        /\ \A q \in Requests \ {r} : at[q] \notin HoldsImages
        /\ task[on[r]] = "none"
    BY <1>2, PullAlone DEF PullLink, Attached, LetGo, PullStages, HoldsImages
  <2>2. LetGo'
    BY <1>2, <2>1 DEF PullLink, Attached, LetGo, HoldsImages, PullStages, ImageStages, Ops
  <2>3. RequestHolds(r)' # {} /\ on' = on
    BY <1>2, <2>1 DEF PullLink, RequestHolds, HoldsImages, PullStages
  <2>4. \A q \in Requests \ {r} : RequestHolds(q)' = RequestHolds(q)
    BY <1>2, <2>1, OthersHoldSame DEF PullLink
  <2> QED BY <1>2, <2>1, <2>2, <2>3, <2>4 DEF PullLink, Attached, Attended
<1>3. CASE PullOpLink(r)
  <2>1. /\ at[r] = "pullOpLink" /\ on[r] \in Pulls
        /\ \A q \in Requests \ {r} : at[q] \notin HoldsImages
        /\ task[on[r]] = "none"
    BY <1>3, PullAlone DEF PullOpLink, PullStages, HoldsImages
  <2>2. LetGo'
    BY <1>3, <2>1 DEF PullOpLink, Attached, LetGo, HoldsImages, PullStages, ImageStages, Ops
  <2>3. RequestHolds(r)' # {} /\ on' = on
    BY <1>3, <2>1 DEF PullOpLink, RequestHolds, HoldsImages, PullStages
  <2>4. \A q \in Requests \ {r} : RequestHolds(q)' = RequestHolds(q)
    BY <1>3, <2>1, OthersHoldSame DEF PullOpLink
  <2> QED BY <1>3, <2>1, <2>2, <2>3, <2>4 DEF PullOpLink, Attached, Attended, Cancellable
<1>4. CASE PullInsert(r)
  <2>1. at[r] = "pullInsert" /\ on[r] \in Pulls
    BY <1>4 DEF PullInsert, PullStages
  <2>2. CASE Spawn(on[r]) /\ Return(r)
    <3>1. task' = [task EXCEPT ![on[r]] = "spawned"] /\ on[r] \in Ops
      BY <2>1, <2>2 DEF Spawn, Ops
    <3>2. LetGo'
      BY <1>4, <2>1, <2>2, <3>1 DEF PullInsert, Attached, LetGo, ImageStages
    <3> QED BY <1>4, <2>2, <3>1, <3>2, HandlerLetsGo DEF PullInsert
  <2>3. CASE Goto(r, "undoPull") /\ UNCHANGED task
    <3>1. LetGo'
      BY <1>4, <2>1, <2>3 DEF PullInsert, Attached, LetGo, ImageStages
    <3>2. RequestHolds(r)' # {}
      BY <2>3 DEF RequestHolds, HoldsImages, PullStages
    <3> QED BY <1>4, <2>3, <3>1, <3>2, HandlerLetsGo DEF PullInsert
  <2> QED BY <1>4, <2>2, <2>3 DEF PullInsert
<1>5. CASE PullUndoPullLink(r) \/ PullUndoOpLink(r)
  <2>1. LetGo'
    BY <1>5 DEF PullUndoPullLink, PullUndoOpLink, Attached, LetGo, ImageStages
  <2>2. RequestHolds(r)' # {} /\ on' = on
    BY <1>5 DEF PullUndoPullLink, PullUndoOpLink, RequestHolds, HoldsImages, PullStages
  <2> QED BY <1>5, <2>1, <2>2, HandlerLetsGo DEF PullUndoPullLink, PullUndoOpLink
<1>6. CASE PullUndoReserve(r)
  <2>1. LetGo' /\ on[r] \notin pullSenders \cup opSenders
    BY <1>6 DEF PullUndoReserve, Attached, LetGo, ImageStages
  <2> QED BY <1>6, <2>1, HandlerLetsGo DEF PullUndoReserve
<1>7. CASE JobCheck(r) \/ JobReserve(r)
  <2>1. LetGo' /\ RequestHolds(r) = {}
    BY <1>7 DEF JobCheck, JobReserve, Attached, LetGo, ImageStages, RequestHolds, HoldsImages,
                PullStages
  <2> QED BY <1>7, <2>1, HandlerLetsGo DEF JobCheck, JobReserve
<1>8. CASE JobInsert(r)
  <2>1. at[r] = "jobInsert" /\ on[r] \in Jobs /\ on[r] \in Ops
    BY <1>8 DEF JobInsert, JobStages, Ops
  <2>2. CASE on[r] \in CancellableJobs /\ Goto(r, "jobLink") /\ UNCHANGED task
    <3>1. LetGo'
      BY <1>8, <2>1, <2>2 DEF JobInsert, Attached, LetGo, ImageStages
    <3>2. RequestHolds(r)' # {}
      BY <2>1, <2>2 DEF RequestHolds, HoldsImages, PullStages, ImageStages
    <3> QED BY <1>8, <2>2, <3>1, <3>2, HandlerLetsGo DEF JobInsert
  <2>3. CASE Spawn(on[r]) /\ Return(r)
    <3>1. task' = [task EXCEPT ![on[r]] = "body"]
      BY <2>1, <2>3 DEF Spawn
    <3>2. LetGo'
      BY <1>8, <2>1, <2>3, <3>1 DEF JobInsert, Attached, LetGo, ImageStages
    <3> QED BY <1>8, <2>1, <2>3, <3>1, <3>2, HandlerLetsGo DEF JobInsert
  <2> QED BY <1>8, <2>2, <2>3 DEF JobInsert
<1>9. CASE JobLink(r)
  <2>1. PICK j \in CancellableJobs : j = on[r] /\ j \in Ops /\ j \notin Pulls
    BY <1>9 DEF JobLink, Attached, LetGo, Ops
  <2>2. /\ opSenders' = opSenders \cup {j} /\ task' = [task EXCEPT ![j] = "body"]
        /\ UNCHANGED pullSenders /\ Return(r)
    BY <1>9, <2>1 DEF JobLink, Spawn
  <2>3. LetGo'
    BY <2>1, <2>2 DEF Attached, LetGo, ImageStages, PullStages
  <2>4. \A q \in Requests \ {r} : RequestHolds(q)' = RequestHolds(q)
    BY <2>2, OthersHoldSame
  <2>5. ASSUME NEW o \in pullSenders \cup opSenders PROVE Attended(o)'
    <3>1. Attended(o) /\ o \in Ops
      BY DEF Attached, Ops
    <3> QED BY <2>1, <2>2, <2>4, <3>1 DEF Attended
  <2> QED BY <2>1, <2>2, <2>3, <2>5 DEF Attached, Attended, Cancellable
<1>10. CASE ImageGuard(r) \/ ImageDocker(r) \/ ImageRelease(r)
  <2>1. LetGo' /\ on[r] = NoOp
    BY <1>10 DEF ImageGuard, ImageDocker, ImageRelease, Attached, LetGo, ImageStages
  <2> QED BY <1>10, <2>1, HandlerLetsGo DEF ImageGuard, ImageDocker, ImageRelease
<1>11. CASE CancelPullSignal(r) \/ CancelPullWrite(r) \/ CancelOpSignal(r) \/ CancelOpWrite(r)
  <2>1. LetGo' /\ RequestHolds(r) = {}
    BY <1>11 DEF CancelPullSignal, CancelPullWrite, CancelOpSignal, CancelOpWrite, Attached,
                 LetGo, ImageStages, RequestHolds, HoldsImages, PullStages
  <2> QED BY <1>11, <2>1, HandlerLetsGo
          DEF CancelPullSignal, CancelPullWrite, CancelOpSignal, CancelOpWrite
<1>12. ~Vanish(r)
  BY DEF Vanish
<1> QED BY <1>1, <1>2, <1>3, <1>4, <1>5, <1>6, <1>7, <1>8, <1>9, <1>10, <1>11, <1>12 DEF Handle

\* A task removes its channels before it releases its names.
LEMMA TaskAttached ==
    ASSUME TypeOK, Exclusion, Attached,
           \/ \E p \in Pulls : PullWork(p) \/ PullProgress(p)
           \/ \E j \in Jobs : JobWork(j) \/ JobProgress(j) \/ JobProduces(j)
           \/ \E o \in Ops : TaskWork(o)
    PROVE  Attached'
<1> USE ConstantsAssumption DEF TypeOK, Advance, Ops, Cancellable
<1>1. ASSUME UNCHANGED handlers, pullSenders' \subseteq pullSenders, opSenders' \subseteq opSenders,
             LetGo', NEW o \in Ops, \A u \in Ops \ {o} : task'[u] = task[u],
             task'[o] # "none" \/ o \notin pullSenders' \cup opSenders'
      PROVE  Attached'
  <2>1. \A r \in Requests : RequestHolds(r)' = RequestHolds(r)
    BY <1>1, RequestsHoldSame
  <2> QED BY <1>1, <2>1, AttachedSame DEF Attended
<1> USE DEF Attached, LetGo
<1>2. ASSUME NEW p \in Pulls, PullBegin(p) \/ PullProgress(p) PROVE Attached'
  BY <1>1, <1>2 DEF PullBegin, PullProgress
<1>3. ASSUME NEW p \in Pulls, PullBodyEnds(p) \/ PullDrained(p) PROVE Attached'
  BY <1>1, <1>3 DEF PullBodyEnds, BodyEnds, PullDrained
<1>4. ASSUME NEW p \in Pulls, PullUnlink(p) PROVE Attached'
  BY <1>1, <1>4 DEF PullUnlink
<1>5. ASSUME NEW j \in Jobs, JobProgress(j) \/ JobProduces(j) PROVE Attached'
  BY <1>1, <1>5 DEF JobProgress, JobProduces
<1>6. ASSUME NEW j \in Jobs, JobBodyEnds(j) \/ JobCleanup(j) PROVE Attached'
  BY <1>1, <1>6 DEF JobBodyEnds, BodyEnds, JobCleanup
<1>7. ASSUME NEW o \in Ops, TaskFinish(o) PROVE Attached'
  BY <1>1, <1>7 DEF TaskFinish
<1>8. ASSUME NEW o \in Ops, OpUnlink(o) \/ TaskRelease(o) PROVE Attached'
  BY <1>1, <1>8 DEF OpUnlink, TaskRelease
<1> QED BY <1>2, <1>3, <1>4, <1>5, <1>6, <1>7, <1>8 DEF PullWork, JobWork, TaskWork

\* A restart empties both tables; a resumed pull has a task with its channel.
LEMMA BootAttached ==
    ASSUME Lifecycle, Attached, Crash \/ Boot PROVE Attached'
<1> USE ConstantsAssumption DEF Lifecycle, TypeOK, Ops
<1>1. CASE Crash
  BY <1>1 DEF Crash, Attached, LetGo, ImageStages
<1>2. CASE (\E o \in Ops : RecoverRow(o)) \/ CleanPartialFiles \/ Serve
  <2>1. UNCHANGED <<tables, handlers, task>>
    BY <1>2 DEF RecoverRow, CleanPartialFiles, Serve
  <2> QED BY <2>1 DEF Attached, Attended, LetGo, RequestHolds
<1>3. ASSUME NEW p \in Pulls, ResumePull(p) PROVE Attached'
  <2>1. CASE UNCHANGED <<tables, tasks>>
    BY <1>3, <2>1 DEF ResumePull, Attached, Attended, LetGo, RequestHolds
  <2>2. CASE pullSenders' = pullSenders \cup {p} /\ opSenders' = opSenders \cup {p} /\ Spawn(p)
    <3>1. /\ task' = [task EXCEPT ![p] = "spawned"] /\ UNCHANGED handlers
          /\ \A r \in Requests : at[r] = "idle"
      BY <1>3, <2>2 DEF ResumePull, Spawn, Booted, Serving
    <3>2. LetGo'
      BY <2>2, <3>1 DEF Attached, LetGo, ImageStages
    <3>3. \A r \in Requests : RequestHolds(r)' = RequestHolds(r)
      BY <3>1, RequestsHoldSame
    <3> QED BY <2>2, <3>1, <3>2, <3>3 DEF Attached, Attended, Cancellable
  <2> QED BY <1>3, <2>1, <2>2 DEF ResumePull
<1> QED BY <1>1, <1>2, <1>3 DEF Boot

(* When every row is written and no connection closes, a channel in a      *)
(* table belongs to a task or to a handler that still has its names, so no *)
(* stale entry refuses the image operations for good.                      *)
THEOREM ChannelsCorrect ==
    ASSUME ~DbMayFail, ~ClientMayVanish PROVE Spec => []NoStaleChannel
<1>1. Lifecycle /\ Exclusion /\ Attached /\ [Next]_vars => Attached'
  <2> SUFFICES ASSUME Lifecycle, Exclusion, Attached, [Next]_vars PROVE Attached'
    OBVIOUS
  <2>1. TypeOK
    BY DEF Lifecycle
  <2>2. CASE UNCHANGED vars
    BY <2>2 DEF vars, Attached, Attended, LetGo, RequestHolds
  <2>3. CASE Next
    BY <2>1, <2>3, ArrivesAttached, HandleAttached, TaskAttached, BootAttached DEF Next
  <2> QED BY <2>2, <2>3
<1>2. Attached => NoStaleChannel
  BY DEF Attached, Attended, NoStaleChannel
<1> QED BY <1>1, <1>2, InitLifecycle, NextLifecycle, ExclusionCorrect, InitAttached, PTL DEF Spec
=============================================================================
