---------------------- MODULE DurableOperationsProofs ----------------------
(***************************************************************************)
(* Theorems about DurableOperations for every set of requests, pulls and   *)
(* jobs, every assignment of names to jobs and every number of crashes.    *)
(***************************************************************************)
EXTENDS DurableOperations, TLAPS

-----------------------------------------------------------------------------
(* Type correctness *)

USE DEF rows, tables, handlers, tasks, lifetime

\* The first state is well-typed.
LEMMA InitType == Init => TypeOK
BY ConstantsAssumption
   DEF Init, TypeOK, Ops, HandlerStage, PullStages, JobStages, ImageStages,
       CancelPullStages, CancelOpStages, TaskStage, Outcome, Phase, Cancellable

\* A request arrives.
LEMMA ArrivesType ==
    ASSUME TypeOK, NEW r \in Requests, Arrives(r) PROVE TypeOK'
<1> USE ConstantsAssumption
    DEF TypeOK, Ops, Cancellable, HandlerStage, PullStages, JobStages,
        ImageStages, CancelPullStages, CancelOpStages
<1>1. ASSUME NEW p \in Pulls, PullReattach(r, p) PROVE TypeOK'
  BY <1>1 DEF PullReattach, vars
<1>2. ASSUME NEW p \in Pulls, PullLookup(r, p) PROVE TypeOK'
  BY <1>2 DEF PullLookup, Begin
<1>3. ASSUME NEW p \in Pulls, CancelPullRead(r, p) PROVE TypeOK'
  BY <1>3 DEF CancelPullRead, Begin
<1>4. ASSUME NEW j \in Jobs, JobRequest(r, j) PROVE TypeOK'
  BY <1>4 DEF JobRequest, Begin
<1>5. ASSUME NEW o \in Ops, CancelOpRead(r, o) PROVE TypeOK'
  BY <1>5 DEF CancelOpRead, Begin
<1>6. ASSUME NEW o \in Ops, CancelRefused(r, o) PROVE TypeOK'
  BY <1>6 DEF CancelRefused, vars
<1>7. CASE ImageReserve(r)
  BY <1>7 DEF ImageReserve, Goto
<1> QED BY <1>1, <1>2, <1>3, <1>4, <1>5, <1>6, <1>7 DEF Arrives

\* A handler goes on, or its client goes away.
LEMMA HandleType ==
    ASSUME TypeOK, NEW r \in Requests, Handle(r) \/ Vanish(r) PROVE TypeOK'
<1> USE ConstantsAssumption
    DEF TypeOK, Ops, Cancellable, HandlerStage, PullStages, JobStages,
        ImageStages, CancelPullStages, CancelOpStages, Goto, Return
<1>1. CASE PullReserve(r)
  BY <1>1 DEF PullReserve
<1>2. CASE PullLink(r)
  BY <1>2 DEF PullLink
<1>3. CASE PullOpLink(r)
  BY <1>3 DEF PullOpLink
<1>4. CASE PullInsert(r)
  BY <1>4 DEF PullInsert, UpdateOperation, Spawn, Phase, TaskStage, Working,
              Outcome
<1>5. CASE PullUndoPullLink(r) \/ PullUndoOpLink(r) \/ PullUndoReserve(r)
  BY <1>5 DEF PullUndoPullLink, PullUndoOpLink, PullUndoReserve
<1>6. CASE JobCheck(r) \/ JobReserve(r)
  BY <1>6 DEF JobCheck, JobReserve
<1>7. CASE JobInsert(r)
  BY <1>7 DEF JobInsert, UpdateOperation, Spawn, Phase, TaskStage, Working,
              Outcome
<1>8. CASE JobLink(r)
  BY <1>8 DEF JobLink, Spawn, TaskStage, Working, Outcome
<1>9. CASE ImageGuard(r) \/ ImageDocker(r) \/ ImageRelease(r)
  BY <1>9 DEF ImageGuard, ImageDocker, ImageRelease
<1>10. CASE CancelPullSignal(r) \/ CancelOpSignal(r)
  BY <1>10 DEF CancelPullSignal, CancelOpSignal
<1>11. CASE CancelPullWrite(r) \/ CancelOpWrite(r)
  BY <1>11 DEF CancelPullWrite, CancelOpWrite, TryUpdateOperation,
               UpdateOperation, Phase
<1>12. CASE Vanish(r)
  BY <1>12 DEF Vanish, StatementOf, Phase
<1> QED BY <1>1, <1>2, <1>3, <1>4, <1>5, <1>6, <1>7, <1>8, <1>9, <1>10,
           <1>11, <1>12 DEF Handle

\* A task goes on.
LEMMA TaskType ==
    ASSUME TypeOK,
           \/ \E p \in Pulls : PullWork(p) \/ PullProgress(p)
           \/ \E j \in Jobs : JobWork(j) \/ JobProgress(j) \/ JobProduces(j)
           \/ \E o \in Ops : TaskWork(o)
    PROVE  TypeOK'
<1> USE ConstantsAssumption
    DEF TypeOK, Ops, Advance, UpdateOperation, TryUpdateOperation, TaskStage,
        Working, Phase, Terminal, Outcome
<1>1. ASSUME NEW p \in Pulls, PullBegin(p) \/ PullProgress(p) PROVE TypeOK'
  BY <1>1 DEF PullBegin, PullProgress
<1>2. ASSUME NEW p \in Pulls, PullBodyEnds(p) \/ PullDrained(p) PROVE TypeOK'
  BY <1>2 DEF PullBodyEnds, BodyEnds, PullDrained
<1>3. ASSUME NEW p \in Pulls, PullUnlink(p) PROVE TypeOK'
  BY <1>3 DEF PullUnlink
<1>4. ASSUME NEW j \in Jobs, JobProgress(j) \/ JobProduces(j) PROVE TypeOK'
  BY <1>4 DEF JobProgress, JobProduces
<1>5. ASSUME NEW j \in Jobs, JobBodyEnds(j) \/ JobCleanup(j) PROVE TypeOK'
  BY <1>5 DEF JobBodyEnds, BodyEnds, JobCleanup, RemoveArtifacts
<1>6. ASSUME NEW o \in Ops, TaskFinish(o) PROVE TypeOK'
  BY <1>6 DEF TaskFinish
<1>7. ASSUME NEW o \in Ops, OpUnlink(o) \/ TaskRelease(o) PROVE TypeOK'
  BY <1>7 DEF OpUnlink, TaskRelease
<1> QED BY <1>1, <1>2, <1>3, <1>4, <1>5, <1>6, <1>7
        DEF PullWork, JobWork, TaskWork

\* A crash, and the steps of main().
LEMMA BootType == ASSUME TypeOK, Crash \/ Boot PROVE TypeOK'
<1> USE ConstantsAssumption DEF TypeOK, Ops
<1>1. CASE Crash
  BY <1>1 DEF Crash, HandlerStage, PullStages, JobStages, ImageStages,
              CancelPullStages, CancelOpStages, TaskStage, Outcome
<1>2. ASSUME NEW o \in Ops, RecoverRow(o) PROVE TypeOK'
  BY <1>2 DEF RecoverRow, UpdateOperation, Phase, Terminal
<1>3. CASE CleanPartialFiles
  BY <1>3 DEF CleanPartialFiles
<1>4. ASSUME NEW p \in Pulls, ResumePull(p) PROVE TypeOK'
  BY <1>4 DEF ResumePull, TryUpdateOperation, UpdateOperation, Phase, Terminal,
              Spawn, TaskStage, Working, Outcome
<1>5. CASE Serve
  BY <1>5 DEF Serve
<1> QED BY <1>1, <1>2, <1>3, <1>4, <1>5 DEF Boot

(* The type invariant holds in every reachable state. *)
THEOREM TypeCorrect == Spec => []TypeOK
<1>1. TypeOK /\ [Next]_vars => TypeOK'
  <2> SUFFICES ASSUME TypeOK, [Next]_vars PROVE TypeOK'
    OBVIOUS
  <2>1. CASE UNCHANGED vars
    BY <2>1 DEF TypeOK, vars
  <2>2. CASE Next
    BY <2>2, ArrivesType, HandleType, TaskType, BootType DEF Next
  <2> QED BY <2>1, <2>2
<1> QED BY InitType, <1>1, PTL DEF Spec

-----------------------------------------------------------------------------
(* Mutual exclusion on reserved names *)

(* A step after which everybody holds at most what he held before, and     *)
(* still has it reserved, preserves exclusion.                             *)
LEMMA HoldNoMore ==
    ASSUME Exclusion,
           \A r \in Requests : RequestHolds(r)' \subseteq RequestHolds(r),
           \A o \in Ops : TaskHolds(o)' \subseteq TaskHolds(o),
           \A r \in Requests : RequestHolds(r)' \subseteq active',
           \A o \in Ops : TaskHolds(o)' \subseteq active'
    PROVE  Exclusion'
<1>1. HeldIsReserved'
  BY DEF HeldIsReserved
<1>2. ResourceExclusion'
  <2> USE DEF Exclusion, ResourceExclusion
  <2>1. ASSUME NEW r \in Requests, NEW q \in Requests, r # q
        PROVE  RequestHolds(r)' \cap RequestHolds(q)' = {}
    BY <2>1
  <2>2. ASSUME NEW o \in Ops, NEW u \in Ops, o # u
        PROVE  TaskHolds(o)' \cap TaskHolds(u)' = {}
    BY <2>2
  <2>3. ASSUME NEW r \in Requests, NEW o \in Ops
        PROVE  RequestHolds(r)' \cap TaskHolds(o)' = {}
    BY <2>3
  <2> QED BY <2>1, <2>2, <2>3
<1> QED BY <1>1, <1>2 DEF Exclusion

(* A request takes names nobody has reserved. *)
LEMMA RequestTakes ==
    ASSUME Exclusion, NEW r \in Requests, NEW X,
           X \cap active = {},
           active' = active \cup X,
           RequestHolds(r) = {},
           RequestHolds(r)' \subseteq X,
           \A q \in Requests \ {r} : RequestHolds(q)' = RequestHolds(q),
           \A o \in Ops : TaskHolds(o)' = TaskHolds(o)
    PROVE  Exclusion'
<1> USE DEF Exclusion, HeldIsReserved, ResourceExclusion
<1>1. HeldIsReserved'
  OBVIOUS
<1>2. ASSUME NEW q \in Requests, NEW s \in Requests, q # s
      PROVE  RequestHolds(q)' \cap RequestHolds(s)' = {}
  BY <1>2
<1>3. ASSUME NEW q \in Requests, NEW o \in Ops
      PROVE  RequestHolds(q)' \cap TaskHolds(o)' = {}
  OBVIOUS
<1> QED BY <1>1, <1>2, <1>3

(* A task is started on names nobody has reserved. *)
LEMMA TaskTakes ==
    ASSUME Exclusion, NEW o \in Ops, NEW X,
           X \cap active = {},
           active' = active \cup X,
           TaskHolds(o)' \subseteq X,
           \A r \in Requests : RequestHolds(r)' = RequestHolds(r),
           \A u \in Ops \ {o} : TaskHolds(u)' = TaskHolds(u)
    PROVE  Exclusion'
<1> USE DEF Exclusion, HeldIsReserved, ResourceExclusion
<1>1. HeldIsReserved'
  OBVIOUS
<1>2. ASSUME NEW u \in Ops, NEW w \in Ops, u # w
      PROVE  TaskHolds(u)' \cap TaskHolds(w)' = {}
  BY <1>2
<1>3. ASSUME NEW r \in Requests, NEW u \in Ops
      PROVE  RequestHolds(r)' \cap TaskHolds(u)' = {}
  OBVIOUS
<1> QED BY <1>1, <1>2, <1>3

(* A request hands what it holds over to the task it spawns. *)
LEMMA HandsOver ==
    ASSUME Exclusion, NEW r \in Requests, NEW o \in Ops,
           active' = active,
           RequestHolds(r)' = {},
           TaskHolds(o)' \subseteq RequestHolds(r),
           \A q \in Requests \ {r} : RequestHolds(q)' = RequestHolds(q),
           \A u \in Ops \ {o} : TaskHolds(u)' = TaskHolds(u)
    PROVE  Exclusion'
<1> USE DEF Exclusion, HeldIsReserved, ResourceExclusion
<1>1. HeldIsReserved'
  OBVIOUS
<1>2. ASSUME NEW q \in Requests, NEW s \in Requests, q # s
      PROVE  RequestHolds(q)' \cap RequestHolds(s)' = {}
  BY <1>2
<1>3. ASSUME NEW u \in Ops, NEW w \in Ops, u # w
      PROVE  TaskHolds(u)' \cap TaskHolds(w)' = {}
  BY <1>3
<1>4. ASSUME NEW q \in Requests, NEW u \in Ops
      PROVE  RequestHolds(q)' \cap TaskHolds(u)' = {}
  OBVIOUS
<1> QED BY <1>1, <1>2, <1>3, <1>4

(* A request, or a task, releases what it holds. *)
LEMMA RequestReleases ==
    ASSUME Exclusion, NEW r \in Requests,
           active' = active \ RequestHolds(r),
           RequestHolds(r)' = {},
           \A q \in Requests \ {r} : RequestHolds(q)' = RequestHolds(q),
           \A o \in Ops : TaskHolds(o)' = TaskHolds(o)
    PROVE  Exclusion'
<1>1. \A q \in Requests : RequestHolds(q)' \subseteq active'
  BY DEF Exclusion, HeldIsReserved, ResourceExclusion
<1>2. \A o \in Ops : TaskHolds(o)' \subseteq active'
  BY DEF Exclusion, HeldIsReserved, ResourceExclusion
<1> QED BY <1>1, <1>2, HoldNoMore

\* A task that releases its names releases no one else's.
LEMMA TaskReleases ==
    ASSUME Exclusion, NEW o \in Ops,
           active' = active \ TaskHolds(o),
           TaskHolds(o)' = {},
           \A r \in Requests : RequestHolds(r)' = RequestHolds(r),
           \A u \in Ops \ {o} : TaskHolds(u)' = TaskHolds(u)
    PROVE  Exclusion'
<1>1. \A r \in Requests : RequestHolds(r)' \subseteq active'
  BY DEF Exclusion, HeldIsReserved, ResourceExclusion
<1>2. \A u \in Ops : TaskHolds(u)' \subseteq active'
  BY DEF Exclusion, HeldIsReserved, ResourceExclusion
<1> QED BY <1>1, <1>2, HoldNoMore

(* A step that reserves and releases nothing. *)
LEMMA HoldsSame ==
    ASSUME Exclusion, active \subseteq active',
           \A r \in Requests : RequestHolds(r)' \subseteq RequestHolds(r),
           \A o \in Ops : TaskHolds(o)' \subseteq TaskHolds(o)
    PROVE  Exclusion'
<1>1. /\ \A r \in Requests : RequestHolds(r)' \subseteq active'
      /\ \A o \in Ops : TaskHolds(o)' \subseteq active'
  BY DEF Exclusion, HeldIsReserved
<1> QED BY <1>1, HoldNoMore

-----------------------------------------------------------------------------
(* The steps of a handler *)

(* A step of one handler leaves what the others hold. *)
LEMMA OthersHoldSame ==
    ASSUME TypeOK, NEW r \in Requests, NEW stage,
           at' = [at EXCEPT ![r] = stage],
           \/ UNCHANGED on
           \/ \E o : on' = [on EXCEPT ![r] = o]
    PROVE  \A q \in Requests \ {r} : RequestHolds(q)' = RequestHolds(q)
BY DEF TypeOK, RequestHolds

\* What the tasks hold changes with the tasks only.
LEMMA TasksHoldSame ==
    ASSUME UNCHANGED task PROVE \A o \in Ops : TaskHolds(o)' = TaskHolds(o)
BY DEF TaskHolds

\* A handler that has returned holds nothing.
LEMMA ReturnHoldsNothing ==
    ASSUME TypeOK, NEW r \in Requests, Return(r) PROVE RequestHolds(r)' = {}
BY DEF TypeOK, Return, RequestHolds, HoldsImages, PullStages, ImageStages

\* A request arrives: it holds at most the images, when they were free.
LEMMA ArrivesExclusion ==
    ASSUME TypeOK, Exclusion, NEW r \in Requests, Arrives(r) PROVE Exclusion'
<1>1. CASE ImageReserve(r) /\ DockerImages \notin active
  <2>1. /\ RequestHolds(r) = {}
        /\ RequestHolds(r)' \subseteq {DockerImages}
    BY <1>1 DEF ImageReserve, Goto, TypeOK, RequestHolds, HoldsImages,
                PullStages, ImageStages
  <2>2. {DockerImages} \cap active = {}
    BY <1>1
  <2>3. /\ active' = active \cup {DockerImages}
        /\ \A q \in Requests \ {r} : RequestHolds(q)' = RequestHolds(q)
        /\ \A o \in Ops : TaskHolds(o)' = TaskHolds(o)
    BY <1>1, OthersHoldSame, TasksHoldSame DEF ImageReserve, Goto
  <2> QED BY <2>1, <2>2, <2>3, RequestTakes
<1>2. CASE ~(ImageReserve(r) /\ DockerImages \notin active)
  <2>1. UNCHANGED <<active, task>>
    BY <1>2 DEF Arrives, PullReattach, PullLookup, CancelPullRead, JobRequest,
                CancelOpRead, CancelRefused, ImageReserve, vars
  <2>2. \A q \in Requests : RequestHolds(q)' \subseteq RequestHolds(q)
    BY <1>2 DEF Arrives, PullReattach, PullLookup, CancelPullRead, JobRequest,
                CancelOpRead, CancelRefused, ImageReserve, Begin, vars, TypeOK,
                RequestHolds, HoldsImages, PullStages, ImageStages
  <2> QED BY <2>1, <2>2, TasksHoldSame, HoldsSame
<1> QED BY <1>1, <1>2

\* A handler takes free names, returns its own or hands them to a task.
LEMMA HandleExclusion ==
    ASSUME TypeOK, Exclusion, NEW r \in Requests, Handle(r) \/ Vanish(r)
    PROVE  Exclusion'
<1> DEFINE OthersSame ==
             \A q \in Requests \ {r} : RequestHolds(q)' = RequestHolds(q)
           TasksSame == \A o \in Ops : TaskHolds(o)' = TaskHolds(o)
<1>0. OthersSame
  BY OthersHoldSame
     DEF Handle, Vanish, Goto, Return, PullReserve, PullLink, PullOpLink,
         PullInsert, PullUndoPullLink, PullUndoOpLink, PullUndoReserve,
         JobCheck, JobReserve, JobInsert, JobLink, ImageGuard, ImageDocker,
         ImageRelease, CancelPullSignal, CancelPullWrite, CancelOpSignal,
         CancelOpWrite
<1>1. CASE PullReserve(r)
  <2>1. TasksSame
    BY <1>1, TasksHoldSame DEF PullReserve
  <2>2. CASE DockerImages \in active
    <3>1. active' = active /\ RequestHolds(r)' = {}
      BY <1>1, <2>2, ReturnHoldsNothing DEF PullReserve
    <3> QED BY <1>0, <2>1, <3>1, HoldsSame
  <2>3. CASE DockerImages \notin active
    <3>1. /\ active' = active \cup {DockerImages}
          /\ RequestHolds(r) = {}
          /\ RequestHolds(r)' \subseteq {DockerImages}
      BY <1>1, <2>3 DEF PullReserve, Goto, TypeOK, RequestHolds, HoldsImages,
                        PullStages, ImageStages
    <3> QED BY <1>0, <2>1, <2>3, <3>1, RequestTakes
  <2> QED BY <2>2, <2>3
<1>2. CASE PullLink(r)
  <2>1. TasksSame
    BY <1>2, TasksHoldSame DEF PullLink
  <2>2. RequestHolds(r) = {DockerImages}
    BY <1>2 DEF PullLink, RequestHolds, HoldsImages, PullStages
  <2>3. CASE on[r] \in pullSenders
    <3>1. active' = active \ {DockerImages} /\ RequestHolds(r)' = {}
      BY <1>2, <2>3, ReturnHoldsNothing DEF PullLink
    <3> QED BY <1>0, <2>1, <2>2, <3>1, RequestReleases
  <2>4. CASE on[r] \notin pullSenders
    <3>1. active' = active /\ RequestHolds(r)' = RequestHolds(r)
      BY <1>2, <2>2, <2>4
         DEF PullLink, Goto, TypeOK, RequestHolds, HoldsImages, PullStages
    <3> QED BY <1>0, <2>1, <3>1, HoldsSame
  <2> QED BY <2>3, <2>4
<1>3. CASE PullOpLink(r) \/ PullUndoPullLink(r) \/ PullUndoOpLink(r)
  <2>1. TasksSame /\ active' = active
    BY <1>3, TasksHoldSame DEF PullOpLink, PullUndoPullLink, PullUndoOpLink
  <2>2. RequestHolds(r)' = RequestHolds(r)
    BY <1>3 DEF PullOpLink, PullUndoPullLink, PullUndoOpLink, Goto, TypeOK,
                RequestHolds, HoldsImages, PullStages
  <2> QED BY <1>0, <2>1, <2>2, HoldsSame
<1>4. CASE PullInsert(r)
  <2>1. RequestHolds(r) = {DockerImages} /\ on[r] \in Pulls
    BY <1>4 DEF PullInsert, TypeOK, RequestHolds, HoldsImages, PullStages
  <2>2. CASE Spawn(on[r]) /\ Return(r)
    <3>1. PICK p \in Pulls : p = on[r]
      BY <2>1
    <3>2. TaskHolds(p)' \subseteq RequestHolds(r)
      BY <2>1, <2>2, <3>1, ConstantsAssumption DEF Spawn, TaskHolds, Ops, TypeOK
    <3>3. \A u \in Ops \ {p} : TaskHolds(u)' = TaskHolds(u)
      BY <2>2, <3>1 DEF Spawn, TaskHolds, TypeOK
    <3>4. active' = active /\ RequestHolds(r)' = {} /\ p \in Ops
      BY <1>4, <2>2, ReturnHoldsNothing DEF PullInsert, Ops
    <3> QED BY <1>0, <3>2, <3>3, <3>4, HandsOver
  <2>3. CASE Goto(r, "undoPull") /\ UNCHANGED task
    <3>1. active' = active /\ RequestHolds(r)' = RequestHolds(r)
      BY <1>4, <2>1, <2>3 DEF PullInsert, Goto, TypeOK, RequestHolds,
                              HoldsImages, PullStages
    <3> QED BY <1>0, <2>3, <3>1, TasksHoldSame, HoldsSame
  <2> QED BY <1>4, <2>2, <2>3 DEF PullInsert
<1>5. CASE PullUndoReserve(r) \/ ImageRelease(r)
  <2>1. /\ TasksSame
        /\ active' = active \ {DockerImages}
        /\ RequestHolds(r)' = {}
    BY <1>5, TasksHoldSame, ReturnHoldsNothing
       DEF PullUndoReserve, ImageRelease
  <2>2. RequestHolds(r) = {DockerImages}
    BY <1>5 DEF PullUndoReserve, ImageRelease, RequestHolds, HoldsImages,
                PullStages, ImageStages
  <2> QED BY <1>0, <2>1, <2>2, RequestReleases
<1>6. CASE JobCheck(r)
  <2>1. TasksSame /\ active' = active
    BY <1>6, TasksHoldSame DEF JobCheck
  <2>2. RequestHolds(r)' = {}
    BY <1>6 DEF JobCheck, Return, Goto, TypeOK, RequestHolds, HoldsImages,
                PullStages, ImageStages
  <2> QED BY <1>0, <2>1, <2>2, HoldsSame
<1>7. CASE JobReserve(r)
  <2>1. TasksSame
    BY <1>7, TasksHoldSame DEF JobReserve
  <2>2. CASE Return(r) /\ active' = active
    BY <1>0, <2>1, <2>2, ReturnHoldsNothing, HoldsSame
  <2>3. CASE /\ Needs[on[r]] \cap active = {}
             /\ active' = active \cup Needs[on[r]]
             /\ Goto(r, "jobInsert")
    <3>1. /\ RequestHolds(r) = {}
          /\ RequestHolds(r)' \subseteq Needs[on[r]]
      BY <1>7, <2>3 DEF JobReserve, Goto, TypeOK, RequestHolds, HoldsImages,
                        PullStages, ImageStages
    <3> QED BY <1>0, <2>1, <2>3, <3>1, RequestTakes
  <2> QED BY <1>7, <2>2, <2>3 DEF JobReserve
<1>8. CASE JobInsert(r) \/ JobLink(r)
  <2>1. /\ RequestHolds(r) = Needs[on[r]]
        /\ on[r] \in Ops
        /\ active' = active
    BY <1>8 DEF JobInsert, JobLink, TypeOK, RequestHolds, HoldsImages,
                PullStages, ImageStages, JobStages, Ops
  <2>2. CASE Spawn(on[r]) /\ Return(r)
    <3>1. PICK o \in Ops : o = on[r]
      BY <2>1
    <3>2. TaskHolds(o)' \subseteq RequestHolds(r)
      BY <2>1, <2>2, <3>1 DEF Spawn, TaskHolds, TypeOK
    <3>3. \A u \in Ops \ {o} : TaskHolds(u)' = TaskHolds(u)
      BY <2>2, <3>1 DEF Spawn, TaskHolds, TypeOK
    <3> QED BY <1>0, <2>1, <2>2, <3>2, <3>3, ReturnHoldsNothing, HandsOver
  <2>3. CASE UNCHANGED task /\ (Goto(r, "jobLink") \/ Return(r))
    <3>1. RequestHolds(r)' \subseteq RequestHolds(r)
      BY <1>8, <2>1, <2>3 DEF Goto, Return, TypeOK, RequestHolds, HoldsImages,
                              PullStages, ImageStages
    <3> QED BY <1>0, <2>1, <2>3, <3>1, TasksHoldSame, HoldsSame
  <2> QED BY <1>8, <2>2, <2>3 DEF JobInsert, JobLink
<1>9. CASE ImageGuard(r) \/ ImageDocker(r)
  <2>1. TasksSame
    BY <1>9, TasksHoldSame DEF ImageGuard, ImageDocker
  <2>2. RequestHolds(r) = {DockerImages}
    BY <1>9 DEF ImageGuard, ImageDocker, RequestHolds, HoldsImages,
                PullStages, ImageStages
  <2>3. CASE active' = active \ {DockerImages} /\ Return(r)
    BY <1>0, <2>1, <2>2, <2>3, ReturnHoldsNothing, RequestReleases
  <2>4. CASE active' = active
             /\ (Goto(r, "imageDocker") \/ Goto(r, "imageRelease"))
    <3>1. RequestHolds(r)' = RequestHolds(r)
      BY <2>2, <2>4 DEF Goto, TypeOK, RequestHolds, HoldsImages, PullStages,
                        ImageStages
    <3> QED BY <1>0, <2>1, <2>4, <3>1, HoldsSame
  <2> QED BY <1>9, <2>3, <2>4 DEF ImageGuard, ImageDocker
<1>10. CASE \/ CancelPullSignal(r) \/ CancelPullWrite(r)
            \/ CancelOpSignal(r) \/ CancelOpWrite(r)
  <2>1. TasksSame /\ active' = active
    BY <1>10, TasksHoldSame DEF CancelPullSignal, CancelPullWrite,
                                CancelOpSignal, CancelOpWrite
  <2>2. RequestHolds(r)' = {}
    BY <1>10 DEF CancelPullSignal, CancelPullWrite, CancelOpSignal,
                 CancelOpWrite, Return, Goto, TypeOK, RequestHolds,
                 HoldsImages, PullStages, ImageStages
  <2> QED BY <1>0, <2>1, <2>2, HoldsSame
<1>11. CASE Vanish(r)
  <2>1. TasksSame /\ active' = active /\ RequestHolds(r)' = {}
    BY <1>11, TasksHoldSame, ReturnHoldsNothing DEF Vanish
  <2> QED BY <1>0, <2>1, HoldsSame
<1> QED BY <1>1, <1>2, <1>3, <1>4, <1>5, <1>6, <1>7, <1>8, <1>9, <1>10, <1>11
        DEF Handle

-----------------------------------------------------------------------------
(* The steps of a task and of main() *)

\* What the handlers hold changes with the handlers only.
LEMMA RequestsHoldSame ==
    ASSUME UNCHANGED handlers
    PROVE  \A r \in Requests : RequestHolds(r)' = RequestHolds(r)
BY DEF RequestHolds

\* A task keeps its names until it releases them.
LEMMA TaskExclusion ==
    ASSUME TypeOK, Exclusion,
           \/ \E p \in Pulls : PullWork(p) \/ PullProgress(p)
           \/ \E j \in Jobs : JobWork(j) \/ JobProgress(j) \/ JobProduces(j)
           \/ \E o \in Ops : TaskWork(o)
    PROVE  Exclusion'
<1>1. ASSUME NEW o \in Ops, TaskRelease(o) PROVE Exclusion'
  <2>1. /\ TaskHolds(o) = Needs[o]
        /\ TaskHolds(o)' = {}
        /\ \A u \in Ops \ {o} : TaskHolds(u)' = TaskHolds(u)
    BY <1>1 DEF TaskRelease, Advance, TaskHolds, TypeOK
  <2>2. active' = active \ Needs[o] /\ UNCHANGED handlers
    BY <1>1 DEF TaskRelease
  <2> QED BY <2>1, <2>2, RequestsHoldSame, TaskReleases
<1>2. ASSUME NEW o \in Ops, NEW from, NEW to, Advance(o, from, to),
             from # "none", UNCHANGED <<active, handlers>>
      PROVE  Exclusion'
  <2>1. \A u \in Ops : TaskHolds(u)' \subseteq TaskHolds(u)
    BY <1>2 DEF Advance, TaskHolds, TypeOK
  <2> QED BY <1>2, <2>1, RequestsHoldSame, HoldsSame
<1>3. CASE UNCHANGED <<active, handlers, task>>
  BY <1>3, RequestsHoldSame, TasksHoldSame, HoldsSame
<1>4. ASSUME NEW p \in Pulls, PullWork(p) PROVE Exclusion'
  BY <1>4, <1>2 DEF PullWork, PullBegin, PullBodyEnds, BodyEnds, PullDrained,
                    PullUnlink, Ops
<1>5. ASSUME NEW j \in Jobs, JobWork(j) PROVE Exclusion'
  BY <1>5, <1>2 DEF JobWork, JobBodyEnds, BodyEnds, JobCleanup, Ops
<1>6. ASSUME NEW o \in Ops, TaskFinish(o) \/ OpUnlink(o) PROVE Exclusion'
  BY <1>6, <1>2 DEF TaskFinish, OpUnlink
<1> QED BY <1>1, <1>3, <1>4, <1>5, <1>6
        DEF TaskWork, PullProgress, JobProgress, JobProduces

\* A crash forgets every name, main() reserves none.
LEMMA BootExclusion ==
    ASSUME TypeOK, Exclusion, Crash \/ Boot PROVE Exclusion'
<1>1. CASE Crash
  <2>1. /\ \A r \in Requests : RequestHolds(r)' = {}
        /\ \A o \in Ops : TaskHolds(o)' = {}
    BY <1>1 DEF Crash, RequestHolds, HoldsImages, PullStages, ImageStages,
                TaskHolds
  <2> QED BY <2>1, HoldNoMore
<1>2. ASSUME NEW p \in Pulls, ResumePull(p) PROVE Exclusion'
  <2>1. \A r \in Requests : RequestHolds(r)' = RequestHolds(r)
    BY <1>2, RequestsHoldSame DEF ResumePull
  <2>2. CASE UNCHANGED <<tables, tasks>>
    BY <2>1, <2>2, TasksHoldSame, HoldsSame
  <2>3. CASE /\ DockerImages \notin active
             /\ active' = active \cup {DockerImages}
             /\ Spawn(p)
    <3>1. /\ TaskHolds(p)' \subseteq {DockerImages}
          /\ \A u \in Ops \ {p} : TaskHolds(u)' = TaskHolds(u)
      BY <2>3, ConstantsAssumption DEF Spawn, TaskHolds, TypeOK, Ops
    <3>2. {DockerImages} \cap active = {} /\ p \in Ops
      BY <2>3 DEF Ops
    <3> QED BY <2>1, <2>3, <3>1, <3>2, TaskTakes
  <2> QED BY <1>2, <2>2, <2>3 DEF ResumePull
<1>3. CASE (\E o \in Ops : RecoverRow(o)) \/ CleanPartialFiles \/ Serve
  <2>1. UNCHANGED <<active, handlers, task>>
    BY <1>3 DEF RecoverRow, CleanPartialFiles, Serve
  <2> QED BY <2>1, RequestsHoldSame, TasksHoldSame, HoldsSame
<1> QED BY <1>1, <1>2, <1>3 DEF Boot

(* The reservations are mutually exclusive, and what is held is reserved,  *)
(* in every reachable state; HeldIsReserved is what makes it inductive: a  *)
(* name that is not in active_resources is held by nobody.                 *)
THEOREM ExclusionCorrect == Spec => []Exclusion
<1>1. Init => Exclusion
  BY DEF Init, Exclusion, HeldIsReserved, ResourceExclusion, RequestHolds,
         TaskHolds, HoldsImages, PullStages, ImageStages
<1>2. TypeOK /\ Exclusion /\ [Next]_vars => Exclusion'
  <2> SUFFICES ASSUME TypeOK, Exclusion, [Next]_vars PROVE Exclusion'
    OBVIOUS
  <2>1. CASE UNCHANGED vars
    BY <2>1, RequestsHoldSame, TasksHoldSame, HoldsSame DEF vars
  <2>2. CASE Next
    BY <2>2, ArrivesExclusion, HandleExclusion, TaskExclusion, BootExclusion
       DEF Next
  <2> QED BY <2>1, <2>2
<1> QED BY <1>1, <1>2, TypeCorrect, PTL DEF Spec
=============================================================================
