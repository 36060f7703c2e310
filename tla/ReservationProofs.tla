------------------------- MODULE ReservationProofs -------------------------
(***************************************************************************)
(* DurableOperations implements ExclusiveReservations, for every set of    *)
(* requests, pulls and jobs and every assignment of names: the refinement  *)
(* mapping is that of ReservationRefinement.                               *)
(***************************************************************************)
EXTENDS ReservationRefinement, OperationLifecycleProofs

USE DEF rows, tables, handlers, tasks, lifetime

-----------------------------------------------------------------------------
(* The owner of a name *)

Holds(a) == IF a \in Requests THEN RequestHolds(a) ELSE TaskHolds(a)

OwnerIsHolder ==
    /\ ownerOf \in [Resources -> Owners \cup {NoOne, Lost}]
    /\ \A x \in Resources, a \in Owners : ownerOf[x] = a <=> x \in Holds(a)
    /\ \A x \in Resources : ownerOf[x] = NoOne <=> x \notin active

(* Under exclusion the mapping is exact: a name is owned by who holds it,  *)
(* and by nobody exactly when it is not in active_resources.               *)
LEMMA OwnerOfName == TypeOK /\ Exclusion => OwnerIsHolder
<1> SUFFICES ASSUME TypeOK, Exclusion PROVE OwnerIsHolder
  OBVIOUS
<1> DEFINE holders(x) == {a \in Owners : OwnedBy(a, x)}
<1>1. \A x, a : a \in Owners => (OwnedBy(a, x) <=> x \in Holds(a))
  BY LostAssumption DEF Holds, OwnedBy, Owners
<1>2. \A a, b \in Owners : a # b => Holds(a) \cap Holds(b) = {}
  BY LostAssumption DEF Exclusion, ResourceExclusion, Holds, Owners
<1>3. \A a \in Owners : Holds(a) \subseteq active
  BY LostAssumption DEF Exclusion, HeldIsReserved, Holds, Owners
<1>4. ownerOf = [x \in Resources |->
                   IF holders(x) # {} THEN CHOOSE a \in holders(x) : TRUE
                   ELSE IF x \in active THEN Lost ELSE NoOne]
  BY DEF ownerOf
<1>5. ASSUME NEW x \in Resources, NEW a \in Owners, x \in Holds(a)
      PROVE  ownerOf[x] = a /\ x \in active
  <2>1. holders(x) = {a}
    BY <1>1, <1>2, <1>5
  <2>2. (CHOOSE b \in {a} : TRUE) = a
    OBVIOUS
  <2> QED BY <1>3, <1>4, <1>5, <2>1, <2>2
<1>6. ASSUME NEW x \in Resources, \A a \in Owners : x \notin Holds(a)
      PROVE  ownerOf[x] = IF x \in active THEN Lost ELSE NoOne
  <2>1. holders(x) = {}
    BY <1>1, <1>6
  <2> QED BY <1>4, <2>1
<1> HIDE DEF holders
<1>7. /\ Lost \notin Owners /\ NoOne \notin Owners /\ Lost # NoOne
  BY LostAssumption
<1>8. \A x \in Resources : ownerOf[x] \in Owners \cup {NoOne, Lost}
  BY <1>5, <1>6
<1>9. \A x \in Resources, a \in Owners : ownerOf[x] = a <=> x \in Holds(a)
  BY <1>5, <1>6, <1>7
<1>10. \A x \in Resources : ownerOf[x] = NoOne <=> x \notin active
  BY <1>5, <1>6, <1>7
<1> QED BY <1>4, <1>8, <1>9, <1>10 DEF OwnerIsHolder

-----------------------------------------------------------------------------
(* What a step does to the names, and what it is for ExclusiveReservations *)

OthersHold(S) == \A b \in Owners \ S : Holds(b)' = Holds(b)

Keeps       == active' = active /\ OthersHold({})
Takes(a, X) == /\ X \cap active = {} /\ active' = active \cup X
               /\ Holds(a) = {} /\ Holds(a)' = X /\ OthersHold({a})
GivesUp(a)  == /\ \/ active' = active \ Holds(a)
                  \/ active' = active /\ (DbMayFail \/ ClientMayVanish)
               /\ Holds(a)' = {} /\ OthersHold({a})
Passes(a, b) == /\ active' = active /\ a # b
                /\ Holds(b) = {} /\ Holds(b)' = Holds(a) /\ Holds(a)' = {}
                /\ OthersHold({a, b})

Reserves == \/ Keeps \/ active' = {}
            \/ \E a \in Owners : GivesUp(a) \/ \E X \in SUBSET Resources : Takes(a, X)
            \/ \E a, b \in Owners : Passes(a, b)

(* A step of one of these kinds is a step of the abstract specification.   *)
LEMMA ReservesSimulates ==
    ASSUME TypeOK, OwnerIsHolder, OwnerIsHolder', Reserves
    PROVE  [Reservations!Next]_ownerOf
<1>0. SUFFICES ASSUME ownerOf' # ownerOf PROVE Reservations!Next
  BY DEF Reservations!Next
<1> USE DEF OwnerIsHolder
<1>1. Reservations!TypeOK'
  BY DEF Reservations!TypeOK
<1>2. CASE Keeps
  <2>1. \A x \in Resources : ownerOf'[x] = ownerOf[x]
    BY <1>2 DEF Keeps, OthersHold
  <2> QED BY <1>0, <2>1
<1>3. CASE active' = {}
  <2>1. Reservations!Restart
    BY <1>3 DEF Reservations!Restart
  <2> QED BY <1>0, <1>1, <2>1 DEF Reservations!Next
<1>4. ASSUME NEW a \in Owners, NEW X \in SUBSET Resources, Takes(a, X)
      PROVE  Reservations!Next
  <2>1. Reservations!Acquire(a)
    BY <1>4 DEF Takes, OthersHold, Reservations!Acquire, Reservations!Owns, Reservations!Pass
  <2> QED BY <1>0, <1>1, <2>1 DEF Reservations!Next
<1>5. ASSUME NEW a \in Owners, GivesUp(a) PROVE Reservations!Next
  <2>1. ~Reservations!Owns(a)'
    BY <1>5 DEF GivesUp, Reservations!Owns
  <2>2. CASE active' = active \ Holds(a)
    <3>1. Reservations!Pass({a}, NoOne)
      BY <1>5, <2>2 DEF GivesUp, OthersHold, Reservations!Pass
    <3> QED BY <1>0, <1>1, <2>1, <3>1 DEF Reservations!Next, Reservations!Release
  <2>3. CASE active' = active
    <3>1. Reservations!Pass({a}, Lost)
      BY <1>5, <2>3 DEF GivesUp, OthersHold, Reservations!Pass
    <3> QED BY <1>0, <1>1, <2>1, <3>1 DEF Reservations!Next, Reservations!Lose
  <2> QED BY <1>5, <2>2, <2>3 DEF GivesUp
<1>6. ASSUME NEW a \in Owners, NEW b \in Owners, Passes(a, b) PROVE Reservations!Next
  <2>1. Reservations!HandOver(a, b)
    BY <1>6 DEF Passes, OthersHold, Reservations!HandOver, Reservations!Owns, Reservations!Pass
  <2> QED BY <1>0, <1>1, <2>1 DEF Reservations!Next
<1> QED BY <1>2, <1>3, <1>4, <1>5, <1>6 DEF Reserves

-----------------------------------------------------------------------------
(* The steps of a handler *)

(* A step of one handler, and of a task it may spawn, moves only its own.  *)
LEMMA HolderMoves ==
    ASSUME TypeOK, NEW r \in Requests, NEW stage,
           at' = [at EXCEPT ![r] = stage],
           UNCHANGED on \/ (\E o : on' = [on EXCEPT ![r] = o])
    PROVE  /\ Holds(r) = RequestHolds(r) /\ Holds(r)' = RequestHolds(r)'
           /\ UNCHANGED task => OthersHold({r})
           /\ \A o \in Ops : \A new : task' = [task EXCEPT ![o] = new] => OthersHold({r, o})
<1> USE DEF Holds
<1>1. \A q \in Requests \ {r} : RequestHolds(q)' = RequestHolds(q)
  BY OthersHoldSame
<1>2. UNCHANGED task => OthersHold({r})
  BY <1>1 DEF OthersHold, Owners, TaskHolds
<1>3. ASSUME NEW o \in Ops, NEW new, task' = [task EXCEPT ![o] = new]
      PROVE  OthersHold({r, o})
  BY <1>1, <1>3 DEF OthersHold, Owners, TaskHolds, TypeOK
<1> QED BY <1>2, <1>3

\* A handler that holds afterwards what it held before moves no name.
LEMMA RequestKeeps ==
    ASSUME NEW r \in Requests, OthersHold({r}), active' = active, Holds(r)' = Holds(r)
    PROVE  Reserves
BY DEF Reserves, Keeps, OthersHold, Owners

\* A handler that returns gives its names back, unless it was dropped or its
\* INSERT failed.
LEMMA RequestGivesUp ==
    ASSUME NEW r \in Requests, OthersHold({r}), Holds(r)' = {},
           \/ active' = active \ Holds(r)
           \/ active' = active /\ (Holds(r) = {} \/ DbMayFail \/ ClientMayVanish)
    PROVE  Reserves
<1>1. GivesUp(r)
  BY DEF GivesUp
<1> QED BY <1>1 DEF Reserves, Owners

\* A handler reserves names that are free.
LEMMA RequestReserves ==
    ASSUME NEW r \in Requests, OthersHold({r}), NEW X \in SUBSET Resources,
           Holds(r) = {}, Holds(r)' = X, X \cap active = {}, active' = active \cup X
    PROVE  Reserves
BY DEF Reserves, Takes, Owners

(* The request spawns the task of its operation, which had none.           *)
LEMMA RequestSpawns ==
    ASSUME TypeOK, NEW r \in Requests, NEW o \in Ops, task[o] = "none", o = on[r],
           RequestHolds(r) = Needs[o], Spawn(o), Return(r), active' = active
    PROVE  Reserves
<1>1. OthersHold({r, o}) /\ Holds(r) = Needs[o] /\ Holds(r)' = {}
  BY HolderMoves, ReturnHoldsNothing DEF Spawn, Return
<1>2. o \in Owners /\ o \notin Requests /\ r \in Owners /\ r # o
  BY LostAssumption DEF Owners
<1>3. Holds(o) = {} /\ Holds(o)' = Needs[o]
  BY <1>2 DEF Holds, TaskHolds, Spawn, TypeOK
<1>4. Passes(r, o)
  BY <1>1, <1>2, <1>3 DEF Passes
<1> QED BY <1>2, <1>4 DEF Reserves

\* A prune or a removal may take "docker-images" as it arrives.
LEMMA ArrivesReserves ==
    ASSUME TypeOK, NEW r \in Requests, Arrives(r) PROVE Reserves
<1>1. CASE ImageReserve(r) /\ DockerImages \notin active
  <2>1. RequestHolds(r) = {} /\ RequestHolds(r)' = {DockerImages}
    BY <1>1 DEF ImageReserve, Goto, TypeOK, RequestHolds, HoldsImages, PullStages, ImageStages
  <2>2. OthersHold({r}) /\ Holds(r) = RequestHolds(r) /\ Holds(r)' = RequestHolds(r)'
    BY <1>1, HolderMoves DEF ImageReserve, Goto
  <2>3. active' = active \cup {DockerImages} /\ {DockerImages} \cap active = {}
    BY <1>1 DEF ImageReserve
  <2>4. {DockerImages} \in SUBSET Resources
    BY ConstantsAssumption
  <2> QED BY <2>1, <2>2, <2>3, <2>4, RequestReserves
<1>2. CASE ~(ImageReserve(r) /\ DockerImages \notin active)
  <2>1. UNCHANGED <<active, task>>
    BY <1>2 DEF Arrives, PullReattach, PullLookup, CancelPullRead, JobRequest, CancelOpRead,
                CancelRefused, ImageReserve, vars
  <2>2. \A q \in Requests : RequestHolds(q)' = RequestHolds(q)
    BY <1>2 DEF Arrives, PullReattach, PullLookup, CancelPullRead, JobRequest, CancelOpRead,
                CancelRefused, ImageReserve, Begin, vars, TypeOK, RequestHolds, HoldsImages,
                PullStages, ImageStages
  <2> QED BY <2>1, <2>2 DEF Reserves, Keeps, OthersHold, Holds, TaskHolds
<1> QED BY <1>1, <1>2

\* Every await of a handler keeps, takes, gives back or passes on its names.
LEMMA HandleReserves ==
    ASSUME Lifecycle, NEW r \in Requests, Handle(r) \/ Vanish(r) PROVE Reserves
<1>0. TypeOK
  BY DEF Lifecycle
<1>1. /\ Holds(r) = RequestHolds(r) /\ Holds(r)' = RequestHolds(r)'
      /\ UNCHANGED task => OthersHold({r})
  BY <1>0, HolderMoves
     DEF Handle, Vanish, Goto, Return, PullReserve, PullLink, PullOpLink,
         PullInsert, PullUndoPullLink, PullUndoOpLink, PullUndoReserve,
         JobCheck, JobReserve, JobInsert, JobLink, ImageGuard, ImageDocker,
         ImageRelease, CancelPullSignal, CancelPullWrite, CancelOpSignal,
         CancelOpWrite
<1> USE DEF RequestHolds, HoldsImages, PullStages, ImageStages
<1>2. ASSUME UNCHANGED <<active, task>>, RequestHolds(r)' = RequestHolds(r) PROVE Reserves
  BY <1>1, <1>2, RequestKeeps
<1>3. ASSUME UNCHANGED task, Return(r),
             \/ active' = active \ RequestHolds(r)
             \/ active' = active /\ (RequestHolds(r) = {} \/ DbMayFail \/ ClientMayVanish)
      PROVE  Reserves
  BY <1>0, <1>1, <1>3, RequestGivesUp, ReturnHoldsNothing
<1>4. CASE PullReserve(r) /\ DockerImages \notin active
  <2>1. /\ RequestHolds(r) = {} /\ RequestHolds(r)' = {DockerImages}
        /\ active' = active \cup {DockerImages} /\ {DockerImages} \cap active = {}
    BY <1>0, <1>4 DEF PullReserve, Goto, TypeOK
  <2>2. UNCHANGED task /\ {DockerImages} \in SUBSET Resources
    BY <1>4, ConstantsAssumption DEF PullReserve
  <2> QED BY <1>1, <2>1, <2>2, RequestReserves
<1>5. CASE PullReserve(r) /\ DockerImages \in active
  BY <1>3, <1>5 DEF PullReserve
<1>6. CASE PullLink(r)
  <2>1. CASE on[r] \in pullSenders
    BY <1>3, <1>6, <2>1 DEF PullLink
  <2>2. CASE on[r] \notin pullSenders
    BY <1>0, <1>2, <1>6, <2>2 DEF PullLink, Goto, TypeOK
  <2> QED BY <2>1, <2>2
<1>7. CASE PullOpLink(r) \/ PullUndoPullLink(r) \/ PullUndoOpLink(r)
  BY <1>0, <1>2, <1>7 DEF PullOpLink, PullUndoPullLink, PullUndoOpLink, Goto, TypeOK
<1>8. CASE PullInsert(r)
  <2>1. PICK p \in Pulls : p = on[r]
    BY <1>0, <1>8 DEF PullInsert, TypeOK
  <2>2. CASE Spawn(on[r]) /\ Return(r) /\ phase[p] = "none"
    <3>1. p \in Ops /\ task[p] = "none"
      BY <2>2 DEF Lifecycle, Arrived, Ops
    <3>2. RequestHolds(r) = Needs[p] /\ active' = active
      BY <1>8, ConstantsAssumption DEF PullInsert
    <3> QED BY <1>0, <2>1, <2>2, <3>1, <3>2, RequestSpawns
  <2>3. CASE Goto(r, "undoPull") /\ UNCHANGED task
    BY <1>0, <1>2, <1>8, <2>3 DEF PullInsert, Goto, TypeOK
  <2> QED BY <1>8, <2>1, <2>2, <2>3 DEF PullInsert
<1>9. CASE PullUndoReserve(r) \/ ImageRelease(r)
  BY <1>3, <1>9 DEF PullUndoReserve, ImageRelease
<1>10. CASE JobCheck(r)
  BY <1>0, <1>2, <1>10 DEF JobCheck, Return, Goto, TypeOK
<1>11. CASE JobReserve(r)
  <2>1. CASE Return(r) /\ active' = active
    BY <1>3, <1>11, <2>1 DEF JobReserve
  <2>2. CASE /\ Needs[on[r]] \cap active = {}
             /\ active' = active \cup Needs[on[r]]
             /\ Goto(r, "jobInsert")
    <3>1. RequestHolds(r) = {} /\ RequestHolds(r)' = Needs[on[r]]
      BY <1>0, <1>11, <2>2 DEF JobReserve, Goto, TypeOK
    <3>2. UNCHANGED task /\ Needs[on[r]] \in SUBSET Resources
      BY <1>0, <1>11, ConstantsAssumption DEF JobReserve, TypeOK, JobStages, Ops
    <3> QED BY <1>1, <2>2, <3>1, <3>2, RequestReserves
  <2> QED BY <1>11, <2>1, <2>2 DEF JobReserve
<1>12. CASE JobInsert(r) \/ JobLink(r)
  <2>1. PICK j \in Jobs : j = on[r]
    BY <1>0, <1>12 DEF JobInsert, JobLink, TypeOK, JobStages
  <2>2. CASE Spawn(on[r]) /\ Return(r)
    <3>1. j \in Ops /\ task[j] = "none"
      BY <1>12, <2>1 DEF JobInsert, JobLink, Lifecycle, Arrived, FreshJob, JobStages, Ops
    <3>2. RequestHolds(r) = Needs[j] /\ active' = active
      BY <1>12, <2>1 DEF JobInsert, JobLink
    <3> QED BY <1>0, <2>1, <2>2, <3>1, <3>2, RequestSpawns
  <2>3. CASE Goto(r, "jobLink") /\ UNCHANGED task
    BY <1>0, <1>2, <1>12, <2>3 DEF JobInsert, JobLink, Goto, TypeOK
  <2>4. CASE DbMayFail /\ Return(r) /\ UNCHANGED <<active, task>>
    BY <1>3, <2>4
  <2> QED BY <1>12, <2>2, <2>3, <2>4 DEF JobInsert, JobLink
<1>13. CASE ImageGuard(r) \/ ImageDocker(r)
  <2>1. CASE Return(r) /\ active' = active \ {DockerImages}
    BY <1>3, <1>13, <2>1 DEF ImageGuard, ImageDocker
  <2>2. CASE active' = active /\ (Goto(r, "imageDocker") \/ Goto(r, "imageRelease"))
    BY <1>0, <1>2, <1>13, <2>2 DEF ImageGuard, ImageDocker, Goto, TypeOK
  <2> QED BY <1>13, <2>1, <2>2 DEF ImageGuard, ImageDocker
<1>14. CASE CancelPullSignal(r) \/ CancelPullWrite(r) \/ CancelOpSignal(r) \/ CancelOpWrite(r)
  BY <1>0, <1>2, <1>14
     DEF CancelPullSignal, CancelPullWrite, CancelOpSignal, CancelOpWrite, Return, Goto, TypeOK
<1>15. CASE Vanish(r)
  BY <1>3, <1>15 DEF Vanish
<1> QED BY <1>4, <1>5, <1>6, <1>7, <1>8, <1>9, <1>10, <1>11, <1>12, <1>13, <1>14, <1>15
        DEF Handle

-----------------------------------------------------------------------------
(* The steps of a task and of main() *)

\* A task gives its names back in its last step and keeps them until then.
LEMMA TaskReserves ==
    ASSUME TypeOK,
           \/ \E p \in Pulls : PullWork(p) \/ PullProgress(p)
           \/ \E j \in Jobs : JobWork(j) \/ JobProgress(j) \/ JobProduces(j)
           \/ \E o \in Ops : TaskWork(o)
    PROVE  Reserves
<1>1. ASSUME NEW o \in Ops, TaskRelease(o) PROVE Reserves
  <2>1. TaskHolds(o) = Needs[o] /\ TaskHolds(o)' = {}
    BY <1>1 DEF TaskRelease, Advance, TaskHolds, TypeOK
  <2>2. o \in Owners /\ Holds(o) = Needs[o] /\ Holds(o)' = {}
    BY <2>1, LostAssumption DEF Holds, Owners
  <2>3. OthersHold({o})
    BY <1>1 DEF TaskRelease, Advance, OthersHold, Owners, Holds, RequestHolds, TaskHolds, TypeOK
  <2>4. active' = active \ Needs[o]
    BY <1>1 DEF TaskRelease
  <2> QED BY <2>2, <2>3, <2>4 DEF Reserves, GivesUp
<1>2. ASSUME NEW o \in Ops, NEW from, NEW to, Advance(o, from, to),
             from # "none", to # "none", UNCHANGED <<active, handlers>>
      PROVE  Reserves
  BY <1>2 DEF Advance, Reserves, Keeps, OthersHold, Owners, Holds, RequestHolds, TaskHolds, TypeOK
<1>3. CASE UNCHANGED <<active, handlers, task>>
  BY <1>3 DEF Reserves, Keeps, OthersHold, Holds, RequestHolds, TaskHolds
<1>4. ASSUME NEW p \in Pulls, PullWork(p) PROVE Reserves
  BY <1>4, <1>2 DEF PullWork, PullBegin, PullBodyEnds, BodyEnds, PullDrained, PullUnlink, Ops
<1>5. ASSUME NEW j \in Jobs, JobWork(j) PROVE Reserves
  BY <1>5, <1>2 DEF JobWork, JobBodyEnds, BodyEnds, JobCleanup, Ops
<1>6. ASSUME NEW o \in Ops, TaskFinish(o) \/ OpUnlink(o) PROVE Reserves
  BY <1>6, <1>2 DEF TaskFinish, OpUnlink
<1> QED BY <1>1, <1>3, <1>4, <1>5, <1>6 DEF TaskWork, PullProgress, JobProgress, JobProduces

\* A restart empties active_resources; a resumed pull takes a free name.
LEMMA BootReserves == ASSUME Lifecycle, Crash \/ Boot PROVE Reserves
<1>1. CASE Crash
  BY <1>1 DEF Crash, Reserves
<1>2. ASSUME NEW p \in Pulls, ResumePull(p) PROVE Reserves
  <2>1. CASE UNCHANGED <<tables, tasks>>
    BY <1>2, <2>1
       DEF ResumePull, Reserves, Keeps, OthersHold, Holds, RequestHolds, TaskHolds
  <2>2. CASE DockerImages \notin active /\ active' = active \cup {DockerImages} /\ Spawn(p)
    <3>1. p \in Ops /\ task[p] = "none" /\ p \in Owners /\ p \notin Requests
      BY <1>2, LostAssumption DEF ResumePull, Lifecycle, Booted, Ops, Owners
    <3>2. Holds(p) = {} /\ Holds(p)' = {DockerImages}
      BY <2>2, <3>1, ConstantsAssumption DEF Holds, TaskHolds, Spawn, Lifecycle, TypeOK
    <3>3. OthersHold({p})
      BY <1>2, <2>2, <3>1
         DEF ResumePull, Spawn, OthersHold, Owners, Holds, RequestHolds, TaskHolds, Lifecycle,
             TypeOK
    <3>4. {DockerImages} \in SUBSET Resources /\ {DockerImages} \cap active = {}
      BY <2>2, ConstantsAssumption
    <3>5. Takes(p, {DockerImages})
      BY <2>2, <3>2, <3>3, <3>4 DEF Takes
    <3> QED BY <3>1, <3>4, <3>5 DEF Reserves
  <2> QED BY <1>2, <2>1, <2>2 DEF ResumePull
<1>3. CASE (\E o \in Ops : RecoverRow(o)) \/ CleanPartialFiles \/ Serve
  BY <1>3 DEF RecoverRow, CleanPartialFiles, Serve, Reserves, Keeps, OthersHold, Holds,
              RequestHolds, TaskHolds
<1> QED BY <1>1, <1>2, <1>3 DEF Boot

(* So every step of the controller is one of the kinds of Reserves.        *)
LEMMA StepReserves == ASSUME Lifecycle, [Next]_vars PROVE Reserves
<1>1. TypeOK
  BY DEF Lifecycle
<1>2. CASE UNCHANGED vars
  BY <1>2 DEF vars, Reserves, Keeps, OthersHold, Holds, RequestHolds, TaskHolds
<1>3. CASE Next
  BY <1>1, <1>3, ArrivesReserves, HandleReserves, TaskReserves, BootReserves DEF Next
<1> QED BY <1>2, <1>3

-----------------------------------------------------------------------------
(* Whatever handlers, tasks, crashes and restarts do, the names of         *)
(* active_resources are taken only while they are free, given back or      *)
(* handed over only by their owner, and lost only with the handler that    *)
(* had them: DurableOperations implements ExclusiveReservations.           *)
THEOREM ReservationsImplemented == Spec => ReservationsAreExclusive
<1>1. ASSUME Init PROVE Reservations!Init
  <2>1. \A a \in Owners : \A x : ~OwnedBy(a, x)
    BY <1>1 DEF Init, Owners, OwnedBy, RequestHolds, TaskHolds, HoldsImages, PullStages, ImageStages
  <2>2. \A x : {a \in Owners : OwnedBy(a, x)} = {}
    BY <2>1
  <2>3. active = {}
    BY <1>1 DEF Init
  <2> QED BY <2>2, <2>3 DEF ownerOf, Reservations!Init
<1>2. Lifecycle /\ [Next]_vars => Reserves
  BY StepReserves
<1>3. TypeOK /\ OwnerIsHolder /\ OwnerIsHolder' /\ Reserves => [Reservations!Next]_ownerOf
  BY ReservesSimulates
<1> QED BY <1>1, <1>2, <1>3, InitLifecycle, NextLifecycle, OwnerOfName, TypeCorrect,
           ExclusionCorrect, PTL
        DEF Spec, ReservationsAreExclusive, Reservations!Spec

-----------------------------------------------------------------------------
(* Where every write of a row succeeds and no connection closes early, a   *)
(* name cannot lose its holder.                                            *)

\* Whoever takes, gives up or passes on names leaves none behind.
LEMMA ReservesKeepsHolders ==
    ASSUME ~DbMayFail, ~ClientMayVanish, NoOrphanReservation, Reserves
    PROVE  NoOrphanReservation'
<1>1. NoOrphanReservation <=> \A x \in active : \E a \in Owners : x \in Holds(a)
  BY LostAssumption DEF NoOrphanReservation, Owners, Holds
<1>2. NoOrphanReservation' <=> \A x \in active' : \E a \in Owners : x \in Holds(a)'
  BY LostAssumption DEF NoOrphanReservation, Owners, Holds
<1>3. SUFFICES ASSUME NEW x \in active' PROVE \E a \in Owners : x \in Holds(a)'
  BY <1>2
<1>4. CASE Keeps
  BY <1>1, <1>4 DEF Keeps, OthersHold
<1>5. ASSUME NEW a \in Owners, NEW X \in SUBSET Resources, Takes(a, X)
      PROVE  \E b \in Owners : x \in Holds(b)'
  <2>1. CASE x \in X
    BY <1>5, <2>1 DEF Takes
  <2>2. CASE x \in active
    <3>1. PICK b \in Owners : x \in Holds(b)
      BY <1>1, <2>2
    <3> QED BY <1>5, <3>1 DEF Takes, OthersHold
  <2> QED BY <1>5, <2>1, <2>2 DEF Takes
<1>6. ASSUME NEW a \in Owners, GivesUp(a)
      PROVE  \E b \in Owners : x \in Holds(b)'
  <2>1. x \in active \ Holds(a)
    BY <1>6 DEF GivesUp
  <2>2. PICK b \in Owners : x \in Holds(b)
    BY <1>1, <2>1
  <2> QED BY <1>6, <2>1, <2>2 DEF GivesUp, OthersHold
<1>7. ASSUME NEW a \in Owners, NEW b \in Owners, Passes(a, b)
      PROVE  \E c \in Owners : x \in Holds(c)'
  <2>1. PICK c \in Owners : x \in Holds(c)
    BY <1>1, <1>7 DEF Passes
  <2> QED BY <1>7, <2>1 DEF Passes, OthersHold
<1> QED BY <1>4, <1>5, <1>6, <1>7 DEF Reserves

(* No name stays in active_resources without a handler or a task that will *)
(* give it back: no early return, undo, hand-over or restart leaks it.     *)
(* Both hypotheses are needed: an INSERT that fails in a template request  *)
(* and a handler dropped with its connection each lose a name for good.    *)
THEOREM NoOrphanCorrect ==
    ASSUME ~DbMayFail, ~ClientMayVanish
    PROVE  Spec => []NoOrphanReservation
<1>1. Init => NoOrphanReservation
  BY DEF Init, NoOrphanReservation
<1>2. Lifecycle /\ NoOrphanReservation /\ [Next]_vars => NoOrphanReservation'
  BY StepReserves, ReservesKeepsHolders
<1> QED BY <1>1, <1>2, InitLifecycle, NextLifecycle, PTL DEF Spec
=============================================================================
